-------------------------- MODULE VoiceRoomsProofs --------------------------
(***************************************************************************)
(* Proofs about VoiceRooms, for every set of channels, joins and changes   *)
(* and every bound: its types, and, when every join is answered within     *)
(* repeatMargin, that whoever has lost the right to be in a call has a     *)
(* call coming that ends it.                                               *)
(***************************************************************************)
EXTENDS VoiceRooms, TLAPS

(***************************************************************************)
(* Types                                                                   *)
(***************************************************************************)
Spaces == [there : BOOLEAN, voice : BOOLEAN, member : BOOLEAN]
JoinRow == [phase : {"none", "member", "checked", "minted", "over"}, channel : SUBSET Channels]
Work == [phase : {"none", "listing", "deleting", "calling"},
         kind : {"none", "remove", "close"}, rooms : SUBSET Channels]
RepeatRow == [kind : {"remove", "close"}, room : Channels, after : SUBSET Joins,
              phase : {"waiting", "calling"}]

RightsTyped ==
    /\ space \in Spaces /\ channel \in [Channels -> {"none", "there", "deleted"}]
    /\ people \subseteq Private

LiveKitTyped == join \in [Joins -> JoinRow] /\ inRoom \subseteq Channels

\* A change whose cleanup runs is of one kind.
CallsTyped ==
    /\ work \in [Works -> Work] /\ \A w \in Works : work[w] = NoWork \/ work[w].kind # "none"
    /\ \A r \in repeats : r \in RepeatRow
    /\ lost \subseteq Channels

BoundsTyped == left \in [{"changes", "failures"} -> Nat]

Typed == RightsTyped /\ LiveKitTyped /\ CallsTyped /\ BoundsTyped

LEMMA TypedIsTypeOK == Typed => TypeOK
BY DEF Typed, RightsTyped, LiveKitTyped, CallsTyped, BoundsTyped, TypeOK, Spaces, JoinRow, Work, RepeatRow

LEMMA InitTyped == Init => Typed
<1> SUFFICES ASSUME Init PROVE Typed
  OBVIOUS
<1>1. RightsTyped
  BY VoiceRoomsAssumption DEF Init, RightsTyped, Spaces
<1>2. LiveKitTyped
  BY DEF Init, LiveKitTyped, JoinRow
<1>3. CallsTyped
  BY DEF Init, CallsTyped, NoWork, Work
<1>4. BoundsTyped
  BY VoiceRoomsAssumption DEF Init, BoundsTyped
<1> QED
  BY <1>1, <1>2, <1>3, <1>4 DEF Typed

LEMMA SpendTyped ==
  ASSUME BoundsTyped, NEW b \in {"changes", "failures"}, Spend(b)
  PROVE  BoundsTyped'
BY DEF BoundsTyped, Spend

\* A row of a change's cleanup that is of one kind takes another's place.
LEMMA WorkTyped ==
  ASSUME CallsTyped, NEW w \in Works, NEW x \in Work, x.kind # "none",
         \A v \in Works : work'[v] = IF v = w THEN x ELSE work[v],
         work' = [v \in Works |-> work'[v]]
  PROVE  work' \in [Works -> Work] /\ \A v \in Works : work'[v] = NoWork \/ work'[v].kind # "none"
<1>1. \A v \in Works : work'[v] \in Work
  BY DEF CallsTyped
<1>2. work' \in [Works -> Work]
  BY <1>1
<1> QED
  BY <1>2 DEF CallsTyped

\* A change begins.
LEMMA BeginTyped ==
  ASSUME CallsTyped, NEW w \in Works, NEW p \in {"listing", "deleting", "calling"},
         NEW k \in {"remove", "close"}, NEW R \in SUBSET Channels, Begin(w, k, p, R)
  PROVE  CallsTyped'
<1> DEFINE x == [phase |-> p, kind |-> k, rooms |-> R]
<1>1. x \in Work /\ x.kind # "none"
  BY DEF Work
<1>2. work' = [work EXCEPT ![w] = x] /\ UNCHANGED <<repeats, lost>>
  BY DEF Begin
<1> HIDE DEF x
<1>3. /\ \A v \in Works : work'[v] = IF v = w THEN x ELSE work[v]
      /\ work' = [v \in Works |-> work'[v]]
  BY <1>2 DEF CallsTyped
<1>4. work' \in [Works -> Work] /\ \A v \in Works : work'[v] = NoWork \/ work'[v].kind # "none"
  BY <1>1, <1>3, WorkTyped
<1> QED
  BY <1>2, <1>4 DEF CallsTyped

\* A change whose cleanup is under way goes on with other rooms to call.
LEMMA GoOnTyped ==
  ASSUME CallsTyped, NEW w \in Works, work[w].phase # "none", NEW R \in SUBSET Channels,
         \/ work' = [work EXCEPT ![w].phase = "calling"]
         \/ work' = [work EXCEPT ![w].phase = "calling", ![w].rooms = R]
         \/ work' = [work EXCEPT ![w].rooms = R]
  PROVE  work' \in [Works -> Work] /\ \A v \in Works : work'[v] = NoWork \/ work'[v].kind # "none"
<1>1. work[w] \in Work /\ work[w].kind # "none"
  BY DEF CallsTyped, NoWork
<1>2. /\ work'[w] \in Work /\ work'[w].kind # "none"
      /\ \A v \in Works : v # w => work'[v] = work[v]
  BY <1>1 DEF CallsTyped, Work
<1>3. work' = [v \in Works |-> work'[v]]
  BY DEF CallsTyped
<1> QED
  BY <1>2, <1>3, WorkTyped

Joining ==
    \E j \in Joins : (\E c \in Channels : AskMember(j, c)) \/ AskVoice(j) \/ Mint(j) \/ Expire(j) \/ Enter(j)

Ending ==
    \E w \in Works : \/ RemoveFromSpace(w) \/ TurnOff(w) \/ StartDelete(w) \/ DeleteSpace(w)
                     \/ \E c \in Channels : RemoveFromChannel(w, c) \/ DeleteChannel(w, c)

Giving == Rejoin \/ TurnOn \/ \E c \in Channels : AddToChannel(c) \/ CreateChannel(c)

Calling ==
    \/ \E w \in Works : ListRooms(w) \/ \E c \in Channels : CallRoom(w, c)
    \/ \E r \in repeats : Ask(r) \/ Repeat(r)

LEMMA Kinds ==
  Next => Joining \/ Ending \/ Giving \/ Calling \/ Restart \/ \E c \in Channels : HangUp(c)
BY DEF Next, Joining, Ending, Giving, Calling

LEMMA JoiningTyped == Typed /\ (Joining \/ \E c \in Channels : HangUp(c)) => Typed'
<1> SUFFICES ASSUME Typed, Joining \/ \E c \in Channels : HangUp(c) PROVE Typed'
  OBVIOUS
<1> USE DEF Typed
<1>1. LiveKitTyped'
  <2>1. CASE \E c \in Channels : HangUp(c)
    BY <2>1 DEF HangUp, LiveKitTyped
  <2>2. CASE \E j \in Joins, c \in Channels : AskMember(j, c)
    <3> PICK j \in Joins, c \in Channels : AskMember(j, c)
      BY <2>2
    <3>1. [join EXCEPT ![j] = [phase |-> "member", channel |-> {c}]] \in [Joins -> JoinRow]
      BY DEF LiveKitTyped, JoinRow
    <3> QED
      BY <3>1 DEF AskMember, LiveKitTyped
  <2>3. CASE \E j \in Joins : AskVoice(j)
    <3> PICK j \in Joins : AskVoice(j)
      BY <2>3
    <3>1. [join EXCEPT ![j].phase = "checked"] \in [Joins -> JoinRow]
          /\ [join EXCEPT ![j].phase = "over"] \in [Joins -> JoinRow]
      BY DEF LiveKitTyped, JoinRow
    <3> QED
      BY <3>1 DEF AskVoice, LiveKitTyped
  <2>4. CASE \E j \in Joins : Mint(j) \/ Expire(j)
    <3> PICK j \in Joins : Mint(j) \/ Expire(j)
      BY <2>4
    <3>1. [join EXCEPT ![j].phase = "minted"] \in [Joins -> JoinRow]
          /\ [join EXCEPT ![j].phase = "over"] \in [Joins -> JoinRow]
      BY DEF LiveKitTyped, JoinRow
    <3> QED
      BY <3>1 DEF Mint, Expire, LiveKitTyped
  <2>5. CASE \E j \in Joins : Enter(j)
    BY <2>5 DEF Enter, LiveKitTyped, JoinRow
  <2> QED
    BY <2>1, <2>2, <2>3, <2>4, <2>5 DEF Joining
<1>2. UNCHANGED <<rights, calls, left>>
  BY DEF Joining, AskMember, AskVoice, Mint, Expire, Enter, HangUp
<1> QED
  BY <1>1, <1>2 DEF rights, calls, RightsTyped, CallsTyped, BoundsTyped

LEMMA EndingTyped == Typed /\ Ending => Typed'
<1> SUFFICES ASSUME Typed, NEW w \in Works,
                    \/ RemoveFromSpace(w) \/ TurnOff(w) \/ StartDelete(w) \/ DeleteSpace(w)
                    \/ \E c \in Channels : RemoveFromChannel(w, c) \/ DeleteChannel(w, c)
             PROVE  Typed'
  BY DEF Ending
<1> USE DEF Typed
<1>1. CASE RemoveFromSpace(w)
  <2>1. RightsTyped'
    BY <1>1 DEF RemoveFromSpace, RightsTyped, Spaces
  <2>2. CallsTyped'
    BY <1>1, BeginTyped DEF RemoveFromSpace
  <2> QED
    BY <1>1, <2>1, <2>2 DEF RemoveFromSpace, Begin, livekit, LiveKitTyped, BoundsTyped
<1>2. CASE TurnOff(w)
  <2>1. RightsTyped'
    BY <1>2 DEF TurnOff, RightsTyped, Spaces
  <2>2. CallsTyped'
    BY <1>2, BeginTyped DEF TurnOff
  <2> QED
    BY <1>2, <2>1, <2>2 DEF TurnOff, Begin, livekit, LiveKitTyped, BoundsTyped
<1>3. CASE StartDelete(w)
  <2>1. RightsTyped'
    BY <1>3 DEF StartDelete, rights, RightsTyped
  <2>2. PICK R \in SUBSET Channels : Begin(w, "close", "deleting", R)
    BY <1>3 DEF StartDelete, There
  <2>3. CallsTyped'
    BY <2>2, BeginTyped
  <2>4. BoundsTyped'
    BY <1>3, SpendTyped DEF StartDelete, BoundsTyped
  <2> QED
    BY <2>1, <2>2, <2>3, <2>4 DEF Begin, livekit, LiveKitTyped
<1>4. CASE DeleteSpace(w)
  <2>1. RightsTyped'
    BY <1>4 DEF DeleteSpace, RightsTyped, Spaces
  <2>2. CallsTyped'
    <3>1. work[w].phase # "none" /\ work' = [work EXCEPT ![w].phase = "calling"]
      BY <1>4 DEF DeleteSpace
    <3>2. work' \in [Works -> Work] /\ \A v \in Works : work'[v] = NoWork \/ work'[v].kind # "none"
      BY <3>1, GoOnTyped
    <3> QED
      BY <1>4, <3>2 DEF DeleteSpace, CallsTyped, There
  <2> QED
    BY <1>4, <2>1, <2>2 DEF DeleteSpace, livekit, LiveKitTyped, BoundsTyped
<1>5. CASE \E c \in Channels : RemoveFromChannel(w, c)
  <2>1. RightsTyped'
    BY <1>5 DEF RemoveFromChannel, RightsTyped
  <2>2. CallsTyped'
    <3> PICK c \in Channels : RemoveFromChannel(w, c)
      BY <1>5
    <3> QED
      BY BeginTyped DEF RemoveFromChannel
  <2> QED
    BY <1>5, <2>1, <2>2 DEF RemoveFromChannel, Begin, livekit, LiveKitTyped, BoundsTyped
<1>6. CASE \E c \in Channels : DeleteChannel(w, c)
  <2>1. RightsTyped'
    BY <1>6 DEF DeleteChannel, RightsTyped
  <2>2. CallsTyped'
    <3> PICK c \in Channels : DeleteChannel(w, c)
      BY <1>6
    <3> QED
      BY BeginTyped DEF DeleteChannel
  <2> QED
    BY <1>6, <2>1, <2>2 DEF DeleteChannel, Begin, livekit, LiveKitTyped, BoundsTyped
<1> QED
  BY <1>1, <1>2, <1>3, <1>4, <1>5, <1>6

LEMMA GivingTyped == Typed /\ Giving => Typed'
<1> SUFFICES ASSUME Typed, Giving PROVE Typed'
  OBVIOUS
<1> USE DEF Typed
<1>1. RightsTyped'
  <2>1. CASE Rejoin
    BY <2>1 DEF Rejoin, RightsTyped, Spaces
  <2>2. CASE TurnOn
    BY <2>2 DEF TurnOn, RightsTyped, Spaces
  <2>3. CASE \E c \in Channels : AddToChannel(c)
    BY <2>3 DEF AddToChannel, RightsTyped
  <2>4. CASE \E c \in Channels : CreateChannel(c)
    BY <2>4 DEF CreateChannel, RightsTyped
  <2> QED
    BY <2>1, <2>2, <2>3, <2>4 DEF Giving
<1>2. Gives
  BY DEF Giving, Rejoin, TurnOn, AddToChannel, CreateChannel
<1> QED
  BY <1>1, <1>2, SpendTyped DEF Gives, livekit, calls, LiveKitTyped, CallsTyped

LEMMA CallingTyped == Typed /\ Calling => Typed'
<1> SUFFICES ASSUME Typed, Calling PROVE Typed'
  OBVIOUS
<1> USE DEF Typed
<1>1. CASE \E w \in Works : ListRooms(w)
  <2> PICK w \in Works : ListRooms(w)
    BY <1>1
  <2>1. There \in SUBSET Channels /\ work[w].phase # "none"
    BY DEF There, ListRooms
  <2>2. work' \in [Works -> Work] /\ \A v \in Works : work'[v] = NoWork \/ work'[v].kind # "none"
    BY <2>1, GoOnTyped DEF ListRooms
  <2>3. lost' \subseteq Channels /\ UNCHANGED repeats
    BY DEF ListRooms, CallsTyped, There
  <2>4. BoundsTyped'
    BY SpendTyped DEF ListRooms, BoundsTyped
  <2> QED
    BY <2>2, <2>3, <2>4 DEF ListRooms, rights, livekit, RightsTyped, LiveKitTyped, CallsTyped
<1>2. CASE \E w \in Works, c \in Channels : CallRoom(w, c)
  <2> PICK w \in Works, c \in Channels : CallRoom(w, c)
    BY <1>2
  <2>1. work' \in [Works -> Work] /\ \A v \in Works : work'[v] = NoWork \/ work'[v].kind # "none"
    <3>1. work[w].rooms \ {c} \in SUBSET Channels
      BY DEF CallsTyped, Work
    <3>2. work[w].phase # "none" /\ work' = [work EXCEPT ![w].rooms = work[w].rooms \ {c}]
      BY DEF CallRoom
    <3> QED
      BY <3>1, <3>2, GoOnTyped
  <2>3. \A r \in repeats' : r \in RepeatRow
    <3>1. work[w].kind \in {"remove", "close"}
      BY DEF CallRoom, NoWork, CallsTyped, Work
    <3>2. Outstanding \subseteq Joins
      BY DEF Outstanding
    <3> QED
      BY <3>1, <3>2 DEF CallRoom, CallsTyped, RepeatRow
  <2>4. BoundsTyped' /\ inRoom' \subseteq Channels
    BY SpendTyped DEF CallRoom, Reaches, BoundsTyped, LiveKitTyped
  <2> QED
    BY <2>1, <2>3, <2>4 DEF CallRoom, rights, RightsTyped, LiveKitTyped, CallsTyped
<1>3. CASE \E r \in repeats : Ask(r)
  <2> PICK r \in repeats : Ask(r)
    BY <1>3
  <2>1. [r EXCEPT !.phase = "calling"] \in RepeatRow
    BY DEF CallsTyped, RepeatRow
  <2>2. \A x \in repeats' : x \in RepeatRow
    BY <2>1 DEF Ask, CallsTyped
  <2>3. BoundsTyped'
    BY SpendTyped DEF Ask, BoundsTyped
  <2> QED
    BY <2>2, <2>3 DEF Ask, rights, livekit, RightsTyped, LiveKitTyped, CallsTyped
<1>4. CASE \E r \in repeats : Repeat(r)
  <2> PICK r \in repeats : Repeat(r)
    BY <1>4
  <2>1. r.room \in Channels
    BY DEF CallsTyped, RepeatRow
  <2>2. BoundsTyped' /\ inRoom' \subseteq Channels /\ lost' \subseteq Channels
    BY <2>1, SpendTyped DEF Repeat, Reaches, BoundsTyped, LiveKitTyped, CallsTyped
  <2> QED
    BY <2>2 DEF Repeat, rights, RightsTyped, LiveKitTyped, CallsTyped
<1> QED
  BY <1>1, <1>2, <1>3, <1>4 DEF Calling

LEMMA RestartTyped == Typed /\ Restart => Typed'
<1> SUFFICES ASSUME Typed, Restart PROVE Typed'
  OBVIOUS
<1> USE DEF Typed
<1>1. \A w \in Works : ToCall(w) \subseteq Channels
  BY DEF ToCall, There, CallsTyped, Work
<1>2. \A r \in repeats : r.room \in Channels
  BY DEF CallsTyped, RepeatRow
<1>3. lost' \subseteq Channels /\ repeats' = {}
  BY <1>1, <1>2 DEF Restart, CallsTyped
<1>4. work' \in [Works -> Work] /\ \A w \in Works : work'[w] = NoWork \/ work'[w].kind # "none"
  <2>1. ASSUME NEW w \in Works
        PROVE  work'[w] \in Work /\ (work'[w] = NoWork \/ work'[w].kind # "none")
    <3>1. CASE work[w] = NoWork
      BY <3>1 DEF Restart, NoWork, Work
    <3>2. CASE work[w] # NoWork
      <4>1. work'[w] = [work[w] EXCEPT !.phase = "calling", !.rooms = {}]
        BY <3>2 DEF Restart
      <4>2. work[w] \in Work /\ work[w].kind # "none"
        BY <3>2 DEF CallsTyped
      <4> QED
        BY <4>1, <4>2 DEF Work
    <3> QED
      BY <3>1, <3>2
  <2> QED
    BY <2>1 DEF Restart
<1>5. join' \in [Joins -> JoinRow]
  <2>1. ASSUME NEW j \in Joins PROVE [join[j] EXCEPT !.phase = "over"] \in JoinRow /\ join[j] \in JoinRow
    BY DEF LiveKitTyped, JoinRow
  <2> QED
    BY <2>1 DEF Restart
<1>6. BoundsTyped'
  BY SpendTyped DEF Restart
<1> QED
  BY <1>3, <1>4, <1>5, <1>6 DEF Restart, rights, RightsTyped, LiveKitTyped, CallsTyped

LEMMA NextTyped == Typed /\ [Next]_vars => Typed'
<1> SUFFICES ASSUME Typed, [Next]_vars PROVE Typed'
  OBVIOUS
<1>1. CASE Next
  BY <1>1, Kinds, JoiningTyped, EndingTyped, GivingTyped, CallingTyped, RestartTyped
<1>2. CASE UNCHANGED vars
  BY <1>2 DEF vars, Typed, RightsTyped, LiveKitTyped, CallsTyped, BoundsTyped
<1> QED
  BY <1>1, <1>2

\* TypeOK holds in every state: every room a cleanup still has to call, and
\* every repeat that waits, is of a voice channel the space had
\* (internal/voice/rooms.go, internal/chat/voice.go).
THEOREM Types == Spec => []TypeOK
BY InitTyped, NextTyped, TypedIsTypeOK, PTL DEF Spec

(***************************************************************************)
(* A lost right has a call coming                                          *)
(***************************************************************************)

\* A call of this kind will end the right to be in a room for certain: a
\* removal is repeated whatever happens, a close if the room stays closed.
Ends(k, c) == k = "remove" \/ channel[c] # "there" \/ IsMember(c)

\* A change's first call to a room is still to be made.
CallOwed(c) == \E w \in Works : work[w].phase # "deleting" /\ c \in ToCall(w) /\ Ends(work[w].kind, c)

RoomOwed(c) == CallOwed(c) \/ \E r \in repeats : r.room = c /\ Ends(r.kind, c)

\* A call is to be made once this join's token has expired.
TokenOwed(j, c) ==
    CallOwed(c) \/ \E r \in repeats : r.room = c /\ Ends(r.kind, c) /\ r.phase = "waiting" /\ j \in r.after

\* Whoever is in a room has a right to be, or a call is coming.
RoomsOwed(c) == c \in inRoom /\ ~Allowed(c) => RoomOwed(c)

\* So does whoever passed a join's checks, or is still to pass the second.
Passed(j, c) ==
    /\ c \in join[j].channel
    /\ \/ join[j].phase \in {"checked", "minted"} /\ ~Allowed(c)
       \/ join[j].phase = "member" /\ ~IsMember(c)

TokensOwed(c) == \A j \in Joins : Passed(j, c) => TokenOwed(j, c)

\* Nobody is in a channel that was never made, or on the way into it.
Unmade(c) ==
    channel[c] = "none" =>
        c \notin inRoom /\ \A j \in Joins : join[j].phase \in {"member", "checked", "minted"} => c \notin join[j].channel

Owing(c) == c \notin lost => RoomsOwed(c) /\ TokensOwed(c)

OwedInv == Typed /\ \A c \in Channels : Owing(c) /\ Unmade(c)

LEMMA OwedInit == Init => OwedInv
<1> SUFFICES ASSUME Init, NEW c \in Channels PROVE Owing(c) /\ Unmade(c)
  BY InitTyped DEF OwedInv
<1> QED
  BY DEF Init, Owing, RoomsOwed, TokensOwed, Passed, Unmade

\* A call that is owed now settles a channel.
LEMMA Hit ==
  ASSUME NEW c \in Channels, CallOwed(c)'
  PROVE  Owing(c)'
BY DEF Owing, RoomsOwed, TokensOwed, RoomOwed, TokenOwed

\* A step that takes no right to be in a room, and no call to it, keeps what
\* is owed.
LEMMA Kept ==
  ASSUME Typed, NEW c \in Channels, Owing(c), lost \subseteq lost',
         UNCHANGED join, c \in inRoom' => c \in inRoom,
         Allowed(c) => Allowed(c)', IsMember(c) => IsMember(c)',
         \A k \in {"remove", "close"} : Ends(k, c) => Ends(k, c)',
         CallOwed(c) => CallOwed(c)', repeats \subseteq repeats'
  PROVE  Owing(c)'
<1> SUFFICES ASSUME c \notin lost' PROVE (RoomsOwed(c) /\ TokensOwed(c))'
  BY DEF Owing
<1>1. RoomsOwed(c) /\ TokensOwed(c)
  BY DEF Owing
<1>2. \A r \in repeats : Ends(r.kind, c) => Ends(r.kind, c)'
  BY DEF Typed, CallsTyped, RepeatRow
<1>3. RoomOwed(c) => RoomOwed(c)'
  BY <1>2 DEF RoomOwed
<1>4. \A j \in Joins : TokenOwed(j, c) => TokenOwed(j, c)'
  BY <1>2 DEF TokenOwed
<1>5. \A j \in Joins : Passed(j, c)' => Passed(j, c)
  BY DEF Passed
<1> QED
  BY <1>1, <1>3, <1>4, <1>5 DEF RoomsOwed, TokensOwed

\* Rights that stand leave what a call does to them as it is.
LEMMA EndsSame ==
  ASSUME NEW c \in Channels, UNCHANGED rights
  PROVE  /\ There' = There /\ InUse(c)' = InUse(c) /\ IsMember(c)' = IsMember(c)
         /\ Allowed(c)' = Allowed(c) /\ \A k : Ends(k, c)' = Ends(k, c)
BY DEF rights, There, InUse, IsMember, Allowed, Ends

\* Another change's calls to a room that is there, or was not, stay owed.
LEMMA OthersCalls ==
  ASSUME Typed, NEW c \in Channels, NEW w \in Works,
         \A v \in Works : v # w => work'[v] = work[v],
         c \in There => c \in There', \A k \in {"remove", "close"} : Ends(k, c) => Ends(k, c)'
  PROVE  \A v \in Works :
            v # w /\ work[v].phase # "deleting" /\ c \in ToCall(v) /\ Ends(work[v].kind, c)
                => CallOwed(c)'
<1> SUFFICES ASSUME NEW v \in Works, v # w, work[v].phase # "deleting", c \in ToCall(v),
                    Ends(work[v].kind, c)
             PROVE  CallOwed(c)'
  OBVIOUS
<1>1. work'[v] = work[v]
  OBVIOUS
<1>2. work[v].kind \in {"remove", "close"}
  <2>1. work[v] # NoWork
    BY DEF ToCall, NoWork
  <2> QED
    BY <2>1 DEF Typed, CallsTyped, Work
<1>3. c \in ToCall(v)'
  BY <1>1 DEF ToCall
<1>4. Ends(work[v].kind, c)'
  BY <1>1, <1>2
<1> QED
  BY <1>1, <1>3, <1>4 DEF CallOwed

LEMMA JoiningOwed ==
  ASSUME OwedInv, Joining \/ \E c \in Channels : HangUp(c), NEW c \in Channels
  PROVE  Owing(c)' /\ Unmade(c)'
<1>0. Typed /\ Owing(c) /\ Unmade(c) /\ UNCHANGED <<rights, calls>>
  BY DEF OwedInv, Joining, AskMember, AskVoice, Mint, Expire, Enter, HangUp
<1>1. /\ InUse(c)' = InUse(c) /\ IsMember(c)' = IsMember(c) /\ Allowed(c)' = Allowed(c)
      /\ RoomOwed(c)' = RoomOwed(c) /\ \A j \in Joins : TokenOwed(j, c)' = TokenOwed(j, c)
  BY <1>0 DEF rights, calls, There, InUse, IsMember, Allowed, Ends, ToCall, CallOwed, RoomOwed, TokenOwed
<1>2. lost' = lost /\ channel' = channel
  BY <1>0 DEF calls, rights
<1>3. CASE \E d \in Channels : HangUp(d)
  <2>1. inRoom' \subseteq inRoom /\ join' = join
    BY <1>3 DEF HangUp
  <2> QED
    BY <1>0, <1>1, <1>2, <2>1 DEF Owing, RoomsOwed, TokensOwed, Passed, Unmade
<1>4. CASE \E j \in Joins : Enter(j)
  <2> PICK j \in Joins : Enter(j)
    BY <1>4
  <2>1. join' = join /\ join[j].phase = "minted" /\ inRoom' = inRoom \cup join[j].channel
    BY DEF Enter
  <2>2. Passed(j, c) /\ TokenOwed(j, c) => RoomOwed(c)
    BY DEF TokenOwed, RoomOwed
  <2>3. Owing(c)'
    BY <1>0, <1>1, <1>2, <2>1, <2>2 DEF Owing, RoomsOwed, TokensOwed, Passed
  <2> QED
    BY <1>0, <1>2, <2>1, <2>3 DEF Unmade
<1>5. CASE \E j \in Joins : (\E d \in Channels : AskMember(j, d)) \/ AskVoice(j) \/ Mint(j) \/ Expire(j)
  <2> PICK j \in Joins : (\E d \in Channels : AskMember(j, d)) \/ AskVoice(j) \/ Mint(j) \/ Expire(j)
    BY <1>5
  <2>1. inRoom' = inRoom /\ \A i \in Joins : i # j => join'[i] = join[i]
    BY <1>0 DEF AskMember, AskVoice, Mint, Expire, Typed, LiveKitTyped
  <2>2. (Passed(j, c)' => Passed(j, c))
        /\ (c \in join'[j].channel /\ join'[j].phase \in {"member", "checked", "minted"} =>
                channel[c] # "none")
    <3>1. CASE \E d \in Channels : AskMember(j, d)
      <4> PICK d \in Channels : AskMember(j, d)
        BY <3>1
      <4>1. join'[j] = [phase |-> "member", channel |-> {d}] /\ IsMember(d)
        BY <1>0 DEF AskMember, Typed, LiveKitTyped
      <4> QED
        BY <1>1, <4>1 DEF Passed, IsMember
    <3>2. CASE AskVoice(j)
      <4>1. join[j].phase = "member" /\ join'[j].channel = join[j].channel
            /\ join'[j].phase = IF \A d \in join[j].channel : InUse(d) THEN "checked" ELSE "over"
        BY <1>0, <3>2 DEF AskVoice, Typed, LiveKitTyped, JoinRow
      <4> QED
        BY <1>0, <1>1, <4>1 DEF Passed, Allowed, Unmade
    <3>3. CASE Mint(j) \/ Expire(j)
      <4>1. join'[j].channel = join[j].channel
            /\ \/ join[j].phase = "checked" /\ join'[j].phase = "minted"
               \/ join'[j].phase = "over"
        BY <1>0, <3>3 DEF Mint, Expire, Typed, LiveKitTyped, JoinRow
      <4> QED
        BY <1>0, <1>1, <4>1 DEF Passed, Unmade
    <3> QED
      BY <3>1, <3>2, <3>3
  <2>3. \A i \in Joins : Passed(i, c)' => Passed(i, c)
    BY <1>1, <2>1, <2>2 DEF Passed
  <2>4. Owing(c)'
    BY <1>0, <1>1, <1>2, <2>1, <2>3 DEF Owing, RoomsOwed, TokensOwed
  <2>5. Unmade(c)'
    BY <1>0, <1>2, <2>1, <2>2 DEF Unmade
  <2> QED
    BY <2>4, <2>5
<1> QED
  BY <1>3, <1>4, <1>5 DEF Joining

LEMMA GivingOwed ==
  ASSUME OwedInv, Giving, NEW c \in Channels
  PROVE  Owing(c)' /\ Unmade(c)'
<1>0. Typed /\ Owing(c) /\ Unmade(c) /\ UNCHANGED <<livekit, calls>>
  BY DEF OwedInv, Giving, Rejoin, TurnOn, AddToChannel, CreateChannel, Gives
<1>1. /\ channel'[c] = channel[c] \/ (channel[c] = "none" /\ channel'[c] = "there")
      /\ space.voice => space'.voice
      /\ space.member => space'.member
      /\ people \subseteq people'
  BY <1>0 DEF Giving, Rejoin, TurnOn, AddToChannel, CreateChannel, Typed, RightsTyped, Spaces
<1>2. CASE channel'[c] # channel[c]
  <2>1. channel[c] = "none" /\ channel'[c] = "there"
    BY <1>1, <1>2
  <2>2. c \notin inRoom' /\ \A j \in Joins : join'[j].phase \in {"member", "checked", "minted"} => c \notin join'[j].channel
    BY <1>0, <2>1 DEF livekit, Unmade
  <2> QED
    BY <2>1, <2>2 DEF Owing, RoomsOwed, TokensOwed, Passed, Unmade
<1>3. CASE channel'[c] = channel[c]
  <2>1. /\ IsMember(c) => IsMember(c)'
        /\ Allowed(c) => Allowed(c)'
        /\ \A k \in {"remove", "close"} : Ends(k, c) => Ends(k, c)'
        /\ c \in There => c \in There'
    BY <1>1, <1>3 DEF IsMember, InUse, Allowed, Ends, There
  <2>2. CallOwed(c) => CallOwed(c)'
    <3> SUFFICES ASSUME NEW w \in Works, work[w].phase # "deleting", c \in ToCall(w),
                        Ends(work[w].kind, c)
                 PROVE  CallOwed(c)'
      BY DEF CallOwed
    <3>1. work[w].kind \in {"remove", "close"}
      <4>1. work[w] # NoWork
        BY DEF ToCall, NoWork
      <4> QED
        BY <1>0, <4>1 DEF Typed, CallsTyped, Work
    <3>2. work' = work
      BY <1>0 DEF calls
    <3>3. c \in ToCall(w)' /\ Ends(work[w].kind, c)'
      BY <2>1, <3>1, <3>2 DEF ToCall
    <3> QED
      BY <3>2, <3>3 DEF CallOwed
  <2>3. Owing(c)'
    BY <1>0, <2>1, <2>2, Kept DEF livekit, calls
  <2> QED
    BY <1>0, <1>3, <2>3 DEF Unmade, livekit
<1> QED
  BY <1>2, <1>3

\* A change that begins with calls to this room, of a kind that ends the
\* right to be in it.
LEMMA Begun ==
  ASSUME Typed, NEW c \in Channels, NEW w \in Works, NEW p \in {"listing", "calling"},
         NEW k \in {"remove", "close"}, NEW R \in SUBSET Channels, Begin(w, k, p, R),
         IF p = "listing" THEN c \in There' ELSE c \in R, Ends(k, c)'
  PROVE  CallOwed(c)'
<1>1. work'[w] = [phase |-> p, kind |-> k, rooms |-> R]
  BY DEF Begin, Typed, CallsTyped
<1>2. c \in ToCall(w)'
  BY <1>1 DEF ToCall
<1> QED
  BY <1>1, <1>2 DEF CallOwed

\* A change that begins leaves the calls others owe.
LEMMA BegunKeeps ==
  ASSUME Typed, NEW c \in Channels, NEW w \in Works, NEW p, NEW k, NEW R, Begin(w, k, p, R),
         c \in There => c \in There', \A l \in {"remove", "close"} : Ends(l, c) => Ends(l, c)'
  PROVE  CallOwed(c) => CallOwed(c)'
<1>1. work[w] = NoWork /\ \A v \in Works : v # w => work'[v] = work[v]
  BY DEF Begin, Typed, CallsTyped
<1>2. ToCall(w) = {}
  BY <1>1 DEF ToCall, NoWork
<1> QED
  BY <1>1, <1>2, OthersCalls DEF CallOwed

LEMMA EndingOwed ==
  ASSUME OwedInv, Ending, NEW c \in Channels
  PROVE  Owing(c)' /\ Unmade(c)'
<1>0. Typed /\ Owing(c) /\ Unmade(c) /\ UNCHANGED livekit /\ lost \subseteq lost' /\ repeats' = repeats
  BY DEF OwedInv, Ending, RemoveFromSpace, TurnOff, StartDelete, DeleteSpace, RemoveFromChannel,
         DeleteChannel, Begin
<1>1. join' = join /\ inRoom' = inRoom
  BY <1>0 DEF livekit
<1>2. Unmade(c)'
  <2>1. channel'[c] = "none" => channel[c] = "none"
    BY <1>0 DEF Ending, RemoveFromSpace, TurnOff, StartDelete, DeleteSpace, RemoveFromChannel,
         DeleteChannel, rights, Typed, RightsTyped
  <2> QED
    BY <1>0, <1>1, <2>1 DEF Unmade
<1> SUFFICES Owing(c)'
  BY <1>2
<1> PICK w \in Works : \/ RemoveFromSpace(w) \/ TurnOff(w) \/ StartDelete(w) \/ DeleteSpace(w)
                       \/ \E d \in Channels : RemoveFromChannel(w, d) \/ DeleteChannel(w, d)
  BY DEF Ending
\* Rights to this room that the change leaves as they are.
<1>3. ASSUME CallOwed(c) => CallOwed(c)', Allowed(c) => Allowed(c)', IsMember(c) => IsMember(c)',
             channel'[c] = "there" => channel[c] = "there"
      PROVE  Owing(c)'
  <2>1. \A k \in {"remove", "close"} : Ends(k, c) => Ends(k, c)'
    BY <1>3 DEF Ends
  <2> QED
    BY <1>0, <1>1, <1>3, <2>1, Kept
<1>4. CASE RemoveFromSpace(w)
  <2>1. Begin(w, "remove", "listing", {}) /\ channel' = channel /\ There' = There
    BY <1>4 DEF RemoveFromSpace, There
  <2>2. CASE c \in There
    BY <1>0, <2>1, <2>2, Begun, Hit DEF Ends
  <2>3. CASE c \notin There
    <3>1. ~Allowed(c) /\ ~IsMember(c) /\ ~Allowed(c)' /\ ~IsMember(c)'
      BY <2>1, <2>3 DEF There, Allowed, InUse, IsMember
    <3>2. \A k : Ends(k, c) => Ends(k, c)'
      BY <2>1, <3>1 DEF Ends
    <3>3. CallOwed(c) => CallOwed(c)'
      BY <1>0, <2>1, <3>2, BegunKeeps
    <3> QED
      BY <1>3, <2>1, <3>1, <3>3
  <2> QED
    BY <2>2, <2>3
<1>5. CASE TurnOff(w)
  <2>1. /\ Begin(w, "close", "listing", {}) /\ channel' = channel /\ people' = people /\ There' = There
        /\ space'.member = space.member /\ space'.voice = FALSE
    BY <1>0, <1>5 DEF TurnOff, There, Typed, RightsTyped, Spaces
  <2>2. IsMember(c)' = IsMember(c) /\ ~Allowed(c)'
    BY <2>1 DEF IsMember, Allowed, InUse
  <2>3. \A k : Ends(k, c)' = Ends(k, c)
    BY <2>1, <2>2 DEF Ends
  <2>4. CASE c \in There /\ IsMember(c)
    <3>1. Ends("close", c)' /\ c \in There'
      BY <2>1, <2>2, <2>4 DEF Ends
    <3>2. CallOwed(c)'
      BY <1>0, <2>1, <3>1, Begun
    <3> QED
      BY <3>2, Hit
  <2>5. CASE ~(c \in There /\ IsMember(c))
    <3>1. ~Allowed(c)
      BY <2>5 DEF There, Allowed, IsMember
    <3>2. CallOwed(c) => CallOwed(c)'
      BY <1>0, <2>1, <2>3, BegunKeeps
    <3> QED
      BY <1>3, <2>1, <2>2, <3>1, <3>2
  <2> QED
    BY <2>4, <2>5
<1>6. CASE StartDelete(w)
  <2>1. PICK R : Begin(w, "close", "deleting", R) /\ UNCHANGED rights
    BY <1>6 DEF StartDelete
  <2>2. There' = There /\ Allowed(c)' = Allowed(c) /\ IsMember(c)' = IsMember(c)
        /\ channel' = channel /\ \A k : Ends(k, c)' = Ends(k, c)
    BY <2>1, EndsSame DEF rights
  <2>3. CallOwed(c) => CallOwed(c)'
    BY <1>0, <2>1, <2>2, BegunKeeps
  <2> QED
    BY <1>3, <2>2, <2>3
<1>7. CASE DeleteSpace(w)
  <2>1. /\ work[w].phase = "deleting" /\ work' = [work EXCEPT ![w].phase = "calling"]
        /\ channel'[c] = "deleted" /\ lost' = lost \cup (There \ work[w].rooms)
        /\ \A k : Ends(k, c)'
    BY <1>7 DEF DeleteSpace, Ends
  <2>2. /\ work'[w].phase = "calling" /\ work'[w].rooms = work[w].rooms
        /\ \A v \in Works : v # w => work'[v] = work[v]
    BY <1>0, <2>1 DEF Typed, CallsTyped, Work
  <2>3. CASE c \in There /\ c \in work[w].rooms
    <3>1. c \in ToCall(w)'
      BY <2>2, <2>3 DEF ToCall
    <3>2. CallOwed(c)'
      BY <2>1, <2>2, <3>1 DEF CallOwed
    <3> QED
      BY <3>2, Hit
  <2>4. CASE c \in There /\ c \notin work[w].rooms
    BY <2>1, <2>4 DEF Owing
  <2>5. CASE c \notin There
    <3>1. ~Allowed(c) /\ ~IsMember(c) /\ ~Allowed(c)' /\ ~IsMember(c)'
      BY <2>1, <2>5 DEF There, Allowed, InUse, IsMember
    <3>2. \A v \in Works : work[v].phase # "deleting" /\ c \in ToCall(v) =>
             v # w /\ work'[v] = work[v] /\ c \in ToCall(v)'
      BY <2>1, <2>2, <2>5 DEF ToCall
    <3>3. CallOwed(c) => CallOwed(c)'
      BY <2>1, <3>2 DEF CallOwed
    <3> QED
      BY <1>3, <2>1, <3>1, <3>3
  <2> QED
    BY <2>3, <2>4, <2>5
<1>8. CASE \E d \in Channels : RemoveFromChannel(w, d)
  <2> PICK d \in Channels : RemoveFromChannel(w, d)
    BY <1>8
  <2>1. Begin(w, "remove", "calling", {d}) /\ channel' = channel /\ space' = space
        /\ people' = people \ {d} /\ There' = There
    BY DEF RemoveFromChannel, There
  <2>2. CASE c = d
    BY <1>0, <2>1, <2>2, Begun, Hit DEF Ends
  <2>3. CASE c # d
    <3>1. Allowed(c)' = Allowed(c) /\ IsMember(c)' = IsMember(c)
      BY <2>1, <2>3 DEF Allowed, InUse, IsMember
    <3>2. \A k : Ends(k, c) => Ends(k, c)'
      BY <2>1, <3>1 DEF Ends
    <3>3. CallOwed(c) => CallOwed(c)'
      BY <1>0, <2>1, <3>2, BegunKeeps
    <3> QED
      BY <1>3, <2>1, <3>1, <3>3
  <2> QED
    BY <2>2, <2>3
<1>9. CASE \E d \in Channels : DeleteChannel(w, d)
  <2> PICK d \in Channels : DeleteChannel(w, d)
    BY <1>9
  <2>1. /\ Begin(w, "close", "calling", {d}) /\ space' = space
        /\ people' = people \ {d} /\ channel'[d] = "deleted" /\ (c # d => channel'[c] = channel[c])
    BY <1>0 DEF DeleteChannel, Typed, RightsTyped
  <2>2. CASE c = d
    BY <1>0, <2>1, <2>2, Begun, Hit DEF Ends
  <2>3. CASE c # d
    <3>1. Allowed(c)' = Allowed(c) /\ IsMember(c)' = IsMember(c) /\ (c \in There => c \in There')
      BY <2>1, <2>3 DEF Allowed, InUse, IsMember, There
    <3>2. \A k : Ends(k, c) => Ends(k, c)'
      BY <2>1, <2>3, <3>1 DEF Ends
    <3>3. CallOwed(c) => CallOwed(c)'
      BY <1>0, <2>1, <3>1, <3>2, BegunKeeps
    <3> QED
      BY <1>3, <2>1, <2>3, <3>1, <3>3
  <2> QED
    BY <2>2, <2>3
<1> QED
  BY <1>4, <1>5, <1>6, <1>7, <1>8, <1>9

LEMMA ListOwed ==
  ASSUME OwedInv, NEW w \in Works, ListRooms(w), NEW c \in Channels
  PROVE  Owing(c)' /\ Unmade(c)'
<1>0. /\ Typed /\ Owing(c) /\ Unmade(c) /\ UNCHANGED <<rights, livekit, repeats>>
      /\ work[w].phase = "listing"
  BY DEF OwedInv, ListRooms
<1>1. join' = join /\ inRoom' = inRoom /\ channel' = channel /\ lost \subseteq lost'
  BY <1>0 DEF ListRooms, livekit, rights
<1>2. There' = There /\ Allowed(c)' = Allowed(c) /\ IsMember(c)' = IsMember(c)
      /\ \A k : Ends(k, c)' = Ends(k, c)
  BY <1>0, EndsSame
<1>3. \A v \in Works : v # w => work'[v] = work[v]
  BY DEF ListRooms, OwedInv, Typed, CallsTyped
<1>6. Unmade(c)'
  BY <1>0, <1>1 DEF Unmade
<1> SUFFICES Owing(c)'
  BY <1>6
<1>4. CASE lost' = lost \cup There /\ c \in There
  BY <1>4 DEF Owing
<1>5. CASE c \notin There \/ work' = [work EXCEPT ![w].phase = "calling", ![w].rooms = There]
  <2>1. CallOwed(c) => CallOwed(c)'
    <3>1. c \in ToCall(w) => /\ work'[w].phase = "calling" /\ work'[w].kind = work[w].kind
                             /\ work'[w].rooms = There /\ c \in There
      BY <1>0, <1>5 DEF ToCall, Typed, CallsTyped, Work
    <3>2. c \in ToCall(w) /\ Ends(work[w].kind, c) => CallOwed(c)'
      BY <1>2, <3>1 DEF ToCall, CallOwed
    <3> QED
      BY <1>0, <1>2, <1>3, <3>2, OthersCalls DEF CallOwed
  <2> QED
    BY <1>0, <1>1, <1>2, <2>1, Kept
<1> QED
  BY <1>4, <1>5 DEF ListRooms

LEMMA CallRoomOwed ==
  ASSUME SlowJoins = {}, OwedInv, NEW w \in Works, NEW d \in Channels, CallRoom(w, d), NEW c \in Channels
  PROVE  Owing(c)' /\ Unmade(c)'
<1> DEFINE n == [kind |-> work[w].kind, room |-> d, after |-> Outstanding, phase |-> "waiting"]
<1>0. /\ Typed /\ Owing(c) /\ Unmade(c) /\ UNCHANGED <<rights, join, lost>>
      /\ work[w].phase = "calling" /\ d \in work[w].rooms
      /\ repeats' = repeats \cup {n}
  BY DEF OwedInv, CallRoom
<1>1. inRoom' \subseteq inRoom /\ channel' = channel /\ repeats \subseteq repeats'
  BY <1>0 DEF CallRoom, Reaches, rights
<1>2. There' = There /\ Allowed(c)' = Allowed(c) /\ IsMember(c)' = IsMember(c)
      /\ \A k : Ends(k, c)' = Ends(k, c)
  BY <1>0, EndsSame
<1>3. /\ \A v \in Works : v # w => work'[v] = work[v]
      /\ work'[w].phase = "calling" /\ work'[w].kind = work[w].kind /\ work'[w].rooms = work[w].rooms \ {d}
  BY <1>0 DEF CallRoom, Typed, CallsTyped, Work
<1>4. Unmade(c)'
  BY <1>0, <1>1 DEF Unmade
<1>5. CASE CallOwed(c) => CallOwed(c)'
  BY <1>0, <1>1, <1>2, <1>4, <1>5, Kept
<1>6. CASE CallOwed(c) /\ ~CallOwed(c)'
  <2>1. Ends(work[w].kind, c) /\ c \in work[w].rooms
    BY <1>0, <1>2, <1>3, <1>6, OthersCalls DEF CallOwed, ToCall
  <2>2. c = d
    <3>1. c # d => c \in ToCall(w)'
      BY <1>3, <2>1 DEF ToCall
    <3> QED
      BY <1>2, <1>3, <1>6, <2>1, <3>1 DEF CallOwed
  <2>3. PICK r \in repeats' : r = n
    BY <1>0
  <2>4. PICK k : k = work[w].kind
    OBVIOUS
  <2>5. r.room = c /\ r.kind = k /\ r.phase = "waiting" /\ r.after = Outstanding /\ Ends(k, c)'
    BY <1>2, <2>1, <2>2, <2>3, <2>4
  <2>6. RoomOwed(c)'
    BY <2>5 DEF RoomOwed
  <2>7. ASSUME NEW j \in Joins, Passed(j, c)' PROVE TokenOwed(j, c)'
    <3>1. j \in Outstanding
      BY <1>0, <2>7 DEF Passed, Outstanding
    <3> QED
      BY <2>5, <3>1 DEF TokenOwed
  <2> QED
    BY <1>4, <2>6, <2>7 DEF Owing, RoomsOwed, TokensOwed
<1> QED
  BY <1>5, <1>6

\* A repeat that would end a right people have lost is not left out.
LEMMA NotReopened ==
  ASSUME NEW r \in repeats, NEW c \in Channels, r.room = c, Ends(r.kind, c), ~Allowed(c)
  PROVE  ~Reopened(r)
BY DEF Reopened, Ends, InUse, Allowed

LEMMA AskOwed ==
  ASSUME OwedInv, NEW r \in repeats, Ask(r), NEW c \in Channels
  PROVE  Owing(c)' /\ Unmade(c)'
<1> DEFINE n == [r EXCEPT !.phase = "calling"]
<1>0. /\ Typed /\ Owing(c) /\ Unmade(c) /\ UNCHANGED <<rights, livekit, work, lost>>
      /\ r.phase = "waiting" /\ \A j \in r.after : join[j].phase = "over"
      /\ repeats \ {r} \subseteq repeats' /\ (~Reopened(r) => n \in repeats')
  BY DEF OwedInv, Ask
<1>1. join' = join /\ inRoom' = inRoom /\ channel' = channel
  BY <1>0 DEF livekit, rights
<1>2. There' = There /\ Allowed(c)' = Allowed(c) /\ IsMember(c)' = IsMember(c)
      /\ \A k : Ends(k, c)' = Ends(k, c)
  BY <1>0, EndsSame
<1>3. CallOwed(c)' = CallOwed(c)
  BY <1>0, <1>2 DEF CallOwed, ToCall
<1>4. n.room = r.room /\ n.kind = r.kind
  BY <1>0 DEF Typed, CallsTyped, RepeatRow
<1> HIDE DEF n
<1>5. ~Allowed(c) /\ RoomOwed(c) => RoomOwed(c)'
  <2>1. ASSUME ~Allowed(c), NEW x \in repeats, x.room = c, Ends(x.kind, c) PROVE RoomOwed(c)'
    <3>1. CASE x = r
      BY <1>0, <1>2, <1>4, <2>1, <3>1, NotReopened DEF RoomOwed
    <3>2. CASE x # r
      BY <1>0, <1>2, <2>1, <3>2 DEF RoomOwed
    <3> QED
      BY <3>1, <3>2
  <2> QED
    BY <1>3, <2>1 DEF RoomOwed
<1>6. ASSUME NEW j \in Joins, Passed(j, c), TokenOwed(j, c) PROVE TokenOwed(j, c)'
  <2>1. j \notin r.after
    BY <1>0, <1>6 DEF Passed
  <2> QED
    BY <1>0, <1>2, <1>3, <1>6, <2>1 DEF TokenOwed
<1>7. \A j \in Joins : Passed(j, c)' = Passed(j, c)
  BY <1>1, <1>2 DEF Passed
<1> QED
  BY <1>0, <1>1, <1>2, <1>5, <1>6, <1>7 DEF Owing, RoomsOwed, TokensOwed, Unmade

LEMMA RepeatOwed ==
  ASSUME OwedInv, NEW r \in repeats, Repeat(r), NEW c \in Channels
  PROVE  Owing(c)' /\ Unmade(c)'
<1>0. /\ Typed /\ Owing(c) /\ Unmade(c) /\ UNCHANGED <<rights, join, work>>
      /\ r.phase = "calling" /\ repeats' = repeats \ {r}
      /\ inRoom' \subseteq inRoom /\ lost \subseteq lost'
      /\ r.room \notin inRoom' \/ r.room \in lost'
  BY DEF OwedInv, Repeat, Reaches
<1>1. There' = There /\ Allowed(c)' = Allowed(c) /\ IsMember(c)' = IsMember(c)
      /\ channel' = channel /\ \A k : Ends(k, c)' = Ends(k, c)
  BY <1>0, EndsSame DEF rights
<1>2. CallOwed(c)' = CallOwed(c)
  BY <1>0, <1>1 DEF CallOwed, ToCall
<1>3. \A j \in Joins : TokenOwed(j, c) => TokenOwed(j, c)'
  BY <1>0, <1>1, <1>2 DEF TokenOwed
<1>4. r.room # c /\ RoomOwed(c) => RoomOwed(c)'
  BY <1>0, <1>1, <1>2 DEF RoomOwed
<1>5. \A j \in Joins : Passed(j, c)' = Passed(j, c)
  BY <1>0, <1>1 DEF Passed
<1> QED
  BY <1>0, <1>1, <1>3, <1>4, <1>5 DEF Owing, RoomsOwed, TokensOwed, Unmade

LEMMA RestartOwed ==
  ASSUME OwedInv, Restart, NEW c \in Channels
  PROVE  Owing(c)' /\ Unmade(c)'
<1>0. /\ Typed /\ Owing(c) /\ Unmade(c) /\ UNCHANGED <<rights, inRoom>>
      /\ lost' = lost \cup {r.room : r \in repeats} \cup UNION {ToCall(w) : w \in Works}
  BY DEF OwedInv, Restart
<1>1. Allowed(c)' = Allowed(c) /\ IsMember(c)' = IsMember(c) /\ channel' = channel
  BY <1>0, EndsSame DEF rights
<1>2. \A j \in Joins : \/ join'[j] = join[j] /\ join[j].phase \notin {"member", "checked"}
                       \/ join'[j].phase = "over"
  BY <1>0 DEF Restart, Typed, LiveKitTyped, JoinRow
<1>3. c \notin lost' => ~RoomOwed(c) /\ \A j \in Joins : ~TokenOwed(j, c)
  BY <1>0 DEF RoomOwed, TokenOwed, CallOwed
<1>4. \A j \in Joins : Passed(j, c)' => Passed(j, c)
  BY <1>1, <1>2 DEF Passed
<1>5. Owing(c)'
  BY <1>0, <1>1, <1>3, <1>4 DEF Owing, RoomsOwed, TokensOwed
<1>6. Unmade(c)'
  BY <1>0, <1>1, <1>2 DEF Unmade
<1> QED
  BY <1>5, <1>6

LEMMA OwedStep ==
  ASSUME SlowJoins = {}, OwedInv, [Next]_vars
  PROVE  OwedInv'
<1> SUFFICES ASSUME NEW c \in Channels PROVE Owing(c)' /\ Unmade(c)'
  BY NextTyped DEF OwedInv
<1>1. CASE Next
  BY <1>1, Kinds, JoiningOwed, GivingOwed, EndingOwed, ListOwed, CallRoomOwed, AskOwed, RepeatOwed,
     RestartOwed DEF Calling
<1>2. CASE UNCHANGED vars
  <2>1. Owing(c) /\ Unmade(c)
    BY DEF OwedInv
  <2> QED
    BY <1>2, <2>1
    DEF vars, Owing, Unmade, RoomsOwed, TokensOwed, RoomOwed, TokenOwed, CallOwed, Passed, Ends,
        Allowed, InUse, IsMember, ToCall, There
<1> QED
  BY <1>1, <1>2

LEMMA OwedIsEviction == OwedInv => EvictionIsOwed
<1> SUFFICES ASSUME OwedInv, NEW c \in Channels \ lost, ~Allowed(c),
                    c \in inRoom \/ \E j \in Joins : join[j].phase = "minted" /\ c \in join[j].channel
             PROVE  Owed(c)
  BY DEF EvictionIsOwed
<1>1. RoomsOwed(c) /\ TokensOwed(c)
  BY DEF OwedInv, Owing
<1>2. RoomOwed(c)
  BY <1>1 DEF RoomsOwed, TokensOwed, Passed, RoomOwed, TokenOwed
<1> QED
  BY <1>2, NotReopened DEF RoomOwed, CallOwed, Owed

\* If joins are answered within repeatMargin, whoever is in a call without
\* the right to be, or holds a token for one, has a call coming that ends
\* it, unless one was lost: however many people, channels and changes there
\* are (internal/voice/rooms.go do, repeatOnceTokensExpire).
THEOREM Evictions ==
  ASSUME SlowJoins = {}
  PROVE  Spec => []EvictionIsOwed
<1>1. OwedInv /\ [Next]_vars => OwedInv'
  BY OwedStep
<1> QED
  BY <1>1, OwedInit, OwedIsEviction, PTL DEF Spec
=============================================================================
