----------------------------- MODULE VoiceRooms -----------------------------
(***************************************************************************)
(* Who may be in a voice call, and who is (internal/voice, and the parts   *)
(* of internal/chat that end a right to be in one).  LiveKit checks a      *)
(* token when somebody connects and never again, so a lost right has to be *)
(* told to it: after its commit each such change calls the rooms it        *)
(* concerns, and each call is made once more when the tokens it could not  *)
(* revoke have expired.                                                    *)
(*                                                                         *)
(* One person and one space.  LiveKit is external: it lets in whoever has  *)
(* a live token, making the room if need be, and a call either reaches it  *)
(* or fails.  Time is kept to one comparison: a repeat waits for the       *)
(* tokens minted before it was set, and repeatMargin for the joins that    *)
(* were being answered then, unless they are slower.                       *)
(***************************************************************************)
EXTENDS Integers, FiniteSets

CONSTANTS
    Channels,      \* voice channels the space has or may come to have
    Private,       \* the private ones
    Joins,         \* bound: JoinVoiceChannel calls, each with its token
    SlowJoins,     \* those whose answer takes longer than repeatMargin
    Works,         \* bound: changes that end a right, each with its calls
    MaxChanges,    \* bound: changes that give a right
    MaxFailures    \* bound: calls and lookups that fail, and restarts

ASSUME VoiceRoomsAssumption ==
    /\ Private \subseteq Channels /\ SlowJoins \subseteq Joins
    /\ {MaxChanges, MaxFailures} \subseteq Nat

VARIABLES
    space,     \* whether it is there, with voice on, with the person in it
    channel,   \* each voice channel: not made yet, there, or deleted
    people,    \* the private channels the person is one of
    join,      \* each JoinVoiceChannel, and the token it minted
    inRoom,    \* LiveKit: the rooms the person is in
    work,      \* each change's cleanup: what it still has to call
    repeats,   \* calls to be made once more
    lost,      \* history: rooms a call was never made for, or in vain
    left       \* what is left of the bounds

vars == <<space, channel, people, join, inRoom, work, repeats, lost, left>>
rights == <<space, channel, people>>
livekit == <<join, inRoom>>
calls == <<work, repeats, lost>>

NoWork == [phase |-> "none", kind |-> "none", rooms |-> {}]

Init ==
    /\ space = [there |-> TRUE, voice |-> TRUE, member |-> TRUE]
    /\ channel \in [Channels -> {"none", "there"}]
    /\ people \in SUBSET {c \in Private : channel[c] = "there"}
    /\ join = [j \in Joins |-> [phase |-> "none", channel |-> {}]]
    /\ inRoom = {}
    /\ work = [w \in Works |-> NoWork]
    /\ repeats = {} /\ lost = {}
    /\ left = [changes |-> MaxChanges, failures |-> MaxFailures]

Spend(b) == left[b] > 0 /\ left' = [left EXCEPT ![b] = @ - 1]

\* voiceChannelIDs: those that are there, with voice on or off.
There == {c \in Channels : channel[c] = "there"}

\* IsVoiceChannel
InUse(c) == channel[c] = "there" /\ space.voice

\* IsChannelMember
IsMember(c) == channel[c] = "there" /\ space.member /\ (c \in Private => c \in people)

Allowed(c) == InUse(c) /\ IsMember(c)

-----------------------------------------------------------------------------
(* JoinVoiceChannel, and LiveKit *)

\* Membership is checked first ...
AskMember(j, c) ==
    /\ join[j].phase = "none" /\ IsMember(c)
    /\ join' = [join EXCEPT ![j] = [phase |-> "member", channel |-> {c}]]
    /\ UNCHANGED <<rights, inRoom, calls, left>>

\* ... then the channel's kind, and whether voice is on.
AskVoice(j) ==
    /\ join[j].phase = "member"
    /\ join' = [join EXCEPT ![j].phase =
                   IF \A c \in join[j].channel : InUse(c) THEN "checked" ELSE "over"]
    /\ UNCHANGED <<rights, inRoom, calls, left>>

Mint(j) ==
    /\ join[j].phase = "checked"
    /\ join' = [join EXCEPT ![j].phase = "minted"]
    /\ UNCHANGED <<rights, inRoom, calls, left>>

\* TokenTTL passes.
Expire(j) ==
    /\ join[j].phase = "minted"
    /\ join' = [join EXCEPT ![j].phase = "over"]
    /\ UNCHANGED <<rights, inRoom, calls, left>>

\* LiveKit lets a live token in as often as it is shown.
Enter(j) ==
    /\ join[j].phase = "minted" /\ inRoom' = inRoom \cup join[j].channel
    /\ UNCHANGED <<rights, join, calls, left>>

HangUp(c) ==
    /\ c \in inRoom /\ inRoom' = inRoom \ {c}
    /\ UNCHANGED <<rights, join, calls, left>>

-----------------------------------------------------------------------------
(* What ends a right to be in a call *)

Begin(w, kind, phase, rooms) ==
    /\ work[w] = NoWork
    /\ work' = [work EXCEPT ![w] = [phase |-> phase, kind |-> kind, rooms |-> rooms]]
    /\ UNCHANGED <<livekit, repeats, lost>>

\* removeFromSpace, for KickMember, BanMember and LeaveSpace:
\* evictFromSpaceVoice lists the channels after the commit.
RemoveFromSpace(w) ==
    /\ space.member /\ space' = [space EXCEPT !.member = FALSE] /\ people' = {}
    /\ Begin(w, "remove", "listing", {})
    /\ UNCHANGED <<channel, left>>

\* removeFromChannel, of a private one.
RemoveFromChannel(w, c) ==
    /\ c \in people /\ people' = people \ {c}
    /\ Begin(w, "remove", "calling", {c})
    /\ UNCHANGED <<space, channel, left>>

DeleteChannel(w, c) ==
    /\ channel[c] = "there" /\ channel' = [channel EXCEPT ![c] = "deleted"]
    /\ people' = people \ {c}
    /\ Begin(w, "close", "calling", {c})
    /\ UNCHANGED <<space, left>>

\* UpdateSpace, turning voice off.
TurnOff(w) ==
    /\ space.there /\ space.voice /\ space' = [space EXCEPT !.voice = FALSE]
    /\ Begin(w, "close", "listing", {})
    /\ UNCHANGED <<channel, people, left>>

\* DeleteSpace lists the channels while their rows are there; a lookup that
\* fails lists none, and the space is deleted all the same ...
StartDelete(w) ==
    /\ space.there /\ UNCHANGED rights
    /\ \/ Begin(w, "close", "deleting", There) /\ UNCHANGED left
       \/ Begin(w, "close", "deleting", {}) /\ Spend("failures")

\* ... and then the rows go: a room on no list is never called.
DeleteSpace(w) ==
    /\ work[w].phase = "deleting" /\ work' = [work EXCEPT ![w].phase = "calling"]
    /\ space' = [space EXCEPT !.there = FALSE, !.member = FALSE]
    /\ channel' = [c \in Channels |-> "deleted"] /\ people' = {}
    /\ lost' = lost \cup (There \ work[w].rooms)
    /\ UNCHANGED <<livekit, repeats, left>>

-----------------------------------------------------------------------------
(* What gives one *)

Gives ==
    /\ space.there /\ Spend("changes")
    /\ UNCHANGED <<livekit, calls>>

Rejoin ==
    /\ ~space.member /\ space' = [space EXCEPT !.member = TRUE]
    /\ Gives /\ UNCHANGED <<channel, people>>

AddToChannel(c) ==
    /\ space.member /\ c \in (Private \cap There) \ people /\ people' = people \cup {c}
    /\ Gives /\ UNCHANGED <<space, channel>>

TurnOn ==
    /\ ~space.voice /\ space' = [space EXCEPT !.voice = TRUE]
    /\ Gives /\ UNCHANGED <<channel, people>>

CreateChannel(c) ==
    /\ space.voice /\ channel[c] = "none" /\ channel' = [channel EXCEPT ![c] = "there"]
    /\ Gives /\ UNCHANGED <<space, people>>

-----------------------------------------------------------------------------
(* Room calls *)

\* A lookup that fails leaves the rooms as they are.
ListRooms(w) ==
    /\ work[w].phase = "listing"
    /\ \/ /\ work' = [work EXCEPT ![w].phase = "calling", ![w].rooms = There]
          /\ UNCHANGED <<lost, left>>
       \/ /\ work' = [work EXCEPT ![w].phase = "calling"]
          /\ lost' = lost \cup There /\ Spend("failures")
    /\ UNCHANGED <<rights, livekit, repeats>>

\* Slip: a join not yet answered has no token to wait for.
Minted == {j \in Joins : join[j].phase = "minted"}

\* Tokens that repeatDelay outlasts: those handed out, and those about to be.
Outstanding == {j \in Joins : \/ join[j].phase = "minted"
                              \/ join[j].phase \in {"member", "checked"} /\ j \notin SlowJoins}

Reaches(c) == inRoom' = inRoom \ {c}

\* do: the call, and its repeat set whether or not it was answered.
CallRoom(w, c) ==
    /\ work[w].phase = "calling" /\ c \in work[w].rooms
    /\ work' = [work EXCEPT ![w].rooms = @ \ {c}]
    /\ repeats' = repeats \cup
          {[kind |-> work[w].kind, room |-> c, after |-> Outstanding, phase |-> "waiting"]}
    /\ \/ Reaches(c) /\ UNCHANGED left
       \/ UNCHANGED inRoom /\ Spend("failures")
    /\ UNCHANGED <<rights, join, lost>>

\* Slip: no call is repeated for a room in use.
StillUsed(r) == InUse(r.room)

\* A close is not repeated for a room in use again.
Reopened(r) == r.kind = "close" /\ InUse(r.room)

\* repeatOnceTokensExpire, the timer gone off; a lookup that fails says the
\* room is not in use.
Ask(r) ==
    /\ r \in repeats /\ r.phase = "waiting" /\ \A j \in r.after : join[j].phase = "over"
    /\ \/ /\ repeats' = (repeats \ {r}) \cup
                (IF Reopened(r) THEN {} ELSE {[r EXCEPT !.phase = "calling"]})
          /\ UNCHANGED left
       \/ /\ Reopened(r) /\ Spend("failures")
          /\ repeats' = (repeats \ {r}) \cup {[r EXCEPT !.phase = "calling"]}
    /\ UNCHANGED <<rights, livekit, work, lost>>

Repeat(r) ==
    /\ r \in repeats /\ r.phase = "calling" /\ repeats' = repeats \ {r}
    /\ \/ Reaches(r.room) /\ UNCHANGED <<lost, left>>
       \/ UNCHANGED inRoom /\ lost' = lost \cup {r.room} /\ Spend("failures")
    /\ UNCHANGED <<rights, join, work>>

\* The rooms a change has yet to call.
ToCall(w) == IF work[w].phase = "listing" THEN There ELSE work[w].rooms

\* Close abandons the repeats that wait; a crash, the calls under way too.
Restart ==
    /\ Spend("failures")
    /\ lost' = lost \cup {r.room : r \in repeats} \cup UNION {ToCall(w) : w \in Works}
    /\ repeats' = {}
    /\ work' = [w \in Works |-> IF work[w] = NoWork THEN NoWork
                                ELSE [work[w] EXCEPT !.phase = "calling", !.rooms = {}]]
    /\ join' = [j \in Joins |-> IF join[j].phase \in {"member", "checked"}
                                THEN [join[j] EXCEPT !.phase = "over"] ELSE join[j]]
    /\ UNCHANGED <<rights, inRoom>>

Next ==
    \/ \E j \in Joins : \/ \E c \in Channels : AskMember(j, c)
                        \/ AskVoice(j) \/ Mint(j) \/ Expire(j) \/ Enter(j)
    \/ \E c \in Channels : HangUp(c) \/ AddToChannel(c) \/ CreateChannel(c)
    \/ \E w \in Works : \/ RemoveFromSpace(w) \/ TurnOff(w) \/ StartDelete(w) \/ DeleteSpace(w)
                        \/ ListRooms(w)
                        \/ \E c \in Channels : \/ RemoveFromChannel(w, c) \/ DeleteChannel(w, c)
                                               \/ CallRoom(w, c)
    \/ \E r \in repeats : Ask(r) \/ Repeat(r)
    \/ Rejoin \/ TurnOn \/ Restart

Spec == Init /\ [][Next]_vars

\* Requests are answered, tokens expire, timers go off.
FairSpec ==
    /\ Spec
    /\ \A j \in Joins : WF_vars(AskVoice(j)) /\ WF_vars(Mint(j)) /\ WF_vars(Expire(j))
    /\ \A w \in Works : WF_vars(DeleteSpace(w)) /\ WF_vars(ListRooms(w))
                        /\ WF_vars(\E c \in Channels : CallRoom(w, c))
    /\ WF_vars(\E r \in repeats : Ask(r)) /\ WF_vars(\E r \in repeats : Repeat(r))

-----------------------------------------------------------------------------
(* Properties *)

\* Every piece of state has the shape the code gives it.
TypeOK ==
    /\ space \in [there : BOOLEAN, voice : BOOLEAN, member : BOOLEAN]
    /\ channel \in [Channels -> {"none", "there", "deleted"}]
    /\ people \subseteq Private
    /\ join \in [Joins -> [phase : {"none", "member", "checked", "minted", "over"},
                           channel : SUBSET Channels]]
    /\ inRoom \subseteq Channels /\ lost \subseteq Channels
    /\ work \in [Works -> [phase : {"none", "listing", "deleting", "calling"},
                           kind : {"none", "remove", "close"}, rooms : SUBSET Channels]]
    /\ \A r \in repeats : r \in [kind : {"remove", "close"}, room : Channels,
                                 after : SUBSET Joins, phase : {"waiting", "calling"}]
    /\ left \in [{"changes", "failures"} -> Nat]

Owed(c) ==
    \/ \E w \in Works : c \in ToCall(w) /\ work[w].phase # "deleting"
    \/ \E r \in repeats : r.room = c /\ ~Reopened(r)

\* Whoever is in a call they have no right to be in, or holds a token for
\* one, has a call coming that ends it, unless one was lost to a failure or
\* a stop: whichever check a join had passed when the right was taken away,
\* and whatever was given and taken since (voice.md: the repeat "is what
\* actually ends the right to be there"; rooms.go do).
EvictionIsOwed ==
    \A c \in Channels \ lost :
        ~Allowed(c) /\ (c \in inRoom \/ \E j \in Joins : join[j].phase = "minted" /\ c \in join[j].channel)
            => Owed(c)

\* And in the end they are out (rooms.go repeatOnceTokensExpire).
OutInTheEnd ==
    \A c \in Channels : (c \in inRoom /\ ~Allowed(c)) ~> (c \notin inRoom \/ c \in lost \/ Allowed(c))

\* voice.md: a close's repeat "does nothing when the space has turned voice
\* on again, so it cannot end the call people have since started".
NewCallStands ==
    [][\A r \in repeats \ repeats' :
          r.kind = "close" /\ r.phase = "calling" /\ Allowed(r.room) => inRoom' = inRoom]_vars
=============================================================================
