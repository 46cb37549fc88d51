---- MODULE MsgChannel ----
(***************************************************************************)
(* What an event of the kernel promises its users, be it a mailbox, a      *)
(* queue or a counting semaphore.  "served" is the call made last, with    *)
(* what it was given or returned, and says which step may be taken: a post *)
(* puts its item at its end, hands it to a task that asked, or is refused  *)
(* because there is no room; an item leaves only to the call that returns  *)
(* it; a task that was handed an item returns with that item.              *)
(***************************************************************************)
EXTENDS Naturals, Sequences

CONSTANTS Tasks, Events, Items, NoItem, NoEvent,
          Sizes,  \* how many items an event may have room for
          Loads   \* what an event may be created with or set to

VARIABLES chan,   \* the items that wait in an event, oldest first
          hand,   \* the item handed to a task that has not returned with it
          asks,   \* the event a task asked at without an answer, or NoEvent
          room,   \* the room of an event, 0 when there is none
          served  \* the last call: what, at which event or of which task,
                  \* the item or items it is about, and a bit each call turns

cvars == <<chan, hand, asks, room, served>>

Init ==
    /\ chan = [e \in Events |-> <<>>]
    /\ hand = [t \in Tasks |-> NoItem]
    /\ asks = [t \in Tasks |-> NoEvent]
    /\ room = [e \in Events |-> 0]
    /\ served = [op |-> "start", of |-> NoEvent, arg |-> <<>>, turn |-> FALSE]

\* The first conjunct follows from the second; it lets a checker pass over the
\* calls that a step is not at the cost of comparing two names.
Called(op, x, s) ==
    /\ served'.op = op
    /\ served' = [op |-> op, of |-> x, arg |-> s, turn |-> ~served.turn]

Askers(e) == {t \in Tasks : asks[t] = e}
Answered(S) == asks' = [t \in Tasks |-> IF t \in S THEN NoEvent ELSE asks[t]]

----
(* Posting. *)

Put(e) == \E m \in Items, op \in {"post", "all"} :
    /\ Called(op, e, <<m>>)
    /\ Askers(e) = {} /\ Len(chan[e]) < room[e]
    /\ chan' = [chan EXCEPT ![e] = Append(@, m)]
    /\ UNCHANGED <<hand, asks, room>>

PutFirst(e) == \E m \in Items :
    /\ Called("front", e, <<m>>)
    /\ Askers(e) = {} /\ Len(chan[e]) < room[e]
    /\ chan' = [chan EXCEPT ![e] = <<m>> \o @]
    /\ UNCHANGED <<hand, asks, room>>

(* The item of a post goes to one task that asks, that of a broadcast to    *)
(* every one; none goes past an older one that waits.                       *)
HandTo(e, S, m) ==
    /\ chan[e] = <<>>
    /\ hand' = [t \in Tasks |-> IF t \in S THEN m ELSE hand[t]]
    /\ Answered(S)
    /\ UNCHANGED <<chan, room>>

HandOver(e) == \E m \in Items, op \in {"post", "front"} :
    Called(op, e, <<m>>) /\ \E t \in Askers(e) : HandTo(e, {t}, m)

HandToAll(e) == \E m \in Items :
    Called("all", e, <<m>>) /\ Askers(e) # {} /\ HandTo(e, Askers(e), m)

Refuse(e) == \E m \in Items :
    /\ Called("full", e, <<m>>)
    /\ Askers(e) = {} /\ Len(chan[e]) >= room[e]
    /\ UNCHANGED <<chan, hand, asks, room>>

----
(* Asking. *)

TakeFirst(e) ==
    /\ chan[e] # <<>>
    /\ Called("got", e, <<Head(chan[e])>>)
    /\ chan' = [chan EXCEPT ![e] = Tail(@)]
    /\ UNCHANGED <<hand, asks, room>>

NoneLeft(e) ==
    /\ chan[e] = <<>>
    /\ Called("empty", e, <<>>)
    /\ UNCHANGED <<chan, hand, asks, room>>

Ask(e) == \E t \in Tasks :
    /\ Called("ask", e, <<t>>)
    /\ chan[e] = <<>> /\ asks[t] = NoEvent /\ hand[t] = NoItem
    /\ asks' = [asks EXCEPT ![t] = e]
    /\ UNCHANGED <<chan, hand, room>>

(* With the item it was handed, or with nothing: it was answered with       *)
(* nothing, or its time is over.                                            *)
Return(t) ==
    /\ Called("back", t, <<hand[t]>>)
    /\ hand' = [hand EXCEPT ![t] = NoItem]
    /\ asks' = [asks EXCEPT ![t] = NoEvent]
    /\ UNCHANGED <<chan, room>>

GiveUp(e) == \E t \in Askers(e) :
    Called("abort", e, <<>>) /\ Answered({t}) /\ UNCHANGED <<chan, hand, room>>

AllGiveUp(e) ==
    Called("abortall", e, <<>>) /\ Answered(Askers(e)) /\ UNCHANGED <<chan, hand, room>>

----
(* What the user does to an event or a task. *)

Make(e) == \E s \in Loads, k \in Sizes :
    /\ Called("make", e, s)
    /\ room[e] = 0 /\ Len(s) <= k
    /\ chan' = [chan EXCEPT ![e] = s]
    /\ room' = [room EXCEPT ![e] = k]
    /\ UNCHANGED <<hand, asks>>

Remove(e) ==
    /\ Called("remove", e, <<>>)
    /\ room[e] > 0
    /\ chan' = [chan EXCEPT ![e] = <<>>]
    /\ room' = [room EXCEPT ![e] = 0]
    /\ Answered(Askers(e))
    /\ UNCHANGED hand

Flush(e) ==
    /\ Called("flush", e, <<>>)
    /\ chan' = [chan EXCEPT ![e] = <<>>]
    /\ UNCHANGED <<hand, asks, room>>

Set(e) == \E s \in Loads :
    /\ Called("set", e, s)
    /\ chan[e] # <<>> \/ Askers(e) = {}
    /\ Len(s) <= room[e]
    /\ chan' = [chan EXCEPT ![e] = s]
    /\ UNCHANGED <<hand, asks, room>>

Kill(t) ==
    /\ Called("kill", t, <<>>)
    /\ hand' = [hand EXCEPT ![t] = NoItem]
    /\ asks' = [asks EXCEPT ![t] = NoEvent]
    /\ UNCHANGED <<chan, room>>

Next == \/ \E e \in Events :
             \/ Put(e) \/ PutFirst(e) \/ HandOver(e) \/ HandToAll(e) \/ Refuse(e)
             \/ TakeFirst(e) \/ NoneLeft(e) \/ Ask(e) \/ GiveUp(e) \/ AllGiveUp(e)
             \/ Make(e) \/ Remove(e) \/ Flush(e) \/ Set(e)
        \/ \E t \in Tasks : Return(t) \/ Kill(t)

Spec == Init /\ [][Next]_cvars
====
