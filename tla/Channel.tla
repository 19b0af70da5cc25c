-------------------------------- MODULE Channel --------------------------------
(***************************************************************************)
(* What the connection's receive loop relies on when it reads from a       *)
(* Transport (src/transport/types.ts): the frames the peer sent arrive     *)
(* complete, once and in order, up to some point, and then the channel     *)
(* fails once and for all.  A frame that exceeds the limit never arrives,  *)
(* nor does what follows it, unless the channel is one that skips such     *)
(* frames.  And what its writers rely on: a message is confirmed at most   *)
(* once and only after it was written.                                     *)
(***************************************************************************)
EXTENDS Naturals, Sequences

VARIABLES
    sent,    \* number of frames the peer has sent
    tooLong, \* those that exceed the limit
    skips,   \* whether the channel goes on behind such a frame
    taken,   \* frames the receive loop has got
    ended,   \* the receive loop has been told that the channel failed
    handed, flushed,  \* messages of ours handed over, and written
    confirmed         \* those whose send() succeeded

inVars == <<sent, tooLong, skips, taken, ended>>
outVars == <<handed, flushed, confirmed>>

Init ==
    /\ sent = 0 /\ tooLong = {} /\ skips \in BOOLEAN
    /\ taken = <<>> /\ ended = FALSE
    /\ handed = 0 /\ flushed = 0 /\ confirmed = {}

Send ==
    /\ sent' = sent + 1
    /\ tooLong' \in {tooLong, tooLong \cup {sent'}}
    /\ UNCHANGED <<skips, taken, ended, outVars>>

LastTaken == IF taken = <<>> THEN 0 ELSE taken[Len(taken)]

Take ==
    /\ ~ended
    /\ \E f \in LastTaken + 1 .. sent :
         /\ f \notin tooLong
         /\ f = LastTaken + 1 \/ (skips /\ LastTaken + 1 .. f - 1 \subseteq tooLong)
         /\ taken' = Append(taken, f)
    /\ UNCHANGED <<sent, tooLong, skips, ended, outVars>>

Fail ==
    /\ ~ended /\ ended' = TRUE
    /\ UNCHANGED <<sent, tooLong, skips, taken, outVars>>

Hand ==
    /\ handed' = handed + 1 /\ flushed' \in {flushed, handed'}
    /\ UNCHANGED <<inVars, confirmed>>

Flush ==
    /\ flushed < handed /\ flushed' = flushed + 1
    /\ UNCHANGED <<inVars, handed, confirmed>>

Confirm ==
    /\ handed \notin confirmed /\ flushed = handed
    /\ confirmed' = confirmed \cup {handed}
    /\ UNCHANGED <<inVars, handed, flushed>>

Next == Send \/ Take \/ Fail \/ Hand \/ Flush \/ Confirm

Spec == Init /\ [][Next]_<<inVars, outVars>>
================================================================================
