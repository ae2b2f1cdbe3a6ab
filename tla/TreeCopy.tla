-------------------------------- MODULE TreeCopy --------------------------------
(***************************************************************************)
(* What the path tree's server and a client's context promise together,    *)
(* without messages that are dropped, handlers and exceptions: the client  *)
(* has a copy of the tree as it was, gets the ones that follow in their    *)
(* order, and a change is due until it has been sent. A connection may     *)
(* lose what is under way, and when it is made again, the tree is due.     *)
(***************************************************************************)
EXTENDS Naturals, Sequences

CONSTANTS FirstTree, NoTree

VARIABLES
    now,    \* the tree as the client should have it
    due,    \* it has to be sent
    link,   \* "down", "greeting" (the client has not been answered) or "up"
    sent,   \* the trees under way
    copy    \* the client's tree

copyVars == <<now, due, link, sent, copy>>

Init == now = FirstTree /\ due = FALSE /\ link = "down" /\ sent = <<>> /\ copy = NoTree

\* The tree becomes any other.
Change == due' = TRUE /\ UNCHANGED <<link, sent, copy>>

Meet  == link = "down" /\ link' = "greeting" /\ UNCHANGED <<now, due, sent, copy>>
Greet == link = "greeting" /\ link' = "up" /\ due' = TRUE /\ UNCHANGED <<now, sent, copy>>

Send ==
    /\ due /\ due' = FALSE
    /\ sent' = IF link = "down" THEN sent ELSE Append(sent, now)
    /\ UNCHANGED <<now, link, copy>>

Take == sent # <<>> /\ copy' = Head(sent) /\ sent' = Tail(sent) /\ UNCHANGED <<now, due, link>>

\* The connection is lost, and what was sent last with it.
Part ==
    /\ link' = "down"
    /\ \E n \in 0..Len(sent) : sent' = SubSeq(sent, 1, n)
    /\ UNCHANGED copy

Lose    == Part /\ UNCHANGED <<now, due>>
Restart == Part /\ now' = FirstTree /\ due' = FALSE

Next == Change \/ Meet \/ Greet \/ Send \/ Take \/ Lose \/ Restart

Spec == Init /\ [][Next]_copyVars
=============================================================================
