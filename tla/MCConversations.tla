---------------------------- MODULE MCConversations ----------------------------
(***************************************************************************)
(* A small instance of Conversations for TLC.                              *)
(***************************************************************************)
EXTENDS ConversationProperties, TLC

MCRows == 1 .. Turns

Says(text, named) == [text |-> text, number |-> 0, named |-> named]

\* A web client names the action, a chat channel does not, or picks one.  A
\* confirmation that names none is one that names the only action open.
MCChats ==
    {Says("confirm", TRUE), Says("cancel", TRUE), Says("other", TRUE),
     Says("cancel", FALSE), Says("other", FALSE),
     [text |-> "other", number |-> 1, named |-> FALSE]}

\* Bounds: three sessions are busy only with the first three messages, sent to
\* propose something; once time has passed there are three messages or one
\* action; the last message comes only after an operation was recorded for an
\* action whose command a clarification took away, and which asks again.
Proposing(s) == msg'[s].text = "other" /\ msg'[s].number = 0 /\ msg'[s].ext = msg'[s].no

Cleared(a) ==
    made[a] # <<>> /\ action[a].status = "awaiting_confirmation" /\ action[a].cmd = 0

MCBounds ==
    /\ (\A s \in Sessions : pc'[s] # "idle") =>
         now' = 0 /\ turn' = 3 /\ \A s \in Sessions : Proposing(s)
    /\ now' > 0 => turn' <= 3 \/ Cardinality({a \in Turn : action'[a] # None}) = 1
    /\ turn' > turn /\ turn' = Turns => \E a \in Turn : Cleared(a)

MCSymmetry == Permutations(Sessions)

=============================================================================
