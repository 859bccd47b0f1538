------------------------- MODULE ConversationProperties -------------------------
(***************************************************************************)
(* What Conversations must satisfy.                                        *)
(***************************************************************************)
EXTENDS Conversations

(***************************************************************************)
(* Each question leads to one operation that stands at most, however often *)
(* and on however many channels it is answered, and whatever crashed in    *)
(* between: a command id protects all but a new goal, which only its name  *)
(* protects, and only as long as it has it.  The first operation of an     *)
(* action is one that the user was asked about.  Later ones may not be: a  *)
(* cash operation confirmed while a clarification takes its command away   *)
(* leaves an action that can be confirmed without one, any number of times.*)
(***************************************************************************)
OncePerQuestion ==
    \A a \in Turn : \A i \in DOMAIN made[a] :
        /\ made[a][i].cmd # 0 => <<made[a][i].cmd, made[a][i].intent>> \in asked
        /\ made[a][i].cmd # 0 /\ ~made[a][i].gone =>
             \A j \in DOMAIN made[a] : made[a][j] = made[a][i] => j = i
        /\ made[a][1].cmd # 0

(***************************************************************************)
(* An action that is executed, or that an answer said was executed, has    *)
(* its operation recorded: neither is committed without it.                *)
(***************************************************************************)
AnswersAreTrue ==
    \A a \in Turn :
        action[a].status = "executed" \/ <<a, "done">> \in said \/ <<a, "already">> \in said
            => made[a] # <<>>

=============================================================================
