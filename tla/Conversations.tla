----------------------------- MODULE Conversations -----------------------------
(***************************************************************************)
(* The conversational endpoint (app/conversations/service.py,              *)
(* repository.py, router.py) for one user, who talks over several          *)
(* channels: a message proposes an operation, which waits as a pending     *)
(* action until the user confirms it.                                      *)
(*                                                                         *)
(* A message is handled in one database transaction that reads pending     *)
(* actions without locking them and commits at the end; only the cash and  *)
(* transfer services commit their own unit of work before that, so that    *)
(* confirming one of their operations takes two transactions.  The rows a  *)
(* message updates are locked by its UPDATEs, in one step here: sessions   *)
(* that deadlock on them are aborted, which Fail has.  Pending actions and *)
(* their command ids are made by at most one per message, whose number     *)
(* names both.                                                             *)
(*                                                                         *)
(* The language model is external and may read a text in any way.          *)
(***************************************************************************)
EXTENDS Integers, Sequences, FiniteSets, Functions, RowLocks

CONSTANTS
    Intents,    \* operations the messages may ask for and the code executes
    Cash,       \* those of the cash and transfer services
    Goals,      \* those that create a goal, and are the only ones to pass no key
    Expense, Purchase,  \* an expense with a card named is a purchase with it
    Keep,       \* open actions left at the start of a message; 3 in the code
    Chats,      \* what the user may send: a text or a number, naming an action or not
    Turns,      \* bound: messages handled
    Horizon     \* bound: units of time, each the 15 minutes an action lives

Turn == 1 .. Turns

\* What a reply is classified as; a text that is neither may be a number.
Texts == {"confirm", "cancel", "other"}

ASSUME ConversationsAssumption ==
    /\ Cash \subseteq Intents /\ Goals \subseteq Intents \ Cash
    /\ Expense \in Intents /\ Purchase \in Intents \ Goals
    /\ \A m \in Chats : m.text \in Texts /\ m.number \in Nat /\ m.named \in BOOLEAN
    /\ \A m \in Chats : m.number > 0 => m.text = "other"
    /\ Keep \in Nat \ {0} /\ Turns \in Nat /\ Horizon \in Nat
    /\ Turn \subseteq Rows

Open == {"awaiting_clarification", "awaiting_confirmation"}

\* cmd is 0 where command_id is NULL.
Action ==
    [status : Open \cup {"executed", "cancelled", "expired"}, intent : Intents,
     cmd : 0 .. Turns, expires : Nat]

None == [status |-> "none"]

\* What a service recorded for an action, with the command id it was given;
\* gone is for a goal that was renamed or deleted since.
Operation == [cmd : 0 .. Turns, intent : Intents, gone : BOOLEAN]

VARIABLES
    now,        \* the time
    turn,       \* messages begun so far
    action,     \* the table pending_actions
    answered,   \* the messages that have an outbound message
    asked,      \* the questions: commands the user was asked to confirm, and for what
    made,       \* the operations recorded for each action, in order
    said,       \* what the answers claimed of an action
    pc, msg,    \* where each session is, with which message
    open,       \* the open actions it has read
    held,       \* the action it has read by id, and its row then
    marks       \* status changes it will commit

tables == <<action, answered, asked, made, said>>
sessionVars == <<lock, pc, msg, open, held, marks>>
vars == <<now, turn, tables, sessionVars>>

NoMessage == [no |-> 0]
NoHold == [id |-> 0, row |-> None]
NoMarks == [a \in {} |-> "none"]

Message ==
    [text : Texts, number : Nat, target : {0} \cup Turn, ext : Turn, no : Turn, at : Nat]

Marks == UNION {[as -> {"cancelled", "expired"}] : as \in SUBSET Turn}

ConversationTypeOK ==
    /\ LockTypeOK
    /\ now \in 0 .. Horizon /\ turn \in 0 .. Turns
    /\ action \in [Turn -> Action \cup {None}]
    /\ answered \subseteq Turn /\ asked \subseteq Turn \X Intents
    /\ made \in [Turn -> Seq(Operation)]
    /\ said \subseteq Turn \X {"done", "already", "unsaved"}
    /\ pc \in [Sessions -> {"idle", "new", "listed", "read", "held", "naming", "settle"}]
    /\ msg \in [Sessions -> Message \cup {NoMessage}]
    /\ open \in [Sessions -> SUBSET Turn]
    /\ held \in [Sessions -> [id : {0} \cup Turn, row : Action \cup {None}]]
    /\ marks \in [Sessions -> Marks]

Init ==
    /\ now = 0 /\ turn = 0
    /\ action = [a \in Turn |-> None]
    /\ answered = {} /\ asked = {} /\ said = {}
    /\ made = [a \in Turn |-> <<>>]
    /\ LockInit
    /\ pc = [s \in Sessions |-> "idle"]
    /\ msg = [s \in Sessions |-> NoMessage]
    /\ open = [s \in Sessions |-> {}]
    /\ held = [s \in Sessions |-> NoHold]
    /\ marks = [s \in Sessions |-> NoMarks]

-----------------------------------------------------------------------------
(* Sessions *)

Leave(s) ==
    /\ ReleaseAll(s)
    /\ pc' = [pc EXCEPT ![s] = "idle"]
    /\ msg' = [msg EXCEPT ![s] = NoMessage]
    /\ open' = [open EXCEPT ![s] = {}]
    /\ held' = [held EXCEPT ![s] = NoHold]
    /\ marks' = [marks EXCEPT ![s] = NoMarks]

\* The client replies to an action, or (0) to none; ext is the message's own
\* name. now() in a transaction is the time it began.
Received(s, m, target, ext) ==
    /\ pc[s] = "idle" /\ turn < Turns
    /\ turn' = turn + 1
    /\ msg' = [msg EXCEPT ![s] = [text |-> m.text, number |-> m.number, target |-> target,
                                  ext |-> ext, no |-> turn + 1, at |-> now]]
    /\ pc' = [pc EXCEPT ![s] = "new"]
    /\ UNCHANGED <<now, tables, lock, open, held, marks>>

Begin(s) ==
    \E m \in Chats, target \in {0} \cup {a \in Turn : action[a] # None} :
        /\ m.named <=> target # 0
        /\ Received(s, m, target, turn + 1)

\* The channel delivers a message again while it is being handled.
Redeliver(s) ==
    \E t \in Sessions :
        /\ pc[t] # "idle"
        /\ Received(s, msg[t], msg[t].target, msg[t].ext)

\* The message has an answer, which is sent again.
Duplicate(s) ==
    /\ pc[s] = "new" /\ msg[s].ext \in answered
    /\ Leave(s)
    /\ UNCHANGED <<now, turn, tables>>

IsOpen(a) == action[a].status \in Open

Expired(s) == {a \in Turn : IsOpen(a) /\ action[a].expires <= msg[s].at}

Locked(s, rows) == [r \in Rows |-> IF r \in rows THEN s ELSE lock[r]]

\* Those of as that are not the last ones kept.  Ids follow the order of creation.
Surplus(as) == {a \in as : Cardinality({b \in as : b > a}) >= Keep}

\* Step 2: expire what is due and read what is open; one step, since what
\* commits in between is as if it had come before.
Read(s) ==
    LET live == {a \in Turn : IsOpen(a)} \ Expired(s) IN
    /\ pc[s] = "new" /\ msg[s].ext \notin answered
    /\ \A a \in Expired(s) : Available(s, a)
    /\ lock' = Locked(s, Expired(s))
    /\ marks' = [marks EXCEPT ![s] = [a \in Expired(s) |-> "expired"]]
    /\ open' = [open EXCEPT ![s] = live]
    /\ pc' = [pc EXCEPT ![s] = IF Surplus(live) = {} THEN "read" ELSE "listed"]
    /\ UNCHANGED <<now, turn, tables, msg, held>>

\* Step 3: cancel all but the last ones, whatever they have become since.
Trim(s) ==
    LET old == Surplus(open[s])
        both == DOMAIN marks[s] \cup old
    IN
    /\ pc[s] = "listed"
    /\ \A a \in old : Available(s, a)
    /\ lock' = Locked(s, old)
    /\ marks' = [marks EXCEPT ![s] =
                    [a \in both |-> IF a \in old THEN "cancelled" ELSE marks[s][a]]]
    /\ open' = [open EXCEPT ![s] = open[s] \ old]
    /\ pc' = [pc EXCEPT ![s] = "read"]
    /\ UNCHANGED <<now, turn, tables, msg, held>>

-----------------------------------------------------------------------------
(* Writing, answering and committing *)

\* The rows as become status; the table once s has written these changes
\* over those it has already made.
Becomes(as, status) == [a \in as |-> status]
Cancelling(as) == Becomes(as, "cancelled")

Written(s, ms, a) == IF a \in DOMAIN ms THEN ms[a] ELSE marks[s][a]

Marked(s, ms) ==
    [a \in Turn |->
        IF a \in DOMAIN ms \cup DOMAIN marks[s]
        THEN [action[a] EXCEPT !.status = Written(s, ms, a)] ELSE action[a]]

CanWrite(s, as) == \A a \in as : Available(s, a)

\* COMMIT, after the outbound message was saved, of the table tab.
Commit(s, tab) ==
    /\ action' = tab
    /\ answered' = answered \cup {msg[s].ext}
    /\ Leave(s)
    /\ UNCHANGED <<now, turn>>

\* The same of the status changes ms and nothing else.
Answer(s, ms) ==
    /\ CanWrite(s, DOMAIN ms)
    /\ Commit(s, Marked(s, ms))

Silent == UNCHANGED <<asked, made, said>>

\* cancel_open_pending_actions: of those open when it runs.
AllOpen == {a \in Turn : IsOpen(a)}

-----------------------------------------------------------------------------
(* Messages that name no action, or whose action is found *)

CancelsAll(s) == open[s] # {} /\ msg[s].text = "cancel"

\* Step 4.
CancelAll(s) ==
    /\ pc[s] = "read" /\ CancelsAll(s)
    /\ Answer(s, Cancelling(AllOpen \ DOMAIN marks[s]))
    /\ said' = said \cup ((AllOpen \ DOMAIN marks[s]) \X {"unsaved"})
    /\ UNCHANGED <<asked, made>>

Several(s) == Cardinality(open[s]) > 1

\* The open action that a number chooses of their list, oldest first.
Numbered(s) == {a \in open[s] : Cardinality({b \in open[s] : b <= a}) = msg[s].number}

Picks(s) == msg[s].target = 0 /\ Several(s) /\ Numbered(s) # {}

\* Step 5: the others are cancelled, whatever they have become.
Pick(s) ==
    /\ pc[s] = "read" /\ Picks(s)
    /\ Answer(s, Cancelling(open[s] \ Numbered(s)))
    /\ Silent

\* The action a reply is about; a single open one is the default.
Target(s) ==
    IF msg[s].target = 0 /\ \E a \in Turn : open[s] = {a} THEN CHOOSE a \in open[s] : TRUE
                                                       ELSE msg[s].target

\* Steps 6 and 7: the action is read by id, without a lock, and so is what
\* this message has done to it.
Hold(s) ==
    /\ pc[s] = "read" /\ ~CancelsAll(s) /\ ~Picks(s) /\ Target(s) # 0
    /\ held' = [held EXCEPT ![s] = [id |-> Target(s), row |-> Marked(s, NoMarks)[Target(s)]]]
    /\ pc' = [pc EXCEPT ![s] = "held"]
    /\ UNCHANGED <<now, turn, tables, lock, msg, open, marks>>

-----------------------------------------------------------------------------
(* Proposing an operation *)

\* The row of an action for intent i, complete or with questions left.
Proposed(s, i, complete, expires) ==
    [status |-> IF complete THEN "awaiting_confirmation" ELSE "awaiting_clarification",
     intent |-> i, cmd |-> IF complete THEN msg[s].no ELSE 0, expires |-> expires]

\* _process_write_intent, after the status changes ms, for a new action.
ProposeNew(s, i, complete, ms) ==
    /\ CanWrite(s, DOMAIN ms)
    /\ Commit(s, [Marked(s, ms) EXCEPT
                    ![msg[s].no] = Proposed(s, i, complete, msg[s].at + 1)])
    /\ asked' = IF complete THEN asked \cup {<<msg[s].no, i>>} ELSE asked
    /\ UNCHANGED <<made, said>>

\* The same when several actions are open: unless nothing is missing, they
\* are listed and kept.  An empty list of open actions is as good as none.
Replace(s, i, complete) ==
    \/ open[s] = {} /\ ProposeNew(s, i, complete, NoMarks)
    \/ open[s] # {} /\ complete /\ ProposeNew(s, i, TRUE, Cancelling(AllOpen \ DOMAIN marks[s]))
    \/ open[s] # {} /\ ~complete /\ Answer(s, NoMarks) /\ Silent

\* The same for the action it clarifies, which keeps its time of expiry.
ProposeAgain(s, i, complete) ==
    LET a == held[s].id IN
    /\ CanWrite(s, {a})
    /\ Commit(s, [Marked(s, NoMarks) EXCEPT
                    ![a] = Proposed(s, i, complete, action[a].expires)])
    /\ asked' = IF complete THEN asked \cup {<<msg[s].no, i>>} ELSE asked
    /\ UNCHANGED <<made, said>>

\* Intent promotion: what is proposed when the language model reads i.
Promoted(i) == IF i = Expense THEN {Expense, Purchase} ELSE {i}

\* Step 8: what the language model reads in a new message.
Understand(s) ==
    /\ pc[s] = "read" /\ ~CancelsAll(s) /\ ~Picks(s) /\ Target(s) = 0
    /\ \/ Answer(s, NoMarks) /\ Silent      \* a question, or nothing it understands
       \/ \E i \in Intents, complete \in BOOLEAN :
            IF Several(s) THEN Replace(s, i, complete)
                          ELSE ProposeNew(s, i, complete, NoMarks)

-----------------------------------------------------------------------------
(* Replies to a pending action *)

Holding(s, status) == pc[s] = "held" /\ held[s].row.status = status

\* Executed, cancelled and expired actions stay what they are.
Closed(s) ==
    /\ pc[s] = "held" /\ held[s].row.status \notin Open
    /\ Answer(s, NoMarks)
    /\ said' = IF held[s].row.status = "executed" THEN said \cup {<<held[s].id, "already">>} ELSE said
    /\ UNCHANGED <<asked, made>>

\* "Accion cancelada sin guardar", whatever the action has become.
CancelOne(s) ==
    /\ pc[s] = "held" /\ held[s].row.status \in Open /\ msg[s].text = "cancel"
    /\ Answer(s, Cancelling({held[s].id}))
    /\ said' = said \cup {<<held[s].id, "unsaved">>}
    /\ UNCHANGED <<asked, made>>

\* The language model reads the reply to a question.
Clarify(s) ==
    /\ Holding(s, "awaiting_clarification") /\ msg[s].text # "cancel"
    /\ \/ \E i \in Promoted(held[s].row.intent), complete \in BOOLEAN : ProposeAgain(s, i, complete)
       \/ \E read \in Intents \ {held[s].row.intent}, complete \in BOOLEAN :
            \E i \in Promoted(read) :
               IF Cardinality(open[s]) = 1 THEN ProposeNew(s, i, complete, Cancelling({held[s].id}))
                                           ELSE Replace(s, i, complete)

NotUnderstood(s) ==
    /\ Holding(s, "awaiting_confirmation") /\ msg[s].text \notin {"cancel", "confirm"}
    /\ Answer(s, NoMarks)
    /\ Silent

-----------------------------------------------------------------------------
(* Confirming *)

Confirms(s) ==
    /\ Holding(s, "awaiting_confirmation") /\ msg[s].text = "confirm"
    /\ CanWrite(s, {held[s].id})

\* The operation the held action asks for.
Asked(s) == [cmd |-> held[s].row.cmd, intent |-> held[s].row.intent, gone |-> FALSE]

RanAnyway(s) == made' = [made EXCEPT ![held[s].id] = Append(@, Asked(s))]   \* a mutant

\* The services record an operation once per command id; the cash services
\* take none, too, and record the operation every time then.
Ran(s) ==
    LET k == held[s].row.cmd IN
    made' = [made EXCEPT ![held[s].id] =
                IF k # 0 /\ \E i \in DOMAIN @ : @[i].cmd = k THEN @ ELSE Append(@, Asked(s))]

\* The operation is recorded in the transaction of the message.  Its services
\* refuse an action without a command id: "None" is no UUID.
Execute(s) ==
    /\ Confirms(s) /\ held[s].row.intent \notin Cash \cup Goals /\ held[s].row.cmd # 0
    /\ Ran(s)
    /\ Answer(s, Becomes({held[s].id}, "executed"))
    /\ said' = said \cup {<<held[s].id, "done">>}
    /\ UNCHANGED asked

\* The goals of action a, made for command k, that have the name it asked for.
Standing(a, k) ==
    {i \in DOMAIN made[a] : made[a][i].intent \in Goals /\ made[a][i].cmd = k /\ ~made[a][i].gone}

CheckNameUnlocked(s) == \* a mutant: confirmation_message_id is not written first
    /\ Confirms(s) /\ held[s].row.intent \in Goals
    /\ Standing(held[s].id, held[s].row.cmd) = {}
    /\ pc' = [pc EXCEPT ![s] = "naming"]
    /\ UNCHANGED <<now, turn, tables, lock, msg, open, held, marks>>

\* create_goal is given no key: it looks for an active goal of the name, which
\* is refused (another goal of that name too, as Fail), while the message
\* holds the action's row, whose confirmation_message_id it has written.
CheckName(s) ==
    /\ Confirms(s) /\ held[s].row.intent \in Goals
    /\ Standing(held[s].id, held[s].row.cmd) = {}
    /\ lock' = Locked(s, {held[s].id})
    /\ pc' = [pc EXCEPT ![s] = "naming"]
    /\ UNCHANGED <<now, turn, tables, msg, open, held, marks>>

\* Then it inserts the goal, without another look.
CreateGoal(s) ==
    /\ pc[s] = "naming"
    /\ made' = [made EXCEPT ![held[s].id] = Append(@, Asked(s))]
    /\ Answer(s, Becomes({held[s].id}, "executed"))
    /\ said' = said \cup {<<held[s].id, "done">>}
    /\ UNCHANGED asked

\* The user renames a goal or deletes it.
RenameGoal ==
    /\ \E a \in Turn : \E i \in DOMAIN made[a] :
         /\ made[a][i].intent \in Goals /\ ~made[a][i].gone
         /\ made' = [made EXCEPT ![a][i].gone = TRUE]
    /\ UNCHANGED <<now, turn, action, answered, asked, said, sessionVars>>

ExecuteCashEarly(s) ==  \* a mutant: the action is executed before its operation
    /\ Confirms(s) /\ held[s].row.intent \in Cash
    /\ action' = Marked(s, Becomes({held[s].id}, "executed"))
    /\ ReleaseAll(s)
    /\ marks' = [marks EXCEPT ![s] = NoMarks]
    /\ pc' = [pc EXCEPT ![s] = "settle"]
    /\ UNCHANGED <<now, turn, made, answered, asked, said, msg, open, held>>

\* The cash and transfer services commit, with their operation, what the
\* message has written so far: the action is awaiting confirmation again.
ExecuteCash(s) ==
    /\ Confirms(s) /\ held[s].row.intent \in Cash
    /\ Ran(s)
    /\ action' = Marked(s, Becomes({held[s].id}, "awaiting_confirmation"))
    /\ ReleaseAll(s)
    /\ marks' = [marks EXCEPT ![s] = NoMarks]
    /\ pc' = [pc EXCEPT ![s] = "settle"]
    /\ UNCHANGED <<now, turn, answered, asked, said, msg, open, held>>

\* A second transaction has the action executed and answers.
Settle(s) ==
    /\ pc[s] = "settle"
    /\ Answer(s, Becomes({held[s].id}, "executed"))
    /\ said' = said \cup {<<held[s].id, "done">>}
    /\ UNCHANGED <<asked, made>>

-----------------------------------------------------------------------------
(* An exception (an operation refused or not implemented, an action that    *)
(* is not the user's, no language model), a crash, a lost connection: what  *)
(* is not committed is rolled back, and no answer is kept.                  *)
Fail(s) ==
    /\ pc[s] # "idle"
    /\ Leave(s)
    /\ UNCHANGED <<now, turn, tables>>

Tick ==
    /\ now < Horizon
    /\ now' = now + 1
    /\ UNCHANGED <<turn, tables, sessionVars>>

SessionStep(s) ==
    \/ Begin(s) \/ Redeliver(s) \/ Duplicate(s) \/ Read(s) \/ Trim(s)
    \/ CancelAll(s) \/ Pick(s) \/ Hold(s) \/ Understand(s)
    \/ Closed(s) \/ CancelOne(s) \/ Clarify(s) \/ NotUnderstood(s)
    \/ Execute(s) \/ CheckName(s) \/ CreateGoal(s) \/ ExecuteCash(s) \/ Settle(s) \/ Fail(s)

Next == (\E s \in Sessions : SessionStep(s)) \/ RenameGoal \/ Tick

Spec == Init /\ [][Next]_vars

=============================================================================
