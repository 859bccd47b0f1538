-------------------------- MODULE Conversations_proofs --------------------------
(***************************************************************************)
(* Proofs about Conversations, for any intents, numbers of messages and    *)
(* channels, and whatever the language model reads in a message.           *)
(***************************************************************************)
EXTENDS ConversationProperties, TLAPS

Closing == {"executed", "cancelled", "expired"}

(***************************************************************************)
(* What a session has read of the table is still there: no action is ever  *)
(* deleted, whatever other messages make of it.                            *)
(***************************************************************************)
Known ==
    \A s \in Sessions :
        /\ pc[s] # "idle" => /\ msg[s] \in Message
                             /\ msg[s].target # 0 => action[msg[s].target] # None
        /\ \A a \in open[s] \cup DOMAIN marks[s] : action[a] # None
        /\ pc[s] \in {"held", "naming", "settle"} =>
             held[s].id \in Turn /\ held[s].row \in Action /\ action[held[s].id] # None

(***************************************************************************)
(* The command an action waits with is one that the user was asked about,  *)
(* for what the action does; an action that can be confirmed without one   *)
(* has an operation already.                                               *)
(***************************************************************************)
Waits(row) == row.status = "awaiting_confirmation" /\ row.cmd = 0

KeysAsked ==
    /\ \A a \in Turn : action[a] # None /\ action[a].cmd # 0 =>
                        <<action[a].cmd, action[a].intent>> \in asked
    /\ \A s \in Sessions : pc[s] \in {"held", "naming"} /\ held[s].row.cmd # 0 =>
                            <<held[s].row.cmd, held[s].row.intent>> \in asked
    /\ \A a \in Turn : Waits(action[a]) => made[a] # <<>>
    /\ \A s \in Sessions : pc[s] \in {"held", "naming"} /\ Waits(held[s].row) => made[held[s].id] # <<>>

(***************************************************************************)
(* Between the check of a goal's name and its insert nobody else records   *)
(* anything for its action, whose row is locked.                           *)
(***************************************************************************)
Naming ==
    \A s \in Sessions : pc[s] = "naming" =>
        /\ lock[held[s].id] = s
        /\ held[s].row.intent \in Goals /\ held[s].row.status = "awaiting_confirmation"
        /\ Standing(held[s].id, held[s].row.cmd) = {}

(***************************************************************************)
(* A session that settles, or that has read an executed action, comes      *)
(* after the operation.                                                    *)
(***************************************************************************)
Done ==
    \A s \in Sessions :
        pc[s] = "settle" \/ (pc[s] = "held" /\ held[s].row.status = "executed")
            => made[held[s].id] # <<>>

ConversationInv ==
    /\ ConversationTypeOK /\ Known /\ KeysAsked /\ Naming /\ Done
    /\ OncePerQuestion /\ AnswersAreTrue

-----------------------------------------------------------------------------
(* Rows and status changes *)

LEMMA NoneIsNoAction == None \notin Action /\ None.status = "none" /\ "none" \notin Open
  BY DEF None, Action, Open

\* Status changes of known actions keep what else is in the rows, and add to
\* those the message has made, which execute nothing.
LEMMA MarkedRows ==
    ASSUME ConversationTypeOK, Known, NEW s \in Sessions, NEW ms,
           \A a \in DOMAIN ms : a \in Turn => action[a] # None /\ ms[a] \in Open \cup Closing
    PROVE  /\ Marked(s, ms) \in [Turn -> Action \cup {None}]
           /\ \A a \in Turn :
                /\ action[a] = None <=> Marked(s, ms)[a] = None
                /\ action[a] # None => /\ Marked(s, ms)[a].cmd = action[a].cmd
                                       /\ Marked(s, ms)[a].intent = action[a].intent
                /\ \A status \in {"executed", "awaiting_confirmation"} :
                     Marked(s, ms)[a].status = status =>
                       \/ action[a].status = status
                       \/ a \in DOMAIN ms /\ ms[a] = status
<1>1. marks[s] \in Marks /\ \A a \in DOMAIN marks[s] : action[a] # None
  BY DEF ConversationTypeOK, Known
<1>2. \A a \in DOMAIN marks[s] : marks[s][a] \in {"cancelled", "expired"}
  BY <1>1 DEF Marks
<1> DEFINE Row(a) == [action[a] EXCEPT !.status = Written(s, ms, a)]
<1>3. ASSUME NEW a \in Turn, a \in DOMAIN ms \cup DOMAIN marks[s]
      PROVE  /\ action[a] \in Action /\ Row(a) \in Action
             /\ Row(a).cmd = action[a].cmd /\ Row(a).intent = action[a].intent
             /\ \A status \in {"executed", "awaiting_confirmation"} :
                  Row(a).status = status => a \in DOMAIN ms /\ ms[a] = status
  <2>1. action[a] \in Action
    BY <1>1, <1>3 DEF ConversationTypeOK
  <2>2. /\ Written(s, ms, a) \in Open \cup Closing
        /\ \A status \in {"executed", "awaiting_confirmation"} :
             Written(s, ms, a) = status => a \in DOMAIN ms /\ ms[a] = status
    BY <1>2, <1>3 DEF Written, Closing
  <2> QED
    BY <2>1, <2>2 DEF Action, Closing
<1>4. \A a \in Turn : Marked(s, ms)[a] =
        IF a \in DOMAIN ms \cup DOMAIN marks[s] THEN Row(a) ELSE action[a]
  BY DEF Marked
<1>5. Marked(s, ms) \in [Turn -> Action \cup {None}]
  BY <1>3, <1>4 DEF Marked, ConversationTypeOK
<1> HIDE DEF Row
<1> QED
  BY <1>3, <1>4, <1>5, NoneIsNoAction

-----------------------------------------------------------------------------
(* Type correctness *)

LEMMA ConversationTypeInit == Init => ConversationTypeOK
<1> SUFFICES ASSUME Init
             PROVE  ConversationTypeOK
  OBVIOUS
<1>1. NoMarks \in Marks
  BY DEF NoMarks, Marks
<1>2. NoHold \in [id : {0} \cup Turn, row : Action \cup {None}]
  BY DEF NoHold
<1> QED
  BY <1>1, <1>2, ConversationsAssumption
  DEF Init, ConversationTypeOK, LockInit, LockTypeOK

\* The end of a message keeps the sessions well typed and the others as they are.
LEMMA LeaveSession ==
    ASSUME ConversationTypeOK, NEW s \in Sessions, Leave(s)
    PROVE  /\ LockTypeOK'
           /\ pc' \in [Sessions -> {"idle", "new", "listed", "read", "held", "naming", "settle"}]
           /\ msg' \in [Sessions -> Message \cup {NoMessage}]
           /\ open' \in [Sessions -> SUBSET Turn]
           /\ held' \in [Sessions -> [id : {0} \cup Turn, row : Action \cup {None}]]
           /\ marks' \in [Sessions -> Marks]
           /\ pc'[s] = "idle" /\ open'[s] = {} /\ marks'[s] = NoMarks
           /\ \A t \in Sessions \ {s} :
                /\ pc'[t] = pc[t] /\ msg'[t] = msg[t] /\ open'[t] = open[t]
                /\ held'[t] = held[t] /\ marks'[t] = marks[t]
                /\ \A row \in Rows : lock[row] = t => lock'[row] = t
<1>1. NoMarks \in Marks
  BY DEF NoMarks, Marks
<1>2. NoHold \in [id : {0} \cup Turn, row : Action \cup {None}]
  BY DEF NoHold
<1> QED
  BY <1>1, <1>2 DEF ConversationTypeOK, Leave, ReleaseAll, LockTypeOK

-----------------------------------------------------------------------------
(* What every step keeps *)

\* A table that keeps the actions there are, with keys the user was asked
\* about, and executes, or lets be confirmed without one, those that were so
\* already, and those of done.
Keeps(tab, keys, done) ==
    /\ tab \in [Turn -> Action \cup {None}]
    /\ \A a \in Turn : action[a] # None => tab[a] # None
    /\ \A a \in Turn : tab[a] # None /\ tab[a].cmd # 0 => <<tab[a].cmd, tab[a].intent>> \in keys
    /\ \A a \in Turn : tab[a].status = "executed" => action[a].status = "executed" \/ a \in done
    /\ \A a \in Turn : Waits(tab[a]) => made[a] # <<>> \/ a \in done

\* Operations that are recorded stay so.
MadeGrows == \A a \in Turn : made[a] # <<>> => made'[a] # <<>>

LEMMA MarkedKeeps ==
    ASSUME ConversationTypeOK, Known, KeysAsked, NEW s \in Sessions, NEW ms, NEW done,
           \A a \in DOMAIN ms : a \in Turn => action[a] # None /\ ms[a] \in Open \cup Closing,
           \A a \in DOMAIN ms : ms[a] \in {"executed", "awaiting_confirmation"} => a \in done
    PROVE  Keeps(Marked(s, ms), asked, done)
<1> DEFINE tab == Marked(s, ms)
<1>1. /\ tab \in [Turn -> Action \cup {None}]
      /\ \A a \in Turn :
           /\ action[a] = None <=> tab[a] = None
           /\ action[a] # None => tab[a].cmd = action[a].cmd /\ tab[a].intent = action[a].intent
           /\ \A status \in {"executed", "awaiting_confirmation"} :
                tab[a].status = status =>
                  action[a].status = status \/ (a \in DOMAIN ms /\ ms[a] = status)
  BY MarkedRows
<1> HIDE DEF tab
<1>2. \A a \in Turn : tab[a] # None /\ tab[a].cmd # 0 => <<tab[a].cmd, tab[a].intent>> \in asked
  BY <1>1 DEF KeysAsked
<1>3. ASSUME NEW a \in Turn, Waits(tab[a])
      PROVE  made[a] # <<>> \/ a \in done
  <2>1. tab[a] # None
    BY <1>3, NoneIsNoAction DEF Waits
  <2>2. action[a].cmd = 0 /\ (action[a].status = "awaiting_confirmation" \/ a \in done)
    BY <1>1, <1>3, <2>1 DEF Waits
  <2> QED
    BY <2>2 DEF KeysAsked, Waits
<1>4. \A a \in Turn : tab[a].status = "executed" => action[a].status = "executed" \/ a \in done
  BY <1>1
<1> QED
  BY <1>1, <1>2, <1>3, <1>4 DEF Keeps, tab

\* Cancelling some of them, or nothing.
LEMMA CancelledKeeps ==
    ASSUME ConversationTypeOK, Known, KeysAsked, NEW s \in Sessions, NEW ms,
           \A a \in DOMAIN ms : a \in Turn => action[a] # None /\ ms[a] = "cancelled"
    PROVE  Keeps(Marked(s, ms), asked, {})
<1> DEFINE done == DOMAIN ms \ Turn
<1>1. \A a \in DOMAIN ms : a \in Turn => action[a] # None /\ ms[a] \in Open \cup Closing
  BY DEF Closing
<1>2. \A a \in DOMAIN ms : ms[a] \in {"executed", "awaiting_confirmation"} => a \in done
  OBVIOUS
<1> HIDE DEF done
<1>3. Keeps(Marked(s, ms), asked, done)
  BY <1>1, <1>2, MarkedKeeps
<1> QED
  BY <1>3 DEF Keeps, done

\* A proposal puts one row, whose key is one the user is asked about now.
LEMMA ProposedKeeps ==
    ASSUME NEW tab, Keeps(tab, asked, {}), NEW keys, asked \subseteq keys, NEW a \in Turn,
           NEW row \in Action, row.cmd # 0 => <<row.cmd, row.intent>> \in keys,
           row.status # "executed", ~Waits(row)
    PROVE  Keeps([tab EXCEPT ![a] = row], keys, {})
  BY NoneIsNoAction DEF Keeps

\* A proposal is an action, asked about if it is complete.
LEMMA ProposedRow ==
    ASSUME ConversationTypeOK, Known, NEW s \in Sessions, pc[s] # "idle", NEW i \in Intents,
           NEW complete \in BOOLEAN, NEW expires \in Nat
    PROVE  /\ msg[s].no \in Turn
           /\ Proposed(s, i, complete, expires) \in Action
           /\ Proposed(s, i, complete, expires).status # "executed"
           /\ Proposed(s, i, complete, expires).cmd = IF complete THEN msg[s].no ELSE 0
           /\ Proposed(s, i, complete, expires).intent = i
           /\ ~Waits(Proposed(s, i, complete, expires))
<1>1. msg[s].no \in Turn
  BY DEF Known, Message
<1>2. msg[s].no \in 0 .. Turns /\ msg[s].no # 0
  BY <1>1, ConversationsAssumption DEF Turn
<1> QED
  BY <1>1, <1>2, ConversationsAssumption DEF Proposed, Action, Open, Waits

(***************************************************************************)
(* A message that leaves, or that has only read, disturbs neither what the *)
(* other sessions know, nor what the table says.                           *)
(***************************************************************************)
LEMMA LeaveKeepsSessions ==
    ASSUME ConversationTypeOK, Known, KeysAsked, Naming, Done, NEW s \in Sessions, Leave(s),
           NEW done, Keeps(action', asked', done), asked \subseteq asked', MadeGrows,
           \A a \in Turn : a \in done => made'[a] # <<>>,
           \A t \in Sessions \ {s} : pc[t] = "naming" => made'[held[t].id] = made[held[t].id]
    PROVE  Known' /\ KeysAsked' /\ Naming' /\ Done'
<1>1. Known'
  <2> SUFFICES ASSUME NEW t \in Sessions
               PROVE  /\ pc'[t] # "idle" => /\ msg'[t] \in Message
                                            /\ msg'[t].target # 0 => action'[msg'[t].target] # None
                      /\ \A a \in open'[t] \cup DOMAIN marks'[t] : action'[a] # None
                      /\ pc'[t] \in {"held", "naming", "settle"} =>
                           /\ held'[t].id \in Turn /\ held'[t].row \in Action
                           /\ action'[held'[t].id] # None
    BY DEF Known
  <2>1. CASE t = s
    BY <2>1, LeaveSession DEF NoMarks
  <2>2. CASE t # s
    <3>1. /\ pc'[t] = pc[t] /\ msg'[t] = msg[t] /\ open'[t] = open[t]
          /\ held'[t] = held[t] /\ marks'[t] = marks[t]
      BY <2>2, LeaveSession
    <3>2. \A a \in open[t] \cup DOMAIN marks[t] : a \in Turn
      BY DEF ConversationTypeOK, Marks
    <3>3. pc[t] # "idle" => msg[t].target \in {0} \cup Turn
      BY DEF Known, Message
    <3> QED
      BY <3>1, <3>2, <3>3 DEF Known, Keeps
  <2> QED
    BY <2>1, <2>2
<1>2. KeysAsked'
  <2>1. /\ \A a \in Turn : action'[a] # None /\ action'[a].cmd # 0 =>
                            <<action'[a].cmd, action'[a].intent>> \in asked'
        /\ \A a \in Turn : Waits(action'[a]) => made'[a] # <<>>
    BY DEF Keeps, MadeGrows
  <2>2. ASSUME NEW t \in Sessions, pc'[t] \in {"held", "naming"}
        PROVE  /\ held'[t].row.cmd # 0 => <<held'[t].row.cmd, held'[t].row.intent>> \in asked'
               /\ Waits(held'[t].row) => made'[held'[t].id] # <<>>
    <3>1. t # s /\ pc'[t] = pc[t] /\ held'[t] = held[t]
      BY <2>2, LeaveSession
    <3> QED
      BY <2>2, <3>1 DEF KeysAsked, MadeGrows, Known
  <2> QED
    BY <2>1, <2>2 DEF KeysAsked, Waits
<1>3. Done'
  BY LeaveSession DEF Done, MadeGrows, Known
<1>4. Naming'
  <2> SUFFICES ASSUME NEW t \in Sessions, pc'[t] = "naming"
               PROVE  /\ lock'[held'[t].id] = t
                      /\ held'[t].row.intent \in Goals
                      /\ held'[t].row.status = "awaiting_confirmation"
                      /\ Standing(held[t].id, held[t].row.cmd)' = {}
    BY DEF Naming
  <2>1. /\ t # s /\ pc[t] = "naming" /\ held'[t] = held[t]
        /\ \A row \in Rows : lock[row] = t => lock'[row] = t
    BY LeaveSession
  <2>2. held[t].id \in Rows
    BY <2>1, ConversationsAssumption DEF Known
  <2>3. made'[held'[t].id] = made[held[t].id]
    BY <2>1
  <2> QED
    BY <2>1, <2>2, <2>3 DEF Naming, Standing
<1> QED
  BY <1>1, <1>2, <1>3, <1>4

\* Nothing was recorded, and no answer claims that it was.
LEMMA NothingDone ==
    ASSUME ConversationTypeOK, OncePerQuestion, AnswersAreTrue, made' = made,
           asked \subseteq asked', NEW keys, Keeps(action', keys, {}),
           \A a \in Turn : /\ <<a, "done">> \in said' => <<a, "done">> \in said
                           /\ <<a, "already">> \in said' => <<a, "already">> \in said \/ made[a] # <<>>
    PROVE  OncePerQuestion' /\ AnswersAreTrue' /\ MadeGrows
<1>1. OncePerQuestion'
  BY DEF OncePerQuestion
<1>2. AnswersAreTrue'
  BY DEF AnswersAreTrue, Keeps
<1> QED
  BY <1>1, <1>2 DEF MadeGrows

-----------------------------------------------------------------------------
(* Messages that record nothing *)

LEMMA QuietStep ==
    ASSUME ConversationInv, NEW s \in Sessions, Leave(s),
           now' = now, turn' = turn, made' = made, answered' \subseteq Turn,
           Keeps(action', asked', {}), asked \subseteq asked', asked' \subseteq Turn \X Intents,
           said' \subseteq Turn \X {"done", "already", "unsaved"},
           \A a \in Turn : /\ <<a, "done">> \in said' => <<a, "done">> \in said
                           /\ <<a, "already">> \in said' => <<a, "already">> \in said \/ made[a] # <<>>
    PROVE  ConversationInv'
<1>1. OncePerQuestion' /\ AnswersAreTrue' /\ MadeGrows
  BY NothingDone DEF ConversationInv
<1>2. Known' /\ KeysAsked' /\ Naming' /\ Done'
  BY <1>1, LeaveKeepsSessions DEF ConversationInv
<1>3. ConversationTypeOK'
  BY LeaveSession DEF ConversationInv, ConversationTypeOK, Keeps
<1> QED
  BY <1>1, <1>2, <1>3 DEF ConversationInv

\* An answer that comes with status changes that execute nothing.
LEMMA AnswerQuiet ==
    ASSUME ConversationInv, NEW s \in Sessions, pc[s] # "idle", NEW ms, Answer(s, ms),
           \A a \in DOMAIN ms : a \in Turn => action[a] # None /\ ms[a] = "cancelled",
           UNCHANGED <<asked, made>>,
           said' \subseteq Turn \X {"done", "already", "unsaved"},
           \A a \in Turn : /\ <<a, "done">> \in said' => <<a, "done">> \in said
                           /\ <<a, "already">> \in said' => <<a, "already">> \in said \/ made[a] # <<>>
    PROVE  ConversationInv'
<1>1. Keeps(Marked(s, ms), asked, {})
  BY CancelledKeeps DEF ConversationInv
<1>3. Keeps(action', asked', {})
  BY <1>1 DEF Answer, Commit, Keeps
<1>4. answered' \subseteq Turn
  BY DEF Answer, Commit, ConversationInv, ConversationTypeOK, Known, Message
<1> QED
  BY <1>3, <1>4, QuietStep DEF Answer, Commit, ConversationInv, ConversationTypeOK

\* No status change at all.
LEMMA AnswerOnly ==
    ASSUME ConversationInv, NEW s \in Sessions, pc[s] # "idle", Answer(s, NoMarks), Silent
    PROVE  ConversationInv'
<1>1. DOMAIN NoMarks = {}
  BY DEF NoMarks
<1> QED
  BY <1>1, AnswerQuiet DEF Silent, ConversationInv, ConversationTypeOK

\* Cancelling what is open.
LEMMA CancellingOpen ==
    ASSUME NEW as
    PROVE  DOMAIN Cancelling(as) = as /\ \A a \in as : Cancelling(as)[a] = "cancelled"
  BY DEF Cancelling, Becomes

LEMMA OpenIsSome == \A a \in AllOpen : a \in Turn /\ action[a] # None
  BY NoneIsNoAction DEF AllOpen, IsOpen

LEMMA ProposeNewStep ==
    ASSUME ConversationInv, NEW s \in Sessions, pc[s] # "idle",
           NEW i \in Intents, NEW complete \in BOOLEAN, NEW ms, ProposeNew(s, i, complete, ms),
           \A a \in DOMAIN ms : a \in Turn => action[a] # None /\ ms[a] = "cancelled"
    PROVE  ConversationInv'
<1> DEFINE row == Proposed(s, i, complete, msg[s].at + 1)
<1>1. msg[s].at + 1 \in Nat /\ msg[s].ext \in Turn
  BY DEF ConversationInv, Known, Message
<1>2. /\ msg[s].no \in Turn /\ row \in Action /\ row.status # "executed"
      /\ row.cmd = (IF complete THEN msg[s].no ELSE 0) /\ row.intent = i /\ ~Waits(row)
  BY <1>1, ProposedRow DEF ConversationInv
<1>3. /\ asked \subseteq asked' /\ asked' \subseteq Turn \X Intents
      /\ row.cmd # 0 => <<row.cmd, row.intent>> \in asked'
  BY <1>2 DEF ProposeNew, ConversationInv, ConversationTypeOK
<1>4. \A a \in DOMAIN ms : a \in Turn => /\ action[a] # None /\ ms[a] \in Open \cup Closing
                                        /\ ms[a] = "cancelled"
  BY DEF Closing
<1>5. Keeps(Marked(s, ms), asked, {})
  BY <1>4, CancelledKeeps DEF ConversationInv
<1>6. action' = [Marked(s, ms) EXCEPT ![msg[s].no] = row]
  BY DEF ProposeNew, Commit
<1> HIDE DEF row
<1>7. Keeps(action', asked', {})
  BY <1>2, <1>3, <1>5, <1>6, ProposedKeeps
<1> QED
  BY <1>1, <1>3, <1>7, QuietStep DEF ProposeNew, Commit, ConversationInv, ConversationTypeOK

LEMMA ReplaceStep ==
    ASSUME ConversationInv, NEW s \in Sessions, pc[s] # "idle",
           NEW i \in Intents, NEW complete \in BOOLEAN, Replace(s, i, complete)
    PROVE  ConversationInv'
<1>1. CASE ProposeNew(s, i, complete, NoMarks)
  <2>1. DOMAIN NoMarks = {}
    BY DEF NoMarks
  <2> QED
    BY <1>1, <2>1, ProposeNewStep
<1>2. CASE ProposeNew(s, i, TRUE, Cancelling(AllOpen \ DOMAIN marks[s]))
  <2> DEFINE ms == Cancelling(AllOpen \ DOMAIN marks[s])
  <2>1. ProposeNew(s, i, TRUE, ms)
    BY <1>2
  <2>2. \A a \in DOMAIN ms : a \in Turn => action[a] # None /\ ms[a] = "cancelled"
    BY CancellingOpen, OpenIsSome
  <2> HIDE DEF ms
  <2> QED
    BY <2>1, <2>2, ProposeNewStep
<1>3. CASE Answer(s, NoMarks) /\ Silent
  BY <1>3, AnswerOnly
<1> QED
  BY <1>1, <1>2, <1>3 DEF Replace

LEMMA ProposeAgainStep ==
    ASSUME ConversationInv, NEW s \in Sessions, pc[s] = "held",
           NEW i \in Intents, NEW complete \in BOOLEAN, ProposeAgain(s, i, complete)
    PROVE  ConversationInv'
<1> DEFINE a == held[s].id
           row == Proposed(s, i, complete, action[a].expires)
<1>1. a \in Turn /\ action[a] \in Action /\ msg[s].ext \in Turn
  BY DEF ConversationInv, ConversationTypeOK, Known, Message
<1>2. action[a].expires \in Nat
  BY <1>1 DEF Action
<1>3. /\ msg[s].no \in Turn /\ row \in Action /\ row.status # "executed"
      /\ row.cmd = (IF complete THEN msg[s].no ELSE 0) /\ row.intent = i /\ ~Waits(row)
  BY <1>2, ProposedRow DEF ConversationInv
<1>4. /\ asked \subseteq asked' /\ asked' \subseteq Turn \X Intents
      /\ row.cmd # 0 => <<row.cmd, row.intent>> \in asked'
  BY <1>3 DEF ProposeAgain, ConversationInv, ConversationTypeOK
<1>5. DOMAIN NoMarks = {}
  BY DEF NoMarks
<1>6. Keeps(Marked(s, NoMarks), asked, {})
  BY <1>5, CancelledKeeps DEF ConversationInv
<1>7. action' = [Marked(s, NoMarks) EXCEPT ![a] = row]
  BY DEF ProposeAgain, Commit
<1> HIDE DEF row
<1>8. Keeps(action', asked', {})
  BY <1>1, <1>3, <1>4, <1>6, <1>7, ProposedKeeps
<1> QED
  BY <1>1, <1>4, <1>8, QuietStep DEF ProposeAgain, Commit, ConversationInv, ConversationTypeOK

-----------------------------------------------------------------------------
(* Messages that record an operation, or settle one *)

\* The command of a held action is a number of a message, and was asked about.
LEMMA HeldCommand ==
    ASSUME ConversationInv, NEW s \in Sessions, pc[s] \in {"held", "naming"},
           held[s].row.status = "awaiting_confirmation"
    PROVE  /\ held[s].id \in Turn /\ action[held[s].id] # None
           /\ Asked(s) \in Operation /\ Asked(s).gone = FALSE
           /\ Asked(s).cmd = held[s].row.cmd /\ Asked(s).intent = held[s].row.intent
           /\ Asked(s).cmd # 0 => <<Asked(s).cmd, Asked(s).intent>> \in asked
           /\ made[held[s].id] = <<>> => Asked(s).cmd # 0
<1>1. /\ held[s].id \in Turn /\ action[held[s].id] # None
      /\ held[s].row \in Action
  BY DEF ConversationInv, Known
<1>2. held[s].row.cmd \in 0 .. Turns /\ held[s].row.intent \in Intents
  BY <1>1 DEF Action
<1>3. /\ held[s].row.cmd # 0 => <<held[s].row.cmd, held[s].row.intent>> \in asked
      /\ made[held[s].id] = <<>> => held[s].row.cmd # 0
  BY DEF ConversationInv, KeysAsked, Waits
<1> QED
  BY <1>1, <1>2, <1>3 DEF Asked, Operation

\* The operations of one action: each was asked about, and stands once.
OnceEach(ops) ==
    \A i \in DOMAIN ops :
        /\ ops[i].cmd # 0 => <<ops[i].cmd, ops[i].intent>> \in asked
        /\ ops[i].cmd # 0 /\ ~ops[i].gone => \A j \in DOMAIN ops : ops[j] = ops[i] => j = i
        /\ ops[1].cmd # 0

LEMMA OnceEachAlways ==
    ASSUME \A a \in Turn : OnceEach(made'[a]), asked' = asked
    PROVE  OncePerQuestion'
<1>1. ASSUME NEW a \in Turn
      PROVE  \A i \in DOMAIN made'[a] :
               /\ made'[a][i].cmd # 0 => <<made'[a][i].cmd, made'[a][i].intent>> \in asked'
               /\ made'[a][i].cmd # 0 /\ ~made'[a][i].gone =>
                    \A j \in DOMAIN made'[a] : made'[a][j] = made'[a][i] => j = i
               /\ made'[a][1].cmd # 0
  <2> DEFINE ops == made'[a]
  <2>1. OnceEach(ops)
    OBVIOUS
  <2> HIDE DEF ops
  <2>2. \A i \in DOMAIN ops :
          /\ ops[i].cmd # 0 => <<ops[i].cmd, ops[i].intent>> \in asked'
          /\ ops[i].cmd # 0 /\ ~ops[i].gone => \A j \in DOMAIN ops : ops[j] = ops[i] => j = i
          /\ ops[1].cmd # 0
    BY <2>1 DEF OnceEach
  <2> QED
    BY <2>2 DEF ops
<1> QED
  BY <1>1, Zenon DEF OncePerQuestion

LEMMA AppendOnce ==
    ASSUME NEW old \in Seq(Operation), OnceEach(old), NEW o \in Operation,
           o.cmd # 0 => <<o.cmd, o.intent>> \in asked,
           o.cmd # 0 => \A i \in DOMAIN old : old[i] # o,
           old = <<>> => o.cmd # 0
    PROVE  /\ Append(old, o) \in Seq(Operation) /\ Append(old, o) # <<>>
           /\ OnceEach(Append(old, o))
<1> DEFINE new == Append(old, o)
           n == Len(old) + 1
<1>1. /\ new \in Seq(Operation) /\ new[n] = o
      /\ \A i \in 1 .. Len(old) : new[i] = old[i]
      /\ DOMAIN new = 1 .. n /\ DOMAIN old = 1 .. Len(old)
      /\ Len(old) \in Nat
  OBVIOUS
<1>2. old = <<>> \/ 1 \in 1 .. Len(old)
  BY <1>1
<1>3. new[1].cmd # 0
  <2>1. CASE old = <<>>
    BY <1>1, <2>1
  <2>2. CASE 1 \in 1 .. Len(old)
    BY <1>1, <2>2 DEF OnceEach
  <2> QED
    BY <1>2, <2>1, <2>2
<1> HIDE DEF new
<1>4. ASSUME NEW i \in 1 .. n, new[i].cmd # 0
      PROVE  <<new[i].cmd, new[i].intent>> \in asked
  <2>1. CASE i = n
    BY <1>1, <1>4, <2>1
  <2>2. CASE i \in 1 .. Len(old)
    BY <1>1, <1>4, <2>2 DEF OnceEach
  <2> QED
    BY <1>1, <2>1, <2>2
<1>5. ASSUME NEW i \in 1 .. n, new[i].cmd # 0, ~new[i].gone, NEW j \in 1 .. n, new[j] = new[i]
      PROVE  j = i
  <2>1. CASE i = n /\ j = n
    BY <2>1
  <2>2. CASE i = n /\ j \in 1 .. Len(old)
    BY <1>1, <1>5, <2>2
  <2>3. CASE i \in 1 .. Len(old) /\ j = n
    BY <1>1, <1>5, <2>3
  <2>4. CASE i \in 1 .. Len(old) /\ j \in 1 .. Len(old)
    BY <1>1, <1>5, <2>4 DEF OnceEach
  <2> QED
    BY <1>1, <2>1, <2>2, <2>3, <2>4
<1>6. OnceEach(new)
  BY <1>1, <1>3, <1>4, <1>5 DEF OnceEach
<1>7. new # <<>>
  BY <1>1
<1> QED
  BY <1>1, <1>6, <1>7 DEF new

\* The operations recorded so far, and one more of the held action.
LEMMA AppendAsked ==
    ASSUME ConversationInv, NEW s \in Sessions, pc[s] \in {"held", "naming"},
           held[s].row.status = "awaiting_confirmation",
           Asked(s).cmd # 0 =>
              \A i \in DOMAIN made[held[s].id] : made[held[s].id][i] # Asked(s),
           made' = [made EXCEPT ![held[s].id] = Append(@, Asked(s))]
    PROVE  /\ made' \in [Turn -> Seq(Operation)]
           /\ MadeGrows /\ made'[held[s].id] # <<>>
           /\ \A a \in Turn : a # held[s].id => made'[a] = made[a]
           /\ \A a \in Turn : OnceEach(made'[a])
<1> DEFINE h == held[s].id
           o == Asked(s)
           new == Append(made[h], o)
<1>1. /\ h \in Turn /\ o \in Operation /\ (o.cmd # 0 => <<o.cmd, o.intent>> \in asked)
      /\ made[h] = <<>> => o.cmd # 0
  BY HeldCommand
<1>2. made \in [Turn -> Seq(Operation)]
  BY DEF ConversationInv, ConversationTypeOK
<1>3. \A a \in Turn : OnceEach(made[a])
  BY DEF ConversationInv, OncePerQuestion, OnceEach
<1>4. o.cmd # 0 => \A i \in DOMAIN made[h] : made[h][i] # o
  OBVIOUS
<1>5. made' = [made EXCEPT ![h] = new]
  OBVIOUS
<1> HIDE DEF h, o
<1>6. new \in Seq(Operation) /\ new # <<>> /\ OnceEach(new)
  BY <1>1, <1>2, <1>3, <1>4, AppendOnce
<1> HIDE DEF new
<1>7. made'[h] = new /\ \A a \in Turn : a # h => made'[a] = made[a]
  BY <1>1, <1>2, <1>5
<1>8. \A a \in Turn : OnceEach(made'[a])
  BY <1>3, <1>6, <1>7
<1>9. made' \in [Turn -> Seq(Operation)]
  BY <1>2, <1>5, <1>6
<1>10. MadeGrows
  BY <1>6, <1>7 DEF MadeGrows
<1> QED
  BY <1>6, <1>7, <1>8, <1>9, <1>10 DEF h

\* Recording an operation once per command.
LEMMA RanOnce ==
    ASSUME ConversationInv, NEW s \in Sessions, pc[s] = "held",
           held[s].row.status = "awaiting_confirmation", Ran(s)
    PROVE  /\ made' \in [Turn -> Seq(Operation)]
           /\ MadeGrows /\ made'[held[s].id] # <<>>
           /\ \A a \in Turn : a # held[s].id => made'[a] = made[a]
           /\ \A a \in Turn : OnceEach(made'[a])
<1> DEFINE h == held[s].id
           k == held[s].row.cmd
           again == k # 0 /\ \E i \in DOMAIN made[h] : made[h][i].cmd = k
<1>1. h \in Turn /\ Asked(s).cmd = k
  BY HeldCommand
<1>2. made \in [Turn -> Seq(Operation)] /\ \A a \in Turn : OnceEach(made[a])
  BY DEF ConversationInv, ConversationTypeOK, OncePerQuestion, OnceEach
<1>3. made' = [made EXCEPT ![h] = IF again THEN made[h] ELSE Append(made[h], Asked(s))]
  BY DEF Ran
<1>4. CASE again
  <2>1. made' = made
    BY <1>1, <1>2, <1>3, <1>4
  <2>2. made[h] # <<>>
    BY <1>1, <1>2, <1>4
  <2> QED
    BY <1>2, <2>1, <2>2 DEF MadeGrows
<1>5. CASE ~again
  <2>1. made' = [made EXCEPT ![h] = Append(@, Asked(s))]
    BY <1>3, <1>5
  <2>2. Asked(s).cmd # 0 => \A i \in DOMAIN made[h] : made[h][i] # Asked(s)
    BY <1>1, <1>5
  <2> QED
    BY <2>1, <2>2, AppendAsked
<1> QED
  BY <1>4, <1>5

\* The held action becomes something that it may become.
LEMMA HeldBecomes ==
    ASSUME ConversationInv, NEW s \in Sessions, pc[s] \in {"held", "naming", "settle"},
           NEW status \in {"executed", "awaiting_confirmation"}
    PROVE  Keeps(Marked(s, Becomes({held[s].id}, status)), asked, {held[s].id})
<1> DEFINE h == held[s].id
           ms == Becomes({h}, status)
<1>1. h \in Turn /\ action[h] # None /\ status \in Open \cup Closing
  BY DEF ConversationInv, Known, Open, Closing
<1>2. DOMAIN ms = {h} /\ ms[h] = status
  BY DEF Becomes
<1> HIDE DEF ms, h
<1>3. Keeps(Marked(s, ms), asked, {h})
  BY <1>1, <1>2, MarkedKeeps DEF ConversationInv
<1> QED
  BY <1>3 DEF ms, h

\* Nobody else is between the check and the insert for a row that s can write.
LEMMA NamingElsewhere ==
    ASSUME ConversationInv, NEW s \in Sessions, NEW h, CanWrite(s, {h}),
           \A a \in Turn : a # h => made'[a] = made[a],
           NEW t \in Sessions \ {s}, pc[t] = "naming"
    PROVE  made'[held[t].id] = made[held[t].id]
<1>1. lock[h] \in {s, Nobody}
  BY DEF CanWrite, Available
<1>2. lock[held[t].id] = t /\ held[t].id \in Turn
  BY DEF ConversationInv, Naming, Known
<1>3. held[t].id # h
  BY <1>1, <1>2, NobodyAssumption
<1> QED
  BY <1>2, <1>3

\* An answer that says the operation of the held action is done.
LEMMA AnswerDone ==
    ASSUME ConversationInv, NEW s \in Sessions, pc[s] \in {"held", "naming", "settle"},
           Answer(s, Becomes({held[s].id}, "executed")), asked' = asked,
           said' = said \cup {<<held[s].id, "done">>},
           made' \in [Turn -> Seq(Operation)], MadeGrows, made'[held[s].id] # <<>>,
           \A a \in Turn : a # held[s].id => made'[a] = made[a],
           \A a \in Turn : OnceEach(made'[a])
    PROVE  ConversationInv'
<1> DEFINE h == held[s].id
<1>1. h \in Turn /\ msg[s].ext \in Turn
  BY DEF ConversationInv, Known, Message
<1>2. Keeps(action', asked', {h})
  BY HeldBecomes DEF Answer, Commit
<1>3. CanWrite(s, {h}) /\ Leave(s)
  BY DEF Answer, Commit, Becomes
<1>4. ASSUME NEW t \in Sessions \ {s}, pc[t] = "naming"
      PROVE  made'[held[t].id] = made[held[t].id]
  BY <1>3, <1>4, NamingElsewhere
<1>5. Known' /\ KeysAsked' /\ Naming' /\ Done'
  BY <1>2, <1>3, <1>4, LeaveKeepsSessions DEF ConversationInv
<1>6. OncePerQuestion'
  BY OnceEachAlways
<1>7. AnswersAreTrue'
  BY <1>2 DEF AnswersAreTrue, ConversationInv, Keeps, MadeGrows
<1>8. ConversationTypeOK'
  <2>1. /\ Leave(s) /\ UNCHANGED <<now, turn>>
        /\ answered' = answered \cup {msg[s].ext}
    BY DEF Answer, Commit
  <2>2. /\ said' \subseteq Turn \X {"done", "already", "unsaved"}
        /\ answered' \subseteq Turn /\ asked' \subseteq Turn \X Intents
    BY <1>1, <2>1 DEF ConversationInv, ConversationTypeOK
  <2>3. action' \in [Turn -> Action \cup {None}]
    BY <1>2 DEF Keeps
  <2> QED
    BY <2>1, <2>2, <2>3, LeaveSession DEF ConversationInv, ConversationTypeOK
<1> QED
  BY <1>5, <1>6, <1>7, <1>8 DEF ConversationInv

LEMMA ExecuteStep ==
    ASSUME ConversationInv, NEW s \in Sessions, Execute(s)
    PROVE  ConversationInv'
<1>1. pc[s] = "held" /\ held[s].row.status = "awaiting_confirmation" /\ Ran(s)
  BY DEF Execute, Confirms, Holding
<1> QED
  BY <1>1, RanOnce, AnswerDone DEF Execute

\* A goal is inserted for which none of its name stood, and none came since.
LEMMA CreateGoalStep ==
    ASSUME ConversationInv, NEW s \in Sessions, CreateGoal(s)
    PROVE  ConversationInv'
<1> DEFINE h == held[s].id
<1>1. /\ pc[s] = "naming" /\ held[s].row.status = "awaiting_confirmation"
      /\ held[s].row.intent \in Goals /\ Standing(h, held[s].row.cmd) = {}
  BY DEF CreateGoal, ConversationInv, Naming
<1>2. /\ Asked(s).cmd = held[s].row.cmd /\ Asked(s).intent = held[s].row.intent
      /\ Asked(s).gone = FALSE
  BY <1>1, HeldCommand
<1>3. \A i \in DOMAIN made[h] : made[h][i] # Asked(s)
  BY <1>1, <1>2 DEF Standing
<1>4. /\ made' \in [Turn -> Seq(Operation)] /\ MadeGrows /\ made'[h] # <<>>
      /\ \A a \in Turn : a # h => made'[a] = made[a]
      /\ \A a \in Turn : OnceEach(made'[a])
  BY <1>1, <1>3, AppendAsked DEF CreateGoal
<1> QED
  BY <1>1, <1>4, AnswerDone DEF CreateGoal

LEMMA SettleStep ==
    ASSUME ConversationInv, NEW s \in Sessions, Settle(s)
    PROVE  ConversationInv'
<1>1. made[held[s].id] # <<>> /\ \A a \in Turn : OnceEach(made[a])
  BY DEF Settle, ConversationInv, Done, OncePerQuestion, OnceEach
<1> QED
  BY <1>1, AnswerDone DEF Settle, MadeGrows, ConversationInv, ConversationTypeOK

\* The first of two transactions: its action awaits the second.
LEMMA ExecuteCashStep ==
    ASSUME ConversationInv, NEW s \in Sessions, ExecuteCash(s)
    PROVE  ConversationInv'
<1> DEFINE h == held[s].id
<1>1. /\ pc[s] = "held" /\ held[s].row.status = "awaiting_confirmation"
      /\ Ran(s) /\ CanWrite(s, {h})
  BY DEF ExecuteCash, Confirms, Holding
<1>2. /\ made' \in [Turn -> Seq(Operation)] /\ MadeGrows /\ made'[h] # <<>>
      /\ \A a \in Turn : a # h => made'[a] = made[a]
      /\ \A a \in Turn : OnceEach(made'[a])
  BY <1>1, RanOnce
<1>3. Keeps(action', asked', {h})
  BY <1>1, HeldBecomes DEF ExecuteCash
<1>4. /\ UNCHANGED <<now, turn, answered, asked, said, msg, open, held>>
      /\ pc' = [pc EXCEPT ![s] = "settle"] /\ marks' = [marks EXCEPT ![s] = NoMarks]
      /\ ReleaseAll(s)
  BY DEF ExecuteCash
<1>5. NoMarks \in Marks /\ DOMAIN NoMarks = {}
  BY DEF NoMarks, Marks
<1>6. ConversationTypeOK'
  BY <1>2, <1>3, <1>4, <1>5 DEF ConversationInv, ConversationTypeOK, Keeps, ReleaseAll, LockTypeOK
<1>7. /\ pc'[s] = "settle" /\ DOMAIN marks'[s] = {}
      /\ \A t \in Sessions \ {s} : pc'[t] = pc[t] /\ marks'[t] = marks[t]
  BY <1>4, <1>5 DEF ConversationInv, ConversationTypeOK
<1>8. Known'
  <2> SUFFICES ASSUME NEW t \in Sessions
               PROVE  /\ pc'[t] # "idle" => /\ msg'[t] \in Message
                                            /\ msg'[t].target # 0 => action'[msg'[t].target] # None
                      /\ \A a \in open'[t] \cup DOMAIN marks'[t] : action'[a] # None
                      /\ pc'[t] \in {"held", "naming", "settle"} =>
                           /\ held'[t].id \in Turn /\ held'[t].row \in Action
                           /\ action'[held'[t].id] # None
    BY DEF Known
  <2>1. pc[t] # "idle" => msg[t].target \in {0} \cup Turn
    BY DEF ConversationInv, Known, Message
  <2>2. \A a \in open[t] \cup DOMAIN marks[t] : a \in Turn
    BY DEF ConversationInv, ConversationTypeOK, Marks
  <2>3. DOMAIN marks'[t] \subseteq DOMAIN marks[t]
    BY <1>7
  <2>4. /\ pc'[t] # "idle" => pc[t] # "idle"
        /\ pc'[t] \in {"held", "naming", "settle"} => pc[t] \in {"held", "naming", "settle"}
    BY <1>1, <1>7
  <2> QED
    BY <1>3, <1>4, <2>1, <2>2, <2>3, <2>4 DEF ConversationInv, Known, Keeps
<1>9. KeysAsked'
  <2>1. /\ \A a \in Turn : action'[a] # None /\ action'[a].cmd # 0 =>
                            <<action'[a].cmd, action'[a].intent>> \in asked'
        /\ \A a \in Turn : Waits(action'[a]) => made'[a] # <<>>
    BY <1>2, <1>3 DEF Keeps, MadeGrows
  <2>2. ASSUME NEW t \in Sessions, pc'[t] \in {"held", "naming"}
        PROVE  /\ held'[t].row.cmd # 0 => <<held'[t].row.cmd, held'[t].row.intent>> \in asked'
               /\ Waits(held'[t].row) => made'[held'[t].id] # <<>>
    <3>1. t # s /\ pc'[t] = pc[t] /\ held'[t] = held[t]
      BY <1>4, <1>7, <2>2
    <3> QED
      BY <1>2, <1>4, <2>2, <3>1 DEF ConversationInv, KeysAsked, MadeGrows, Known
  <2> QED
    BY <2>1, <2>2 DEF KeysAsked, Waits
<1>10. Naming'
  <2> SUFFICES ASSUME NEW t \in Sessions, pc'[t] = "naming"
               PROVE  /\ lock'[held'[t].id] = t
                      /\ held'[t].row.intent \in Goals
                      /\ held'[t].row.status = "awaiting_confirmation"
                      /\ Standing(held[t].id, held[t].row.cmd)' = {}
    BY DEF Naming
  <2>1. t # s /\ pc[t] = "naming" /\ held'[t] = held[t]
    BY <1>4, <1>7
  <2>2. made'[held[t].id] = made[held[t].id]
    BY <1>1, <1>2, <2>1, NamingElsewhere
  <2>3. lock[held[t].id] = t /\ held[t].id \in Rows
    BY <2>1, ConversationsAssumption DEF ConversationInv, Naming, Known
  <2>4. lock'[held[t].id] = t
    BY <1>4, <2>1, <2>3 DEF ReleaseAll
  <2> QED
    BY <2>1, <2>2, <2>4 DEF ConversationInv, Naming, Standing
<1>11. Done'
  <2> SUFFICES ASSUME NEW t \in Sessions,
                      pc'[t] = "settle" \/ (pc'[t] = "held" /\ held'[t].row.status = "executed")
               PROVE  made'[held'[t].id] # <<>>
    BY DEF Done
  <2>1. CASE t = s
    BY <1>2, <1>4, <2>1
  <2>2. CASE t # s
    BY <1>2, <1>4, <1>7, <2>2 DEF ConversationInv, Known, Done, MadeGrows
  <2> QED
    BY <2>1, <2>2
<1>12. OncePerQuestion'
  BY <1>2, <1>4, OnceEachAlways
<1>13. AnswersAreTrue'
  BY <1>2, <1>3, <1>4 DEF ConversationInv, AnswersAreTrue, Keeps, MadeGrows
<1> QED
  BY <1>6, <1>8, <1>9, <1>10, <1>11, <1>12, <1>13 DEF ConversationInv

-----------------------------------------------------------------------------
(* Messages that begin, read, or end without an answer *)

\* A step that changes what one session knows, and no table.
LEMMA ReadingStep ==
    ASSUME ConversationInv, NEW s \in Sessions, UNCHANGED tables, ConversationTypeOK',
           \A t \in Sessions \ {s} :
              /\ pc'[t] = pc[t] /\ msg'[t] = msg[t] /\ open'[t] = open[t]
              /\ held'[t] = held[t] /\ marks'[t] = marks[t],
           pc'[s] # "idle" => /\ msg'[s] \in Message
                              /\ msg'[s].target # 0 => action[msg'[s].target] # None,
           \A a \in open'[s] \cup DOMAIN marks'[s] : action[a] # None,
           \A t \in Sessions \ {s}, row \in Rows : lock[row] = t => lock'[row] = t,
           pc'[s] # "settle",
           pc'[s] \in {"held", "naming"} =>
              /\ held'[s].id \in Turn /\ held'[s].row \in Action /\ action[held'[s].id] # None
              /\ held'[s].row.cmd # 0 => <<held'[s].row.cmd, held'[s].row.intent>> \in asked
              /\ Waits(held'[s].row) => made[held'[s].id] # <<>>
              /\ held'[s].row.status = "executed" => made[held'[s].id] # <<>>,
           pc'[s] = "naming" =>
              /\ lock'[held'[s].id] = s
              /\ held'[s].row.intent \in Goals /\ held'[s].row.status = "awaiting_confirmation"
              /\ Standing(held'[s].id, held'[s].row.cmd) = {}
    PROVE  ConversationInv'
<1>1. /\ action' = action /\ asked' = asked /\ made' = made /\ said' = said
  BY DEF tables
<1>2. Known'
  BY <1>1 DEF ConversationInv, Known
<1>3. KeysAsked'
  BY <1>1 DEF ConversationInv, KeysAsked, Waits
<1>4. Done'
  BY <1>1 DEF ConversationInv, Done
<1>5. OncePerQuestion' /\ AnswersAreTrue'
  BY <1>1 DEF ConversationInv, OncePerQuestion, AnswersAreTrue
<1>6. Naming'
  <2> SUFFICES ASSUME NEW t \in Sessions, pc'[t] = "naming"
               PROVE  /\ lock'[held'[t].id] = t
                      /\ held'[t].row.intent \in Goals
                      /\ held'[t].row.status = "awaiting_confirmation"
                      /\ Standing(held'[t].id, held'[t].row.cmd) = {}
    BY <1>1 DEF Naming, Standing
  <2>1. CASE t = s
    BY <2>1
  <2>2. CASE t # s
    <3>1. pc[t] = "naming" /\ held'[t] = held[t]
      BY <2>2
    <3>2. held[t].id \in Rows
      BY <3>1, ConversationsAssumption DEF ConversationInv, Known
    <3> QED
      BY <2>2, <3>1, <3>2 DEF ConversationInv, Naming
  <2> QED
    BY <2>1, <2>2
<1> QED
  BY <1>2, <1>3, <1>4, <1>5, <1>6 DEF ConversationInv

LEMMA EndStep ==
    ASSUME ConversationInv, NEW s \in Sessions, Leave(s), UNCHANGED <<now, turn, tables>>
    PROVE  ConversationInv'
<1>1. ConversationTypeOK'
  BY LeaveSession DEF ConversationInv, ConversationTypeOK, tables
<1>2. DOMAIN marks'[s] = {}
  BY LeaveSession DEF ConversationInv, NoMarks
<1>3. pc'[s] = "idle" /\ \A t \in Sessions \ {s}, row \in Rows : lock[row] = t => lock'[row] = t
  BY LeaveSession DEF ConversationInv
<1> QED
  <2>1. ConversationTypeOK
    BY DEF ConversationInv
  <2>2. /\ open'[s] = {}
        /\ \A t \in Sessions \ {s} :
             /\ pc'[t] = pc[t] /\ msg'[t] = msg[t] /\ open'[t] = open[t]
             /\ held'[t] = held[t] /\ marks'[t] = marks[t]
    BY <2>1, LeaveSession
  <2>3. \A a \in open'[s] \cup DOMAIN marks'[s] : action[a] # None
    BY <1>2, <2>2
  <2>4. /\ pc'[s] \notin {"held", "naming", "settle"} /\ UNCHANGED tables
    BY <1>3
  <2> QED
    BY <1>1, <1>3, <2>2, <2>3, <2>4, ReadingStep

LEMMA ReceivedStep ==
    ASSUME ConversationInv, NEW s \in Sessions, NEW m, NEW target \in {0} \cup Turn,
           NEW ext \in Turn \cup {turn + 1}, Received(s, m, target, ext),
           m.text \in Texts, m.number \in Nat, target # 0 => action[target] # None
    PROVE  ConversationInv'
<1>1. turn + 1 \in Turn /\ turn' \in 0 .. Turns /\ now \in Nat
  BY ConversationsAssumption DEF Received, ConversationInv, ConversationTypeOK, Turn
<1>2. msg'[s] \in Message /\ msg'[s].target = target
  BY <1>1 DEF Received, ConversationInv, ConversationTypeOK, Message
<1>3. msg' \in [Sessions -> Message \cup {NoMessage}]
  BY <1>2 DEF Received, ConversationInv, ConversationTypeOK
<1>4. /\ UNCHANGED <<now, tables, lock, open, held, marks>> /\ pc[s] = "idle"
      /\ pc' = [pc EXCEPT ![s] = "new"]
      /\ \A t \in Sessions \ {s} : msg'[t] = msg[t]
  BY DEF Received, ConversationInv, ConversationTypeOK
<1>5. ConversationTypeOK'
  BY <1>1, <1>3, <1>4 DEF ConversationInv, ConversationTypeOK, tables, LockTypeOK
<1> QED
  BY <1>2, <1>4, <1>5, ReadingStep DEF ConversationInv, ConversationTypeOK, Known

LEMMA BeginStep ==
    ASSUME ConversationInv, NEW s \in Sessions, Begin(s) \/ Redeliver(s)
    PROVE  ConversationInv'
<1>1. CASE Begin(s)
  BY <1>1, ReceivedStep, ConversationsAssumption DEF Begin
<1>2. CASE Redeliver(s)
  <2>1. PICK t \in Sessions : pc[t] # "idle" /\ Received(s, msg[t], msg[t].target, msg[t].ext)
    BY <1>2 DEF Redeliver
  <2>2. /\ msg[t].text \in Texts /\ msg[t].number \in Nat /\ msg[t].target \in {0} \cup Turn
        /\ msg[t].ext \in Turn /\ (msg[t].target # 0 => action[msg[t].target] # None)
    BY <2>1 DEF ConversationInv, Known, Message
  <2> QED
    BY <2>1, <2>2, ReceivedStep
<1> QED
  BY <1>1, <1>2

\* Rows that the session may lock leave the locks of the others alone.
LEMMA LockedKeeps ==
    ASSUME NEW s \in Sessions, NEW rows, \A r \in rows : Available(s, r),
           NEW t \in Sessions \ {s}, NEW row \in Rows, lock[row] = t
    PROVE  Locked(s, rows)[row] = t
  BY NobodyAssumption DEF Locked, Available

\* Expiring and trimming: more rows marked, and fewer of them open.
LEMMA MarkStep ==
    ASSUME ConversationInv, NEW s \in Sessions, pc[s] # "idle",
           NEW rows, NEW left, NEW next \in {"listed", "read"}, NEW ms \in Marks,
           rows \subseteq Turn, left \subseteq Turn,
           \A a \in left \cup DOMAIN ms : action[a] # None,
           \A a \in rows : Available(s, a), lock' = Locked(s, rows),
           marks' = [marks EXCEPT ![s] = ms], open' = [open EXCEPT ![s] = left],
           pc' = [pc EXCEPT ![s] = next], UNCHANGED <<now, turn, tables, msg, held>>
    PROVE  ConversationInv'
<1>1. ConversationTypeOK'
  BY DEF ConversationInv, ConversationTypeOK, LockTypeOK, Locked, tables
<1>2. /\ open'[s] = left /\ marks'[s] = ms /\ pc'[s] = next /\ msg'[s] = msg[s]
      /\ \A t \in Sessions \ {s} :
           /\ pc'[t] = pc[t] /\ msg'[t] = msg[t] /\ open'[t] = open[t]
           /\ held'[t] = held[t] /\ marks'[t] = marks[t]
  BY DEF ConversationInv, ConversationTypeOK
<1>3. \A a \in open'[s] \cup DOMAIN marks'[s] : action[a] # None
  BY <1>2
<1>4. msg[s] \in Message /\ (msg[s].target # 0 => action[msg[s].target] # None)
  BY DEF ConversationInv, Known
<1>5. \A t \in Sessions \ {s}, row \in Rows : lock[row] = t => lock'[row] = t
  BY LockedKeeps
<1>6. pc'[s] \notin {"held", "naming", "settle"}
  BY <1>2
<1> QED
  BY <1>1, <1>2, <1>3, <1>4, <1>5, <1>6, ReadingStep

LEMMA ReadStep ==
    ASSUME ConversationInv, NEW s \in Sessions, Read(s)
    PROVE  ConversationInv'
<1> DEFINE live == {a \in Turn : IsOpen(a)} \ Expired(s)
           ms == [a \in Expired(s) |-> "expired"]
           next == IF Surplus(live) = {} THEN "read" ELSE "listed"
<1>1. /\ pc[s] = "new" /\ \A a \in Expired(s) : Available(s, a)
      /\ lock' = Locked(s, Expired(s))
      /\ marks' = [marks EXCEPT ![s] = ms] /\ open' = [open EXCEPT ![s] = live]
      /\ pc' = [pc EXCEPT ![s] = next] /\ UNCHANGED <<now, turn, tables, msg, held>>
  BY DEF Read
<1>2. /\ live \subseteq Turn /\ Expired(s) \subseteq Turn
      /\ \A a \in live \cup Expired(s) : action[a] # None
  BY NoneIsNoAction DEF IsOpen, Expired
<1>3. ms \in Marks /\ DOMAIN ms = Expired(s) /\ next \in {"listed", "read"}
  BY <1>2 DEF Marks
<1> HIDE DEF live, ms, next
<1> QED
  BY <1>1, <1>2, <1>3, MarkStep

LEMMA TrimStep ==
    ASSUME ConversationInv, NEW s \in Sessions, Trim(s)
    PROVE  ConversationInv'
<1> DEFINE old == Surplus(open[s])
           both == DOMAIN marks[s] \cup old
           ms == [a \in both |-> IF a \in old THEN "cancelled" ELSE marks[s][a]]
           left == open[s] \ old
<1>1. /\ pc[s] = "listed" /\ \A a \in old : Available(s, a)
      /\ lock' = Locked(s, old)
      /\ marks' = [marks EXCEPT ![s] = ms] /\ open' = [open EXCEPT ![s] = left]
      /\ pc' = [pc EXCEPT ![s] = "read"] /\ UNCHANGED <<now, turn, tables, msg, held>>
  BY DEF Trim
<1>2. old \subseteq open[s]
  BY DEF Surplus
<1>3. /\ open[s] \subseteq Turn /\ marks[s] \in Marks
      /\ \A a \in open[s] \cup DOMAIN marks[s] : action[a] # None
  BY DEF ConversationInv, ConversationTypeOK, Known
<1>4. /\ DOMAIN marks[s] \subseteq Turn
      /\ \A a \in DOMAIN marks[s] : marks[s][a] \in {"cancelled", "expired"}
  BY <1>3 DEF Marks
<1> HIDE DEF old
<1>5. ms \in [both -> {"cancelled", "expired"}] /\ both \in SUBSET Turn /\ DOMAIN ms = both
  BY <1>2, <1>3, <1>4
<1>6. ms \in Marks
  BY <1>5 DEF Marks
<1>7. /\ old \subseteq Turn /\ left \subseteq Turn
      /\ \A a \in left \cup DOMAIN ms : action[a] # None
  BY <1>2, <1>3, <1>5
<1> HIDE DEF ms, both, left
<1> QED
  BY <1>1, <1>6, <1>7, MarkStep

LEMMA HoldStep ==
    ASSUME ConversationInv, NEW s \in Sessions, Hold(s)
    PROVE  ConversationInv'
<1> DEFINE h == Target(s)
           row == Marked(s, NoMarks)[h]
<1>1. /\ pc[s] = "read" /\ h # 0
      /\ held' = [held EXCEPT ![s] = [id |-> h, row |-> row]]
      /\ pc' = [pc EXCEPT ![s] = "held"] /\ UNCHANGED <<now, turn, tables, lock, msg, open, marks>>
  BY DEF Hold
<1>2. h \in Turn /\ action[h] # None
  <2>1. CASE msg[s].target = 0 /\ \E a \in Turn : open[s] = {a}
    <3>1. h \in open[s]
      BY <2>1 DEF Target
    <3> QED
      BY <3>1 DEF ConversationInv, ConversationTypeOK, Known
  <2>2. CASE ~(msg[s].target = 0 /\ \E a \in Turn : open[s] = {a})
    <3>1. h = msg[s].target
      BY <2>2 DEF Target
    <3> QED
      BY <1>1, <3>1 DEF ConversationInv, Known, Message
  <2> QED
    BY <2>1, <2>2
<1>3. DOMAIN NoMarks = {}
  BY DEF NoMarks
<1>4. Keeps(Marked(s, NoMarks), asked, {})
  BY <1>3, CancelledKeeps DEF ConversationInv
<1> HIDE DEF h
<1>5. /\ row \in Action /\ (row.cmd # 0 => <<row.cmd, row.intent>> \in asked)
      /\ row.status = "executed" => made[h] # <<>>
      /\ Waits(row) => made[h] # <<>>
  BY <1>2, <1>4 DEF Keeps, ConversationInv, AnswersAreTrue
<1> HIDE DEF row
<1>6. ConversationTypeOK'
  BY <1>1, <1>2, <1>5 DEF ConversationInv, ConversationTypeOK, LockTypeOK, tables
<1>7. /\ pc'[s] = "held" /\ held'[s] = [id |-> h, row |-> row]
      /\ msg' = msg /\ open' = open /\ marks' = marks /\ UNCHANGED tables
      /\ \A t \in Sessions \ {s} : pc'[t] = pc[t] /\ held'[t] = held[t]
  BY <1>1 DEF ConversationInv, ConversationTypeOK
<1>8. /\ msg[s] \in Message /\ (msg[s].target # 0 => action[msg[s].target] # None)
      /\ \A a \in open[s] \cup DOMAIN marks[s] : action[a] # None
  BY <1>1 DEF ConversationInv, Known
<1>9. lock' = lock
  BY <1>1
<1> QED
  BY <1>2, <1>5, <1>6, <1>7, <1>8, <1>9, ReadingStep

\* No goal of the name stands, and none of this action can come now.
LEMMA CheckNameStep ==
    ASSUME ConversationInv, NEW s \in Sessions, CheckName(s)
    PROVE  ConversationInv'
<1> DEFINE h == held[s].id
<1>1. /\ pc[s] = "held" /\ held[s].row.status = "awaiting_confirmation"
      /\ held[s].row.intent \in Goals /\ Standing(h, held[s].row.cmd) = {}
      /\ \A a \in {h} : Available(s, a)
      /\ lock' = Locked(s, {h}) /\ pc' = [pc EXCEPT ![s] = "naming"]
      /\ UNCHANGED <<now, turn, tables, msg, open, held, marks>>
  BY DEF CheckName, Confirms, Holding, CanWrite
<1>2. /\ h \in Turn /\ held[s].row \in Action /\ action[h] # None
      /\ held[s].row.cmd # 0 => <<held[s].row.cmd, held[s].row.intent>> \in asked
      /\ Waits(held[s].row) => made[h] # <<>>
  BY <1>1 DEF ConversationInv, Known, KeysAsked
<1>3. /\ msg[s] \in Message /\ (msg[s].target # 0 => action[msg[s].target] # None)
      /\ \A a \in open[s] \cup DOMAIN marks[s] : action[a] # None
  BY <1>1 DEF ConversationInv, Known
<1>4. h \in Rows /\ lock'[h] = s
  BY <1>1, <1>2, ConversationsAssumption DEF Locked
<1>5. \A t \in Sessions \ {s}, row \in Rows : lock[row] = t => lock'[row] = t
  BY <1>1, LockedKeeps
<1>6. ConversationTypeOK'
  BY <1>1 DEF ConversationInv, ConversationTypeOK, LockTypeOK, Locked, tables
<1>7. pc'[s] = "naming" /\ \A t \in Sessions \ {s} : pc'[t] = pc[t]
  BY <1>1 DEF ConversationInv, ConversationTypeOK
<1> QED
  BY <1>1, <1>2, <1>3, <1>4, <1>5, <1>6, <1>7, ReadingStep

-----------------------------------------------------------------------------
(* The user's edits of goals *)

\* A goal that goes stands no longer, and nothing new does.
LEMMA RenameStep ==
    ASSUME ConversationInv, RenameGoal
    PROVE  ConversationInv'
<1>1. PICK a \in Turn : \E i \in DOMAIN made[a] :
        /\ made[a][i].intent \in Goals /\ ~made[a][i].gone
        /\ made' = [made EXCEPT ![a][i].gone = TRUE]
  BY DEF RenameGoal
<1>2. PICK i \in DOMAIN made[a] :
        ~made[a][i].gone /\ made' = [made EXCEPT ![a][i].gone = TRUE]
  BY <1>1
<1> DEFINE old == made[a]
           o == [old[i] EXCEPT !.gone = TRUE]
           new == [old EXCEPT ![i] = o]
<1>3. made \in [Turn -> Seq(Operation)] /\ old \in Seq(Operation)
  BY DEF ConversationInv, ConversationTypeOK
<1>3b. old[i] \in Operation /\ 1 \in DOMAIN old
  BY <1>3
<1>4. /\ o \in Operation /\ o.cmd = old[i].cmd /\ o.intent = old[i].intent /\ o.gone = TRUE
  BY <1>3b DEF Operation
<1>5. made' = [made EXCEPT ![a] = new]
  BY <1>2, <1>3
<1> HIDE DEF o
<1>6. /\ new \in Seq(Operation) /\ DOMAIN new = DOMAIN old /\ new[i] = o
      /\ \A j \in DOMAIN old : j # i => new[j] = old[j]
  BY <1>3, <1>4
<1>7. OnceEach(old)
  BY DEF ConversationInv, OncePerQuestion, OnceEach
<1>8. new # <<>>
  BY <1>2, <1>6
<1>9. OnceEach(new)
  <2>1. \A j \in DOMAIN old : new[j].cmd = old[j].cmd /\ new[j].intent = old[j].intent
    BY <1>4, <1>6
  <2>2. new[1].cmd # 0
    BY <1>3b, <1>7, <2>1 DEF OnceEach
  <2>3. ASSUME NEW j \in DOMAIN new, new[j].cmd # 0, ~new[j].gone,
               NEW k \in DOMAIN new, new[k] = new[j]
        PROVE  k = j
    BY <1>4, <1>6, <1>7, <2>3 DEF OnceEach
  <2> QED
    BY <1>6, <1>7, <2>1, <2>2, <2>3 DEF OnceEach
<1> HIDE DEF new
<1>10. /\ made' \in [Turn -> Seq(Operation)] /\ made'[a] = new
       /\ \A b \in Turn : b # a => made'[b] = made[b]
  BY <1>3, <1>5, <1>6
<1>11. MadeGrows
  BY <1>8, <1>10 DEF MadeGrows
<1>12. \A b \in Turn : OnceEach(made[b])
  BY DEF ConversationInv, OncePerQuestion, OnceEach
<1>13. /\ UNCHANGED <<now, turn, action, answered, asked, said, lock, pc, msg, open, held, marks>>
  BY DEF RenameGoal, sessionVars
<1>14. ConversationTypeOK'
  BY <1>10, <1>13 DEF ConversationInv, ConversationTypeOK, LockTypeOK
<1>15. Known' /\ KeysAsked' /\ Done' /\ AnswersAreTrue'
  BY <1>11, <1>13 DEF ConversationInv, Known, KeysAsked, Done, AnswersAreTrue, MadeGrows, Waits
<1>16. OncePerQuestion'
  <2>1. \A b \in Turn : OnceEach(made'[b])
    BY <1>9, <1>10, <1>12
  <2> QED
    BY <1>13, <2>1, OnceEachAlways
<1>17. Naming'
  <2>1. ASSUME NEW b \in Turn, NEW k, Standing(b, k) = {}
        PROVE  Standing(b, k)' = {}
    <3>1. CASE b # a
      BY <1>10, <2>1, <3>1 DEF Standing
    <3>2. CASE b = a
      BY <1>4, <1>6, <1>10, <2>1, <3>2 DEF Standing
    <3> QED
      BY <3>1, <3>2
  <2>2. \A t \in Sessions : pc[t] = "naming" => held[t].id \in Turn
    BY DEF ConversationInv, Known
  <2> QED
    BY <1>13, <2>1, <2>2 DEF ConversationInv, Naming
<1> QED
  BY <1>14, <1>15, <1>16, <1>17 DEF ConversationInv

-----------------------------------------------------------------------------
(* Messages and answers, one action at a time *)

LEMMA AnsweringStep ==
    ASSUME ConversationInv, NEW s \in Sessions,
           CancelAll(s) \/ Pick(s) \/ Closed(s) \/ CancelOne(s) \/ NotUnderstood(s)
    PROVE  ConversationInv'
<1>1. CASE CancelAll(s)
  <2> DEFINE as == AllOpen \ DOMAIN marks[s]
  <2>1. as \subseteq Turn /\ \A a \in as : action[a] # None
    BY OpenIsSome
  <2> HIDE DEF as
  <2>2. /\ pc[s] # "idle" /\ Answer(s, Cancelling(as)) /\ UNCHANGED <<asked, made>>
        /\ said' = said \cup (as \X {"unsaved"})
    BY <1>1 DEF CancelAll, as
  <2> QED
    BY <2>1, <2>2, CancellingOpen, AnswerQuiet DEF ConversationInv, ConversationTypeOK
<1>2. CASE Pick(s)
  <2> DEFINE as == open[s] \ Numbered(s)
  <2>1. /\ pc[s] # "idle" /\ Answer(s, Cancelling(as))
        /\ UNCHANGED <<asked, made, said>>
    BY <1>2 DEF Pick, Silent
  <2>2. \A a \in open[s] : action[a] # None
    BY DEF ConversationInv, Known
  <2>3. said' \subseteq Turn \X {"done", "already", "unsaved"} /\ said' = said
    BY <2>1 DEF ConversationInv, ConversationTypeOK
  <2> HIDE DEF as
  <2>4. \A a \in DOMAIN Cancelling(as) : a \in Turn => action[a] # None /\ Cancelling(as)[a] = "cancelled"
    BY <2>2, CancellingOpen DEF as
  <2> QED
    BY <2>1, <2>3, <2>4, AnswerQuiet
<1>3. CASE Closed(s)
  <2>1. DOMAIN NoMarks = {}
    BY DEF NoMarks
  <2>2. held[s].id \in Turn /\ (held[s].row.status = "executed" => made[held[s].id] # <<>>)
    BY <1>3 DEF Closed, ConversationInv, Known, Done
  <2>3. /\ said' \subseteq Turn \X {"done", "already", "unsaved"}
        /\ \A a \in Turn :
             /\ <<a, "done">> \in said' => <<a, "done">> \in said
             /\ <<a, "already">> \in said' => <<a, "already">> \in said \/ made[a] # <<>>
    BY <1>3, <2>2 DEF Closed, ConversationInv, ConversationTypeOK
  <2>4. pc[s] # "idle" /\ Answer(s, NoMarks) /\ UNCHANGED <<asked, made>>
    BY <1>3 DEF Closed
  <2> QED
    BY <2>1, <2>3, <2>4, AnswerQuiet
<1>4. CASE CancelOne(s)
  <2>1. held[s].id \in Turn /\ action[held[s].id] # None
    BY <1>4 DEF CancelOne, ConversationInv, Known
  <2>2. /\ pc[s] # "idle" /\ Answer(s, Cancelling({held[s].id})) /\ UNCHANGED <<asked, made>>
        /\ said' = said \cup {<<held[s].id, "unsaved">>}
    BY <1>4 DEF CancelOne
  <2>3. /\ said' \subseteq Turn \X {"done", "already", "unsaved"}
        /\ \A a \in Turn :
             /\ <<a, "done">> \in said' => <<a, "done">> \in said
             /\ <<a, "already">> \in said' => <<a, "already">> \in said
    BY <2>1, <2>2 DEF ConversationInv, ConversationTypeOK
  <2>4. \A a \in {held[s].id} : action[a] # None
    BY <2>1
  <2> QED
    BY <2>2, <2>3, <2>4, CancellingOpen, AnswerQuiet
<1>5. CASE NotUnderstood(s)
  BY <1>5, AnswerOnly DEF NotUnderstood, Holding
<1> QED
  BY <1>1, <1>2, <1>3, <1>4, <1>5

LEMMA UnderstandStep ==
    ASSUME ConversationInv, NEW s \in Sessions, Understand(s)
    PROVE  ConversationInv'
<1>1. pc[s] # "idle"
  BY DEF Understand
<1>2. CASE Answer(s, NoMarks) /\ Silent
  BY <1>1, <1>2, AnswerOnly
<1>3. ASSUME NEW i \in Intents, NEW complete \in BOOLEAN, Replace(s, i, complete)
      PROVE  ConversationInv'
  BY <1>1, <1>3, ReplaceStep
<1>4. ASSUME NEW i \in Intents, NEW complete \in BOOLEAN, ProposeNew(s, i, complete, NoMarks)
      PROVE  ConversationInv'
  <2>1. DOMAIN NoMarks = {}
    BY DEF NoMarks
  <2> QED
    BY <1>1, <1>4, <2>1, ProposeNewStep
<1> QED
  BY <1>2, <1>3, <1>4 DEF Understand

LEMMA ClarifyStep ==
    ASSUME ConversationInv, NEW s \in Sessions, Clarify(s)
    PROVE  ConversationInv'
<1>1. /\ pc[s] = "held" /\ held[s].row.intent \in Intents
      /\ held[s].id \in Turn /\ action[held[s].id] # None
  BY DEF Clarify, Holding, ConversationInv, Known, Action
<1>2. \A i \in Intents : Promoted(i) \subseteq Intents
  BY ConversationsAssumption DEF Promoted
<1>2a. ASSUME NEW i \in Intents, NEW complete \in BOOLEAN, ProposeAgain(s, i, complete)
      PROVE  ConversationInv'
  BY <1>1, <1>2a, ProposeAgainStep
<1>3. ASSUME NEW i \in Intents, NEW complete \in BOOLEAN,
             ProposeNew(s, i, complete, Cancelling({held[s].id}))
      PROVE  ConversationInv'
  BY <1>1, <1>3, CancellingOpen, ProposeNewStep
<1>4. ASSUME NEW i \in Intents, NEW complete \in BOOLEAN, Replace(s, i, complete)
      PROVE  ConversationInv'
  BY <1>1, <1>4, ReplaceStep
<1> QED
  BY <1>1, <1>2, <1>2a, <1>3, <1>4 DEF Clarify

LEMMA ConversationInvStep == ConversationInv /\ [Next]_vars => ConversationInv'
<1> SUFFICES ASSUME ConversationInv, [Next]_vars
             PROVE  ConversationInv'
  OBVIOUS
<1>1. ASSUME NEW s \in Sessions, SessionStep(s)
      PROVE  ConversationInv'
  <2>1. CASE Begin(s) \/ Redeliver(s)
    BY <2>1, BeginStep
  <2>2. CASE Duplicate(s) \/ Fail(s)
    BY <2>2, EndStep DEF Duplicate, Fail
  <2>3. CASE Read(s) \/ Trim(s) \/ Hold(s) \/ CheckName(s)
    BY <2>3, ReadStep, TrimStep, HoldStep, CheckNameStep
  <2>4. CASE Execute(s) \/ CreateGoal(s) \/ ExecuteCash(s) \/ Settle(s)
    BY <2>4, ExecuteStep, CreateGoalStep, ExecuteCashStep, SettleStep
  <2>5. CASE Understand(s) \/ Clarify(s)
    BY <2>5, UnderstandStep, ClarifyStep
  <2>6. CASE CancelAll(s) \/ Pick(s) \/ Closed(s) \/ CancelOne(s) \/ NotUnderstood(s)
    BY <2>6, AnsweringStep
  <2> QED
    BY <1>1, <2>1, <2>2, <2>3, <2>4, <2>5, <2>6 DEF SessionStep
<1>2. CASE Tick \/ UNCHANGED vars
  <2>1. UNCHANGED <<turn, tables, sessionVars>> /\ now' \in 0 .. Horizon
    BY <1>2, ConversationsAssumption DEF Tick, vars, ConversationInv, ConversationTypeOK
  <2> QED
    BY <2>1 DEF tables, sessionVars, ConversationInv, ConversationTypeOK, LockTypeOK, Known,
       KeysAsked, Naming, Standing, Waits, Done, OncePerQuestion, AnswersAreTrue
<1> QED
  BY <1>1, <1>2, RenameStep DEF Next

LEMMA ConversationInvInit == Init => ConversationInv
<1> SUFFICES ASSUME Init
             PROVE  ConversationInv
  OBVIOUS
<1>1. DOMAIN NoMarks = {}
  BY DEF NoMarks
<1>2. Known /\ KeysAsked /\ Naming /\ Done
  BY <1>1 DEF Init, Known, KeysAsked, Waits, Naming, Done, None
<1>3. OncePerQuestion /\ AnswersAreTrue
  BY DEF Init, OncePerQuestion, AnswersAreTrue, None
<1> QED
  BY <1>2, <1>3, ConversationTypeInit DEF ConversationInv

LEMMA ConversationInvAlways == Spec => []ConversationInv
  BY ConversationInvInit, ConversationInvStep, PTL DEF Spec

-----------------------------------------------------------------------------
(* Theorems *)

(***************************************************************************)
(* Actions, answers and sessions keep their types under every interleaving *)
(* of messages, redeliveries and crashes.                                  *)
(***************************************************************************)
THEOREM ConversationTypeCorrect == Spec => []ConversationTypeOK
<1>1. ConversationInv => ConversationTypeOK
  BY DEF ConversationInv
<1> QED
  BY <1>1, ConversationInvAlways, PTL

(***************************************************************************)
(* Whatever is recorded for an action with a command is what the user was  *)
(* asked under that command, and it stands once: the command id suffices   *)
(* although pending actions are read without a lock and a confirmed one    *)
(* may commit in two transactions.  For a new goal, which is given no key, *)
(* this holds as long as it keeps its name; a goal renamed or deleted may  *)
(* be made again.  Of cash operations recorded without a command nothing   *)
(* is said but that they are not the first ones of their action.           *)
(***************************************************************************)
THEOREM AlwaysOncePerQuestion == Spec => []OncePerQuestion
<1>1. ConversationInv => OncePerQuestion
  BY DEF ConversationInv
<1> QED
  BY <1>1, ConversationInvAlways, PTL

(***************************************************************************)
(* No answer and no status claims an operation that is not recorded.       *)
(***************************************************************************)
THEOREM AnswersStayTrue == Spec => []AnswersAreTrue
<1>1. ConversationInv => AnswersAreTrue
  BY DEF ConversationInv
<1> QED
  BY <1>1, ConversationInvAlways, PTL

===============================================================================
