-------------------------------- MODULE Reminder --------------------------------
(***************************************************************************)
(* The worker that reminds the owner of a task 60, 15 and 5 minutes before *)
(* its deadline, on top of PersonalTask, whose requests run concurrently,  *)
(* and the copy of the owner's subscription it depends on.                 *)
(*                                                                         *)
(* Once a minute it goes through the windows.  For each it looks for tasks *)
(* that are due, sends a reminder, and marks it as sent.  Failures of any  *)
(* of the three are only logged.  The ticker keeps one tick while the      *)
(* worker is at work, and drops the others.                                *)
(***************************************************************************)
EXTENDS PersonalTask, Sequences

CONSTANTS
  Windows,  \* the minutes ahead, in the order they are processed: 60, 15, 5
  Expiry    \* values of expires_at

ASSUME ReminderAssumption ==
  /\ Windows \in Seq(Nat) /\ Windows # <<>>
  /\ Expiry \subseteq Nat /\ Expiry # {}

VARIABLES
  active,    \* has_subscription
  expires,   \* expires_at
  chat,      \* telegram_chat_id IS NOT NULL
  sent,      \* the windows whose column reminder_..._sent_at is set
  tick,      \* a tick waits in the ticker's channel
  worker,    \* the window the worker is at, and its next statement or call
  \* History, read by no action:
  reminded,  \* windows of which a reminder was sent
  unmarked,  \* those that were then not marked
  excused    \* windows in which the worker could not do its work

subVars == <<active, expires, chat>>
reminderVars == <<subVars, sent, tick, worker, reminded, unmarked, excused>>
vars == <<personalVars, reminderVars>>

Window == DOMAIN Windows

Resting == [step |-> "rest", window |-> 1]

TypeOK ==
  /\ PersonalTypeOK
  /\ active \in BOOLEAN /\ chat \in BOOLEAN
  /\ expires \in Expiry
  /\ sent \subseteq reminded
  /\ tick \in BOOLEAN
  /\ worker \in [step : {"rest", "find", "send", "mark"}, window : Window]
  /\ reminded \subseteq Window
  /\ unmarked \subseteq reminded
  /\ excused \subseteq Window

Init ==
  /\ PersonalInit
  /\ active = FALSE /\ chat = FALSE /\ expires \in Expiry
  /\ sent = {} /\ tick = FALSE /\ worker = Resting
  /\ reminded = {} /\ unmarked = {} /\ excused = {}

-----------------------------------------------------------------------------
(* Helpers *)

\* The condition of FindTasksDueForReminder on the task and its owner.
\* Neither admin_deleted nor user_ack is part of it.
Eligible ==
  /\ life = "present" /\ status # "completed"
  /\ active /\ now < expires /\ chat

\* t.due_date BETWEEN now + ahead - 1m AND now + ahead + 1m
Due(w) == now + Windows[w] <= due + 1 /\ due <= now + Windows[w] + 1

SentColumn_First(w) == 1

\* reminderSentCol
SentColumn(w) == w

NotYetSent_Unasked(w) == TRUE

NotYetSent(w) == SentColumn(w) \notin sent

\* Its end has passed; its beginning has.
Over(w) == due + 1 < now + Windows[w]
Begun(w) == due <= now + Windows[w] + 1

NextWindow_PastLast ==
  worker' = IF worker.window <= Len(Windows)
            THEN [step |-> "find", window |-> worker.window + 1] ELSE Resting

\* processWindow returns, and Start goes on to the next window.
NextWindow ==
  worker' = IF worker.window < Len(Windows)
            THEN [step |-> "find", window |-> worker.window + 1] ELSE Resting

Excuse(windows) == excused' = excused \cup windows

-----------------------------------------------------------------------------
(* Subscriptions *)

\* COALESCE(EXCLUDED.telegram_chat_id, ...): a chat id that is not sent does not
\* replace a known one.
KnownChat(c) == chat \/ c

\* SyncSubscription.
UpsertSubscription(a, e, c) ==
  /\ active' = a /\ expires' = e
  /\ chat' = KnownChat(c)
  /\ Excuse({w \in Window : Begun(w)})
  /\ UNCHANGED <<personalVars, sent, tick, worker, reminded, unmarked>>

-----------------------------------------------------------------------------
(* The worker *)

\* A minute passes.  If the worker has not finished by then, it is late.
Minute ==
  /\ now < MaxTime
  /\ now' = now + 1
  /\ tick' = TRUE
  /\ IF tick \/ worker # Resting
     THEN Excuse({w \in Window : due <= now' + Windows[w] + 1})
     ELSE UNCHANGED excused
  /\ UNCHANGED <<rowVars, item, req, personalHistory, subVars, sent, worker, reminded, unmarked>>

\* case <-ticker.C
StartPoll ==
  /\ tick /\ worker = Resting
  /\ tick' = FALSE
  /\ worker' = [step |-> "find", window |-> 1]
  /\ UNCHANGED <<personalVars, subVars, sent, reminded, unmarked, excused>>

FindTasksDueForReminder ==
  LET w == worker.window IN
  /\ worker.step = "find"
  /\ IF Eligible /\ Due(w) /\ NotYetSent(w)
     THEN worker' = [worker EXCEPT !.step = "send"] ELSE NextWindow
  /\ UNCHANGED <<personalVars, subVars, sent, tick, reminded, unmarked, excused>>

\* SendReminder, of the task as it was found.
SendReminder ==
  /\ worker.step = "send"
  /\ reminded' = reminded \cup {worker.window}
  /\ worker' = [worker EXCEPT !.step = "mark"]
  /\ UNCHANGED <<personalVars, subVars, sent, tick, unmarked, excused>>

\* The search or the sending fails: nothing of the window is done in this poll.
FindOrSendFails ==
  /\ worker.step \in {"find", "send"}
  /\ Excuse({worker.window})
  /\ NextWindow
  /\ UNCHANGED <<personalVars, subVars, sent, tick, reminded, unmarked>>

\* The message is out, but the gateway's answer is lost: it is not marked.
AnswerLost ==
  /\ worker.step = "send"
  /\ reminded' = reminded \cup {worker.window}
  /\ unmarked' = unmarked \cup {worker.window}
  /\ NextWindow
  /\ UNCHANGED <<personalVars, subVars, sent, tick, excused>>

MarkReminderSent ==
  /\ worker.step = "mark"
  /\ sent' = IF life = "present" THEN sent \cup {SentColumn(worker.window)} ELSE sent
  /\ NextWindow
  /\ UNCHANGED <<personalVars, subVars, tick, reminded, unmarked, excused>>

MarkFails ==
  /\ worker.step = "mark"
  /\ unmarked' = unmarked \cup {worker.window}
  /\ NextWindow
  /\ UNCHANGED <<personalVars, subVars, sent, tick, reminded, excused>>

-----------------------------------------------------------------------------

\* The process ends and starts again.
Crash ==
  /\ LoseRequests
  /\ tick' = FALSE /\ worker' = Resting
  /\ unmarked' = IF worker.step = "mark" THEN unmarked \cup {worker.window} ELSE unmarked
  /\ Excuse({w \in Window : Begun(w)})
  /\ UNCHANGED <<subVars, sent, reminded>>

\* A request.  One that changes the task makes it another case for the windows
\* that have begun.
RequestStep ==
  /\ PersonalStep
  /\ Excuse({w \in Window : rowVars' # rowVars /\ (Begun(w) \/ Begun(w)')})
  /\ UNCHANGED <<subVars, sent, tick, worker, reminded, unmarked>>

Next ==
  \/ RequestStep
  \/ \E a, c \in BOOLEAN, e \in Expiry : UpsertSubscription(a, e, c)
  \/ Minute
  \/ StartPoll \/ FindTasksDueForReminder
  \/ SendReminder \/ FindOrSendFails \/ AnswerLost
  \/ MarkReminderSent \/ MarkFails
  \/ Crash

Spec == Init /\ [][Next]_vars

-----------------------------------------------------------------------------
(* Properties *)

\* A reminder is sent a second time only if it was not marked the first time:
\* the gateway's answer was lost, MarkReminderSent failed, or the process
\* crashed in between.
RepeatedOnlyIfUnmarked ==
  worker.step = "send" /\ worker.window \in reminded => worker.window \in unmarked

\* Who has a subscription and an open task has been reminded in every window
\* that is over, unless in that window the worker was late or down, its search
\* or its message failed, or the task or the subscription changed.  The window
\* is two minutes wide and the worker looks once a minute: nothing slips
\* through between two polls.
RemindedUnlessExcused ==
  Eligible => \A w \in Window : Over(w) => w \in reminded \cup excused
=============================================================================
