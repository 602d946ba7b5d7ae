---------------------------- MODULE SalesUpdate ----------------------------
(***************************************************************************)
(* Updating the sales of one platform.  An administrator's request takes a *)
(* flag in Redis and runs the script parse_and_save in a child process;    *)
(* the script inserts the sale items that are new, keeps the ids still to  *)
(* be looked at under a Redis key, and fetches their details chunk by      *)
(* chunk.  An operator may run update_parsed, which goes on with the ids   *)
(* under that key.                                                         *)
(*                                                                         *)
(* A request for one platform and one for all of them take different       *)
(* flags and work on the same ids.  The web server and the scripts are     *)
(* processes of their own: either may die without the other.               *)
(*                                                                         *)
(* What becomes of a request is told to the administrators as an event of  *)
(* the server: all pages that listen take their messages from one queue,   *)
(* so each message is for one of them.                                     *)
(***************************************************************************)
EXTENDS Chunks, Sequences, FiniteSets, SequencesExt

CONSTANTS
  Requests,   \* POST /products/sales/update
  Retries,    \* runs of update_parsed
  Keys,       \* flags: one per platform and one for all of them
  KeyOf,      \* the flag of each request
  Ids,        \* products on sale
  ChunkSize,  \* UPDATE_CHUNK_SIZE
  Nobody,     \* no script
  Pages,      \* GET /stream, each while one page is open
  Faults      \* what may go wrong, of FaultKinds

\* A page that cannot be parsed, the sales page itself, death of a script, of the server.
FaultKinds == {"page", "parse", "kill", "crash"}

ASSUME SalesAssumption ==
  /\ Requests \cap Retries = {}
  /\ Nobody \notin Requests \cup Retries
  /\ KeyOf \in [Requests -> Keys]
  /\ IsFiniteSet(Ids)
  /\ Requests \cap {"absent", "open", "gone"} = {}
  /\ ChunkSize \in Nat \ {0}
  /\ Faults \subseteq FaultKinds

Workers == Requests \cup Retries

VARIABLES
  task,        \* the handler and background task of each request
  flag,        \* sales_update_started:<platform>, in Redis
  dated,       \* flags whose sales_last_updated:<platform> has been set
  script,      \* progress of each script
  todo,        \* the ids each script works on, in order
  at,          \* the chunk each script has come to
  saved,       \* ids under parsed_xbox or parsed_psn, in Redis
  known,       \* ids in the table of products
  detailed,    \* ids whose details have been fetched
  unreadable,  \* ids whose page could not be parsed at the last attempt
  writer,      \* the script that last wrote saved (history)
  torn,        \* saved was cleared and has not been filled again (history)
  queue,       \* outcomes no page has taken yet, in the memory of the server
  page,        \* "absent", "open", "gone", or the outcome that is being sent to it
  seen,        \* requests whose outcome has reached a page (history)
  missed       \* requests whose outcome was on its way to a page that was closed (history)

pageVars   == <<queue, page, seen, missed>>
taskVars   == <<task, flag, dated, pageVars>>
listVars   == <<saved, writer, torn>>
scriptVars == <<script, todo, at>>
tableVars  == <<known, detailed, unreadable>>
vars       == <<taskVars, listVars, scriptVars, tableVars>>

InTry    == {"running", "dated", "cleanup"}
Busy     == InTry \cup {"accepted", "starting", "asserted", "telling"}
Alive    == {"parsing", "clearing", "pushing", "updating"}

TypeOK ==
  /\ task \in [Requests -> Busy \cup {"idle", "conflict", "told", "lost"}]
  /\ flag \in [Keys -> BOOLEAN]
  /\ dated \subseteq Keys
  /\ script \in [Workers -> Alive \cup {"off", "done", "dead"}]
  /\ todo \in [Workers -> Seq(Ids)]
  /\ at \in [Workers -> Nat]
  /\ saved \subseteq known
  /\ known \subseteq Ids
  /\ detailed \subseteq known
  /\ unreadable \subseteq known \ detailed
  /\ writer \in Workers \cup {Nobody}
  /\ torn \in BOOLEAN
  /\ queue \in Seq(Requests)
  /\ page \in [Pages -> Requests \cup {"absent", "open", "gone"}]
  /\ seen \subseteq Requests /\ missed \subseteq Requests

Init ==
  /\ task = [r \in Requests |-> "idle"]
  /\ flag = [k \in Keys |-> FALSE]
  /\ dated = {}
  /\ script = [w \in Workers |-> "off"]
  /\ todo = [w \in Workers |-> <<>>]
  /\ at = [w \in Workers |-> 0]
  /\ saved = {}
  /\ known = {}
  /\ detailed = {}
  /\ unreadable = {}
  /\ writer = Nobody
  /\ torn = FALSE
  /\ queue = <<>>
  /\ page = [b \in Pages |-> "absent"]
  /\ seen = {} /\ missed = {}

-----------------------------------------------------------------------------
(***************************************************************************)
(* The web server: the handler, and the background task it leaves behind.  *)
(***************************************************************************)

Goto(r, from, to) ==
  /\ task[r] = from
  /\ task' = [task EXCEPT ![r] = to]

ServerStep == UNCHANGED <<listVars, tableVars, pageVars>>

\* The handler finds the flag set and answers 409 ...
Conflict(r) ==
  /\ flag[KeyOf[r]]
  /\ Goto(r, "idle", "conflict")
  /\ UNCHANGED <<flag, dated, scriptVars>> /\ ServerStep

\* ... or not, and answers 202; the task runs after the answer was sent.
Accept(r) ==
  /\ ~flag[KeyOf[r]]
  /\ Goto(r, "idle", "accepted")
  /\ UNCHANGED <<flag, dated, scriptVars>> /\ ServerStep

\* Mutant: the flag is set before the try.
SetFlagEarly(r) ==
  /\ ~flag[KeyOf[r]]
  /\ Goto(r, "accepted", "starting")
  /\ flag' = [flag EXCEPT ![KeyOf[r]] = TRUE]
  /\ UNCHANGED <<dated, scriptVars>> /\ ServerStep

\* update_sales asks Redis a second time.
StillFree(r) ==
  /\ ~flag[KeyOf[r]]
  /\ Goto(r, "accepted", "starting")
  /\ UNCHANGED <<flag, dated, scriptVars>> /\ ServerStep

\* The assertion fails; bg_task catches that as any exception.
AssertFails(r) ==
  /\ flag[KeyOf[r]]
  /\ Goto(r, "accepted", "asserted")
  /\ UNCHANGED <<flag, dated, scriptVars>> /\ ServerStep

\* The flag is set, the child process started.
StartScript(r) ==
  /\ Goto(r, "starting", "running")
  /\ flag' = [flag EXCEPT ![KeyOf[r]] = TRUE]
  /\ script' = [script EXCEPT ![r] = "parsing"]
  /\ UNCHANGED <<dated, todo, at>> /\ ServerStep

\* Mutant: run_process(check=False).
AnyExitSucceeds(r) ==
  /\ script[r] \in {"done", "dead"}
  /\ Goto(r, "running", "dated")
  /\ dated' = dated \cup {KeyOf[r]}
  /\ UNCHANGED <<flag, scriptVars>> /\ ServerStep

\* The exit status was 0: the date is set, then the flag deleted.
ScriptSucceeded(r) ==
  /\ script[r] = "done"
  /\ Goto(r, "running", "dated")
  /\ dated' = dated \cup {KeyOf[r]}
  /\ UNCHANGED <<flag, scriptVars>> /\ ServerStep

\* Any other exit status raises CalledProcessError.
ScriptFailed(r) ==
  /\ script[r] = "dead"
  /\ Goto(r, "running", "cleanup")
  /\ UNCHANGED <<flag, dated, scriptVars>> /\ ServerStep

DeleteFlag(r) ==
  /\ Goto(r, "dated", "cleanup")
  /\ flag' = [flag EXCEPT ![KeyOf[r]] = FALSE]
  /\ UNCHANGED <<dated, scriptVars>> /\ ServerStep

\* Mutant: no finally.
LeaveFlag(r) ==
  /\ Goto(r, "cleanup", "telling")
  /\ UNCHANGED <<flag, dated, scriptVars>> /\ ServerStep

\* finally: deleted again, whoever has set it since.
DeleteFlagFinally(r) ==
  /\ Goto(r, "cleanup", "telling")
  /\ flag' = [flag EXCEPT ![KeyOf[r]] = FALSE]
  /\ UNCHANGED <<dated, scriptVars>> /\ ServerStep

\* Mutant: what nobody waits for is dropped.
SendIfAwaited(r) ==
  /\ queue' = IF \E b \in Pages : page[b] = "open" THEN Append(queue, r) ELSE queue
  /\ UNCHANGED <<page, seen, missed>>

\* send_message.
SendMessage(r) ==
  /\ queue' = Append(queue, r)
  /\ UNCHANGED <<page, seen, missed>>

\* The administrators are sent a message, of success or of failure.
TellOutcome(r) ==
  /\ Goto(r, "telling", "told") \/ Goto(r, "asserted", "told")
  /\ SendMessage(r)
  /\ UNCHANGED <<flag, dated, scriptVars, listVars, tableVars>>

TaskStep(r) ==
  \/ StillFree(r)  \/ AssertFails(r)     \/ StartScript(r) \/ ScriptSucceeded(r)
  \/ ScriptFailed(r) \/ DeleteFlag(r)    \/ DeleteFlagFinally(r) \/ TellOutcome(r)

\* The server dies and is started again: its tasks are gone, Redis stays as it is.
Crash ==
  /\ "crash" \in Faults
  /\ \E r \in Requests : task[r] \in Busy
  /\ task' = [r \in Requests |-> IF task[r] \in Busy THEN "lost" ELSE task[r]]
  /\ queue' = <<>>
  /\ page' = [b \in Pages |-> IF page[b] = "absent" THEN "absent" ELSE "gone"]
  /\ UNCHANGED <<flag, dated, seen, missed, scriptVars, listVars, tableVars>>

-----------------------------------------------------------------------------
(***************************************************************************)
(* Pages that listen: message_stream and message_queue_consumer.           *)
(***************************************************************************)

PageStep == UNCHANGED <<task, flag, dated, scriptVars, listVars, tableVars>>

Sending(b) == page[b] \in Requests

OpenPage(b) ==
  /\ page[b] = "absent"
  /\ page' = [page EXCEPT ![b] = "open"]
  /\ UNCHANGED <<queue, seen, missed>> /\ PageStep

\* A consumer that waits gets the oldest message, which no other gets.
TakeMessage(b) ==
  /\ page[b] = "open" /\ queue # <<>>
  /\ page' = [page EXCEPT ![b] = Head(queue)]
  /\ queue' = Tail(queue)
  /\ UNCHANGED <<seen, missed>> /\ PageStep

\* The event is written to the page; the consumer waits again.
ShowMessage(b) ==
  /\ Sending(b)
  /\ seen' = seen \cup {page[b]}
  /\ page' = [page EXCEPT ![b] = "open"]
  /\ UNCHANGED <<queue, missed>> /\ PageStep

\* The page is closed, and its consumer cancelled wherever it is.
ClosePage(b) ==
  /\ page[b] = "open" \/ Sending(b)
  /\ missed' = IF Sending(b) THEN missed \cup {page[b]} ELSE missed
  /\ page' = [page EXCEPT ![b] = "gone"]
  /\ UNCHANGED <<queue, seen>> /\ PageStep

-----------------------------------------------------------------------------
(***************************************************************************)
(* The scripts.                                                            *)
(***************************************************************************)

IdsAt(w, P) == {todo[w][p] : p \in P \cap DOMAIN todo[w]}

\* The order of the ids is that of get_urls_mapping, which asks for none.
Order(w, ids) == \E order \in SetToSeqs(ids) : todo' = [todo EXCEPT ![w] = order]

\* ids[UPDATE_CHUNK_SIZE * i :]
Rest(w) == IdsAt(w, {p \in DOMAIN todo[w] : p > ChunkSize * at[w]})

CurrentChunk(w) == IdsAt(w, Chunk(at[w], Len(todo[w]), ChunkSize))

\* To the next chunk, if there is one.
Advance(w) ==
  /\ at' = [at EXCEPT ![w] = @ + 1]
  /\ script' = [script EXCEPT ![w] =
       IF at[w] < ChunkCount(Len(todo[w]), ChunkSize) THEN "updating" ELSE "done"]
  /\ UNCHANGED todo

Die(w) ==
  /\ script' = [script EXCEPT ![w] = "dead"]
  /\ UNCHANGED <<todo, at>>

\* Mutant: the ids are returned although their unit of work was rolled back.
ParseUncommitted(w) ==
  /\ script[w] = "parsing"
  /\ \E new \in SUBSET (Ids \ known) : Order(w, new)
  /\ script' = [script EXCEPT ![w] = "clearing"]
  /\ UNCHANGED <<taskVars, listVars, at, tableVars>>

\* parse_and_save_*: the items that were not in the table are inserted in one unit of work.
ParseAndSave(w) ==
  /\ script[w] = "parsing"
  /\ \E new \in SUBSET (Ids \ known) :
       /\ known' = known \cup new
       /\ Order(w, new)
  /\ script' = [script EXCEPT ![w] = "clearing"]
  /\ UNCHANGED <<taskVars, listVars, at, detailed, unreadable>>

ParseFails(w) ==
  /\ "parse" \in Faults
  /\ script[w] = "parsing"
  /\ Die(w)
  /\ UNCHANGED <<taskVars, listVars, tableVars>>

\* update_parsed: lrange of the key.
ResumeSaved(w) ==
  /\ w \in Retries
  /\ script[w] = "off"
  /\ saved # {}
  /\ Order(w, saved)
  /\ at' = [at EXCEPT ![w] = 1]
  /\ script' = [script EXCEPT ![w] = "updating"]
  /\ UNCHANGED <<taskVars, listVars, tableVars>>

\* save_unprocessed_ids: DEL, ...
ClearSaved(w) ==
  /\ script[w] = "clearing"
  /\ saved' = {}
  /\ writer' = w
  /\ torn' = (Rest(w) # {})
  /\ IF Rest(w) = {} THEN Advance(w)
     ELSE script' = [script EXCEPT ![w] = "pushing"] /\ UNCHANGED <<todo, at>>
  /\ UNCHANGED <<taskVars, tableVars>>

\* Mutant: the chunk just done is counted from 0 where the slice counts from 1.
PushNextRest(w) ==
  /\ script[w] = "pushing"
  /\ saved' = saved \cup IdsAt(w, {p \in DOMAIN todo[w] : p > ChunkSize * (at[w] + 1)})
  /\ writer' = w
  /\ torn' = FALSE
  /\ Advance(w)
  /\ UNCHANGED <<taskVars, tableVars>>

\* ... then LPUSH, as a command of its own.
PushRest(w) ==
  /\ script[w] = "pushing"
  /\ saved' = saved \cup Rest(w)
  /\ writer' = w
  /\ torn' = FALSE
  /\ Advance(w)
  /\ UNCHANGED <<taskVars, tableVars>>

\* _update_parsed_details: pages that cannot be parsed are skipped, the rest of the
\* chunk is written in one unit of work.
UpdateChunk(w) ==
  /\ script[w] = "updating"
  /\ \E rows \in SUBSET CurrentChunk(w) :
       /\ "page" \in Faults \/ rows = CurrentChunk(w)
       /\ rows # {} \/ CurrentChunk(w) = {}
       /\ detailed' = detailed \cup rows
       /\ unreadable' = (unreadable \cup CurrentChunk(w)) \ detailed'
  /\ script' = [script EXCEPT ![w] = "clearing"]
  /\ UNCHANGED <<taskVars, listVars, todo, at, known>>

\* No page of the chunk could be parsed: update_from_rows raises ValueError.
NothingToUpdate(w) ==
  /\ "page" \in Faults
  /\ script[w] = "updating"
  /\ CurrentChunk(w) # {}
  /\ unreadable' = (unreadable \cup CurrentChunk(w)) \ detailed
  /\ Die(w)
  /\ UNCHANGED <<taskVars, listVars, known, detailed>>

ScriptStep(w) ==
  \/ ParseAndSave(w) \/ ParseFails(w)  \/ ClearSaved(w)
  \/ PushRest(w)     \/ UpdateChunk(w) \/ NothingToUpdate(w)

\* The process is killed between any two of its steps.
Kill(w) ==
  /\ "kill" \in Faults
  /\ script[w] \in Alive
  /\ Die(w)
  /\ UNCHANGED <<taskVars, listVars, tableVars>>

Next ==
  \/ \E r \in Requests : Conflict(r) \/ Accept(r) \/ TaskStep(r)
  \/ \E w \in Workers : ScriptStep(w) \/ ResumeSaved(w) \/ Kill(w)
  \/ \E b \in Pages : OpenPage(b) \/ TakeMessage(b) \/ ShowMessage(b) \/ ClosePage(b)
  \/ Crash

Spec == Init /\ [][Next]_vars

\* The event loop runs tasks that can go on; Redis answers; a script goes on until it
\* ends (the parsers use an httpx client, whose requests end within five seconds).
Fairness ==
  /\ \A r \in Requests : WF_vars(TaskStep(r))
  /\ \A w \in Workers : WF_vars(ScriptStep(w))
  /\ \A b \in Pages : WF_vars(TakeMessage(b) \/ ShowMessage(b))

FairSpec == Spec /\ Fairness

-----------------------------------------------------------------------------
\* A flag that is set belongs to a task that will delete it, unless the server has died
\* with that task (update_sales): no failure of a script blocks later updates.
FlagIsOwned ==
  \A k \in Keys : flag[k] =>
    \E r \in Requests : KeyOf[r] = k /\ task[r] \in InTry \cup {"lost"}

\* Ids of a script that have neither been updated nor found unreadable.
Unprocessed(w) == {todo[w][p] : p \in DOMAIN todo[w]} \ (detailed \cup unreadable)

\* A recorded date of the last update means that a script has processed all it inserted.
DateIsEarned ==
  \A k \in dated : \E r \in Requests :
    KeyOf[r] = k /\ script[r] = "done" /\ Unprocessed(r) = {}

\* save_unprocessed_ids "Saves ids of most recently parsed and saved sales which could be
\* retrieved for further processing": whenever a script stops, the ids it has not
\* processed are under the key, if no other script has written the key since and the
\* process was not killed between DEL and LPUSH.
Resumable ==
  \A w \in Workers : writer = w /\ ~torn => Unprocessed(w) \subseteq saved

\* "Ensure that sales update is not started yet before calling this function": the
\* handler's check suffices for the assertion of update_sales to hold.
StartIsExclusive ==
  \A r \in Requests : task[r] # "asserted"

\* A flag does not stay set: whatever becomes of the script, updates are possible again.
FlagIsFreed ==
  \A k \in Keys : flag[k] ~> ~flag[k]

\* If some page stays open, the outcome of every accepted request, success or failure, reaches
\* a page, unless it was on its way to one that was closed (bg_task, message_queue_consumer):
\* none is left in the queue, or overtaken for ever.
OutcomeIsSeen ==
  \A b \in Pages : <>[](page[b] \in Requests \cup {"open"}) =>
    \A r \in Requests : task[r] = "accepted" ~> r \in seen \cup missed
=============================================================================
