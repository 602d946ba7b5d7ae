---------------------------- MODULE SalesProofs ----------------------------
(***************************************************************************)
(* Theorems about SalesUpdate for any sets of requests, retries, flags and *)
(* pages, any products and any chunk size.                                 *)
(***************************************************************************)
EXTENDS SalesUpdate, ChunksProofs, FiniteSetTheorems

\* The part of the state the flag depends on, and its type.
FlagInv ==
  /\ task \in [Requests -> Busy \cup {"idle", "conflict", "told", "lost"}]
  /\ flag \in [Keys -> BOOLEAN]
  /\ FlagIsOwned

\* Only the tasks of the server write the flags.
LEMMA ScriptsKeepFlags ==
  ASSUME NEW w \in Workers, ScriptStep(w) \/ ResumeSaved(w) \/ Kill(w)
  PROVE  UNCHANGED <<task, flag>>
  BY DEF ScriptStep, ResumeSaved, Kill, ParseAndSave, ParseFails, ClearSaved, PushRest,
         UpdateChunk, NothingToUpdate, taskVars

LEMMA PagesKeepFlags ==
  ASSUME NEW b \in Pages, OpenPage(b) \/ TakeMessage(b) \/ ShowMessage(b) \/ ClosePage(b)
  PROVE  UNCHANGED <<task, flag, dated, scriptVars, listVars, tableVars>>
  BY DEF OpenPage, TakeMessage, ShowMessage, ClosePage, PageStep

\* A task in its try block stays there until it has deleted the flag.
LEMMA TasksKeepFlagInv ==
  ASSUME SalesAssumption, FlagInv, NEW r \in Requests,
         Conflict(r) \/ Accept(r) \/ TaskStep(r)
  PROVE  FlagInv'
  <1> USE DEF FlagInv, FlagIsOwned, Goto, InTry, Busy
  <1>0. KeyOf[r] \in Keys
    BY DEF SalesAssumption
  <1>1. CASE Conflict(r)
    BY <1>1 DEF Conflict
  <1>2. CASE Accept(r)
    BY <1>2 DEF Accept
  <1>3. CASE StillFree(r)
    BY <1>3 DEF StillFree
  <1>4. CASE AssertFails(r)
    BY <1>4 DEF AssertFails
  <1>5. CASE StartScript(r)
    <2>1. task' = [task EXCEPT ![r] = "running"] /\ flag' = [flag EXCEPT ![KeyOf[r]] = TRUE]
      BY <1>5 DEF StartScript
    <2>2. task[r] \notin InTry \cup {"lost"}
      BY <1>5 DEF StartScript
    <2>3. ASSUME NEW k \in Keys, flag'[k]
          PROVE  \E q \in Requests : KeyOf[q] = k /\ task'[q] \in InTry \cup {"lost"}
      <3>1. CASE k = KeyOf[r]
        BY <2>1, <3>1
      <3>2. CASE k # KeyOf[r]
        BY <2>1, <2>2, <2>3, <3>2
      <3>3. QED
        BY <3>1, <3>2
    <2>4. QED
      BY <1>0, <2>1, <2>3
  <1>6. CASE ScriptSucceeded(r)
    BY <1>6 DEF ScriptSucceeded
  <1>7. CASE ScriptFailed(r)
    BY <1>7 DEF ScriptFailed
  <1>8. CASE DeleteFlag(r)
    BY <1>0, <1>8 DEF DeleteFlag
  <1>9. CASE DeleteFlagFinally(r)
    BY <1>0, <1>9 DEF DeleteFlagFinally
  <1>10. CASE TellOutcome(r)
    BY <1>10 DEF TellOutcome
  <1>11. QED
    BY <1>1, <1>2, <1>3, <1>4, <1>5, <1>6, <1>7, <1>8, <1>9, <1>10 DEF TaskStep

\* A dead server's tasks are remembered as lost.
LEMMA CrashKeepsFlagInv ==
  ASSUME FlagInv, Crash
  PROVE  FlagInv'
  BY DEF FlagInv, FlagIsOwned, Crash, InTry, Busy

\* Whatever scripts do and however they end, a flag that is set belongs to a task that
\* will delete it or that died with the server.
THEOREM FlagsAreOwned == Spec => []FlagIsOwned
  <1>1. Init => FlagInv
    BY DEF Init, FlagInv, FlagIsOwned
  <1>2. FlagInv /\ [Next]_vars => FlagInv'
    <2> SUFFICES ASSUME FlagInv, [Next]_vars PROVE FlagInv'
      OBVIOUS
    <2>1. CASE \E r \in Requests : Conflict(r) \/ Accept(r) \/ TaskStep(r)
      BY <2>1, SalesAssumption, TasksKeepFlagInv
    <2>2. CASE \E w \in Workers : ScriptStep(w) \/ ResumeSaved(w) \/ Kill(w)
      <3>1. UNCHANGED <<task, flag>>
        BY <2>2, ScriptsKeepFlags
      <3>2. QED
        BY <3>1 DEF FlagInv, FlagIsOwned
    <2>3. CASE Crash
      BY <2>3, CrashKeepsFlagInv
    <2>4. CASE UNCHANGED vars
      BY <2>4 DEF FlagInv, FlagIsOwned, vars, taskVars
    <2>5. CASE \E b \in Pages : OpenPage(b) \/ TakeMessage(b) \/ ShowMessage(b) \/ ClosePage(b)
      <3>1. UNCHANGED <<task, flag>>
        BY <2>5, PagesKeepFlags
      <3>2. QED
        BY <3>1 DEF FlagInv, FlagIsOwned
    <2>6. QED
      BY <2>1, <2>2, <2>3, <2>4, <2>5 DEF Next
  <1>3. FlagInv => FlagIsOwned
    BY DEF FlagInv
  <1>4. QED
    BY <1>1, <1>2, <1>3, PTL DEF Spec

-----------------------------------------------------------------------------
(***************************************************************************)
(* The types, and what scripts work on.                                    *)
(***************************************************************************)

\* Scripts work on what is in the table.
WorkIsKnown == \A w \in Workers : \A p \in 1 .. Len(todo[w]) : todo[w][p] \in known

TypeInv == TypeOK /\ WorkIsKnown

LEMMA OrderFacts ==
  ASSUME SalesAssumption, NEW ids \in SUBSET Ids, NEW order \in SetToSeqs(ids)
  PROVE  /\ order \in Seq(Ids)
         /\ Len(order) <= Cardinality(Ids)
         /\ ids # {} => Len(order) # 0
         /\ \A p \in 1 .. Len(order) : order[p] \in ids
  <1>1. IsFiniteSet(ids) /\ Cardinality(ids) <= Cardinality(Ids)
    BY FS_Subset DEF SalesAssumption
  <1>2. Cardinality(ids) \in Nat /\ (ids # {} => Cardinality(ids) # 0)
    BY <1>1, FS_CardinalityType, FS_EmptySet
  <1>3. order \in [1 .. Cardinality(ids) -> ids]
    BY DEF SetToSeqs
  <1>4. order \in Seq(Ids) /\ Len(order) = Cardinality(ids)
    BY <1>2, <1>3
  <1>5. QED
    BY <1>1, <1>2, <1>3, <1>4

\* The order of a script's ids changes for that script only.
LEMMA OrderFrame ==
  ASSUME SalesAssumption, todo \in [Workers -> Seq(Ids)], NEW w \in Workers,
         NEW ids \in SUBSET Ids, Order(w, ids)
  PROVE  /\ todo' \in [Workers -> Seq(Ids)]
         /\ Len(todo'[w]) <= Cardinality(Ids)
         /\ ids # {} => Len(todo'[w]) # 0
         /\ \A p \in 1 .. Len(todo'[w]) : todo'[w][p] \in ids
         /\ \A u \in Workers \ {w} : todo'[u] = todo[u]
  <1>1. PICK order \in SetToSeqs(ids) : todo' = [todo EXCEPT ![w] = order]
    BY DEF Order
  <1>2. /\ order \in Seq(Ids) /\ Len(order) <= Cardinality(Ids)
        /\ ids # {} => Len(order) # 0
        /\ \A p \in 1 .. Len(order) : order[p] \in ids
    BY OrderFacts
  <1>3. todo'[w] = order /\ \A u \in Workers \ {w} : todo'[u] = todo[u]
    BY <1>1
  <1>4. todo' \in [Workers -> Seq(Ids)]
    BY <1>1, <1>2
  <1>5. QED
    BY <1>2, <1>3, <1>4

\* The server never touches what scripts work on; it only starts them.
LEMMA ServerFrame ==
  ASSUME \/ \E r \in Requests : Conflict(r) \/ Accept(r) \/ TaskStep(r)
         \/ \E b \in Pages : OpenPage(b) \/ TakeMessage(b) \/ ShowMessage(b) \/ ClosePage(b)
         \/ Crash \/ UNCHANGED vars
  PROVE  /\ UNCHANGED <<todo, at, saved, writer, torn, known, detailed, unreadable>>
         /\ \/ UNCHANGED script
            \/ \E r \in Requests : StartScript(r)
  BY PagesKeepFlags
     DEF Conflict, Accept, TaskStep, StillFree, AssertFails, StartScript, ScriptSucceeded, ScriptFailed,
         DeleteFlag, DeleteFlagFinally, TellOutcome, Crash, ServerStep, scriptVars, listVars,
         tableVars, vars

LEMMA ServerTypes ==
  ASSUME SalesAssumption, TypeOK,
         \/ \E r \in Requests : Conflict(r) \/ Accept(r) \/ TaskStep(r)
         \/ \E b \in Pages : OpenPage(b) \/ TakeMessage(b) \/ ShowMessage(b) \/ ClosePage(b)
         \/ Crash
  PROVE  TypeOK'
  <1>1. UNCHANGED <<todo, at, saved, writer, torn, known, detailed, unreadable>>
    BY ServerFrame
  <1>2. script' \in [Workers -> Alive \cup {"off", "done", "dead"}]
    BY ServerFrame DEF TypeOK, StartScript, Alive
  <1>3. task' \in [Requests -> Busy \cup {"idle", "conflict", "told", "lost"}]
    <2>1. CASE \E r \in Requests : Conflict(r) \/ Accept(r) \/ TaskStep(r)
      <3>1. \E r \in Requests, x \in Busy \cup {"conflict", "told"} : task' = [task EXCEPT ![r] = x]
        BY <2>1 DEF Conflict, Accept, TaskStep, StillFree, AssertFails, StartScript, ScriptSucceeded,
                    ScriptFailed, DeleteFlag, DeleteFlagFinally, TellOutcome, Goto, Busy, InTry
      <3>2. QED
        BY <3>1 DEF TypeOK
    <2>2. CASE Crash
      BY <2>2 DEF TypeOK, Crash
    <2>3. CASE \E b \in Pages : OpenPage(b) \/ TakeMessage(b) \/ ShowMessage(b) \/ ClosePage(b)
      BY <2>3, PagesKeepFlags DEF TypeOK
    <2>4. QED
      BY <2>1, <2>2, <2>3
  <1>4. flag' \in [Keys -> BOOLEAN] /\ dated' \subseteq Keys
    <2>1. CASE \E r \in Requests : Conflict(r) \/ Accept(r) \/ TaskStep(r)
      <3>1. \E r \in Requests :
              /\ \/ UNCHANGED flag
                 \/ \E x \in BOOLEAN : flag' = [flag EXCEPT ![KeyOf[r]] = x]
              /\ dated' = dated \/ dated' = dated \cup {KeyOf[r]}
        BY <2>1 DEF Conflict, Accept, TaskStep, StillFree, AssertFails, StartScript, ScriptSucceeded,
                    ScriptFailed, DeleteFlag, DeleteFlagFinally, TellOutcome
      <3>2. \A r \in Requests : KeyOf[r] \in Keys
        BY DEF SalesAssumption
      <3>3. QED
        BY <3>1, <3>2 DEF TypeOK
    <2>2. CASE Crash
      BY <2>2 DEF TypeOK, Crash
    <2>3. CASE \E b \in Pages : OpenPage(b) \/ TakeMessage(b) \/ ShowMessage(b) \/ ClosePage(b)
      BY <2>3, PagesKeepFlags DEF TypeOK
    <2>4. QED
      BY <2>1, <2>2, <2>3
  <1>5. queue' \in Seq(Requests) /\ page' \in [Pages -> Requests \cup {"absent", "open", "gone"}]
    <2>1. CASE \E r \in Requests : Conflict(r) \/ Accept(r) \/ TaskStep(r)
      <3>1. UNCHANGED page /\ (UNCHANGED queue \/ \E r \in Requests : queue' = Append(queue, r))
        BY <2>1 DEF Conflict, Accept, TaskStep, StillFree, AssertFails, StartScript, ScriptSucceeded,
                    ScriptFailed, DeleteFlag, DeleteFlagFinally, TellOutcome, SendMessage, ServerStep,
                    pageVars
      <3>2. queue \in Seq(Requests) /\ page \in [Pages -> Requests \cup {"absent", "open", "gone"}]
        BY DEF TypeOK
      <3>3. \A r \in Requests : Append(queue, r) \in Seq(Requests)
        BY <3>2
      <3>4. QED
        BY <3>1, <3>2, <3>3
    <2>2. ASSUME NEW b \in Pages, OpenPage(b) \/ ShowMessage(b) \/ ClosePage(b)
          PROVE  queue' \in Seq(Requests) /\ page' \in [Pages -> Requests \cup {"absent", "open", "gone"}]
      BY <2>2 DEF TypeOK, OpenPage, ShowMessage, ClosePage
    <2>3. ASSUME NEW b \in Pages, TakeMessage(b)
          PROVE  queue' \in Seq(Requests) /\ page' \in [Pages -> Requests \cup {"absent", "open", "gone"}]
      <3>1. queue \in Seq(Requests) /\ queue # <<>>
        BY <2>3 DEF TypeOK, TakeMessage
      <3>2. Head(queue) \in Requests /\ Tail(queue) \in Seq(Requests)
        BY <3>1
      <3>3. queue' = Tail(queue) /\ page' = [page EXCEPT ![b] = Head(queue)]
        BY <2>3 DEF TakeMessage
      <3> DEFINE oldest == Head(queue)
      <3> HIDE DEF oldest
      <3>4. oldest \in Requests /\ page' = [page EXCEPT ![b] = oldest]
        BY <3>2, <3>3 DEF oldest
      <3>5. page' \in [Pages -> Requests \cup {"absent", "open", "gone"}]
        BY <3>4 DEF TypeOK
      <3>6. QED
        BY <3>2, <3>3, <3>5
    <2>4. CASE Crash
      BY <2>4 DEF TypeOK, Crash
    <2>5. QED
      BY <2>1, <2>2, <2>3, <2>4
  <1>6. seen' \subseteq Requests /\ missed' \subseteq Requests
    BY DEF TypeOK, Conflict, Accept, TaskStep, StillFree, AssertFails, StartScript, ScriptSucceeded,
           ScriptFailed, DeleteFlag, DeleteFlagFinally, TellOutcome, SendMessage, ServerStep, pageVars,
           OpenPage, TakeMessage, ShowMessage, ClosePage, Sending, Crash
  <1>7. QED
    BY <1>1, <1>2, <1>3, <1>4, <1>5, <1>6 DEF TypeOK

\* What all steps of scripts have in common.
LEMMA ScriptFrame ==
  ASSUME TypeOK, NEW w \in Workers, ScriptStep(w) \/ ResumeSaved(w) \/ Kill(w)
  PROVE  /\ UNCHANGED <<task, flag, dated, queue, page, seen, missed>>
         /\ script' \in [Workers -> Alive \cup {"off", "done", "dead"}]
         /\ at' \in [Workers -> Nat]
         /\ writer' \in {writer, w} /\ torn' \in BOOLEAN
         /\ known \subseteq known'
         /\ \A u \in Workers \ {w} : script'[u] = script[u] /\ at'[u] = at[u]
  <1>1. UNCHANGED <<task, flag, dated, queue, page, seen, missed>>
    BY DEF ScriptStep, ParseAndSave, ParseFails, ClearSaved, PushRest, UpdateChunk, NothingToUpdate,
           ResumeSaved, Kill, taskVars, pageVars
  <1>2. /\ writer' \in {writer, w} /\ torn' \in BOOLEAN
        /\ known \subseteq known'
    BY DEF TypeOK, ScriptStep, ParseAndSave, ParseFails, ClearSaved, PushRest, UpdateChunk,
           NothingToUpdate, ResumeSaved, Kill, listVars, tableVars
  <1>3. \/ UNCHANGED at
        \/ at' = [at EXCEPT ![w] = at[w] + 1]
        \/ at' = [at EXCEPT ![w] = 1]
    BY DEF ScriptStep, ParseAndSave, ParseFails, ClearSaved, PushRest, UpdateChunk, NothingToUpdate,
           ResumeSaved, Kill, Advance, Die
  <1>4. \E x \in Alive \cup {"done", "dead"} : script' = [script EXCEPT ![w] = x]
    <2>1. CASE ParseAndSave(w) \/ ResumeSaved(w) \/ UpdateChunk(w)
      BY <2>1 DEF ParseAndSave, ResumeSaved, UpdateChunk, Alive
    <2>2. CASE ParseFails(w) \/ NothingToUpdate(w) \/ Kill(w)
      BY <2>2 DEF ParseFails, NothingToUpdate, Kill, Die
    <2>3. CASE ClearSaved(w)
      BY <2>3 DEF ClearSaved, Advance, Alive
    <2>4. CASE PushRest(w)
      BY <2>4 DEF PushRest, Advance, Alive
    <2>5. QED
      BY <2>1, <2>2, <2>3, <2>4 DEF ScriptStep
  <1>5. at' \in [Workers -> Nat] /\ \A u \in Workers \ {w} : at'[u] = at[u]
    <2>1. at \in [Workers -> Nat] /\ at[w] + 1 \in Nat
      BY DEF TypeOK
    <2>2. at' = at \/ \E n \in Nat : at' = [at EXCEPT ![w] = n]
      BY <1>3, <2>1
    <2>3. QED
      BY <2>1, <2>2
  <1>6. /\ script' \in [Workers -> Alive \cup {"off", "done", "dead"}]
        /\ \A u \in Workers \ {w} : script'[u] = script[u]
    BY <1>4 DEF TypeOK
  <1>7. QED
    BY <1>1, <1>2, <1>5, <1>6

LEMMA IdsAreKnown ==
  ASSUME TypeInv, NEW w \in Workers, NEW P
  PROVE  IdsAt(w, P) \subseteq known
  <1>1. todo[w] \in Seq(Ids)
    BY DEF TypeInv, TypeOK
  <1>2. DOMAIN todo[w] = 1 .. Len(todo[w])
    BY <1>1
  <1>3. QED
    BY <1>2 DEF TypeInv, WorkIsKnown, IdsAt

\* What a script does to the ids it works on.
LEMMA ScriptTodo ==
  ASSUME SalesAssumption, TypeInv, NEW w \in Workers, ScriptStep(w) \/ ResumeSaved(w) \/ Kill(w)
  PROVE  /\ todo' \in [Workers -> Seq(Ids)]
         /\ \A p \in 1 .. Len(todo'[w]) : todo'[w][p] \in known'
         /\ \A u \in Workers \ {w} : todo'[u] = todo[u]
  <1>1. CASE ParseAndSave(w)
    <2>1. PICK new \in SUBSET (Ids \ known) : known' = known \cup new /\ Order(w, new)
      BY <1>1 DEF ParseAndSave
    <2>2. todo \in [Workers -> Seq(Ids)] /\ new \in SUBSET Ids
      BY DEF TypeInv, TypeOK
    <2>3. /\ todo' \in [Workers -> Seq(Ids)]
          /\ \A p \in 1 .. Len(todo'[w]) : todo'[w][p] \in new
          /\ \A u \in Workers \ {w} : todo'[u] = todo[u]
      BY <2>1, <2>2, OrderFrame
    <2>4. QED
      BY <2>1, <2>3
  <1>2. CASE ResumeSaved(w)
    <2>1. Order(w, saved) /\ UNCHANGED known
      BY <1>2 DEF ResumeSaved, tableVars
    <2>2. todo \in [Workers -> Seq(Ids)] /\ saved \in SUBSET Ids /\ saved \subseteq known
      BY DEF TypeInv, TypeOK
    <2>3. /\ todo' \in [Workers -> Seq(Ids)]
          /\ \A p \in 1 .. Len(todo'[w]) : todo'[w][p] \in saved
          /\ \A u \in Workers \ {w} : todo'[u] = todo[u]
      BY <2>1, <2>2, OrderFrame
    <2>4. QED
      BY <2>1, <2>2, <2>3
  <1>3. CASE ~ParseAndSave(w) /\ ~ResumeSaved(w)
    <2>1. UNCHANGED todo /\ known \subseteq known'
      BY <1>3 DEF ScriptStep, ParseFails, ClearSaved, PushRest, UpdateChunk, NothingToUpdate, Kill,
                  Advance, Die, tableVars
    <2>2. QED
      BY <2>1 DEF TypeInv, TypeOK, WorkIsKnown
  <1>4. QED
    BY <1>1, <1>2, <1>3

LEMMA ScriptTables ==
  ASSUME TypeInv, NEW w \in Workers, ScriptStep(w) \/ ResumeSaved(w) \/ Kill(w)
  PROVE  /\ known' \subseteq Ids /\ saved' \subseteq known'
         /\ detailed' \subseteq known' /\ unreadable' \subseteq known' \ detailed'
         /\ detailed \cup unreadable \subseteq detailed' \cup unreadable'
  <1>1. /\ known \subseteq Ids /\ saved \subseteq known
        /\ detailed \subseteq known /\ unreadable \subseteq known \ detailed
    BY DEF TypeInv, TypeOK
  <1>2. CurrentChunk(w) \subseteq known /\ Rest(w) \subseteq known
    BY IdsAreKnown DEF CurrentChunk, Rest
  <1>3. CASE ParseAndSave(w)
    BY <1>1, <1>3 DEF ParseAndSave, listVars
  <1>4. CASE UpdateChunk(w) \/ NothingToUpdate(w)
    BY <1>1, <1>2, <1>4 DEF UpdateChunk, NothingToUpdate, listVars
  <1>5. CASE ClearSaved(w) \/ PushRest(w)
    BY <1>1, <1>2, <1>5 DEF ClearSaved, PushRest, tableVars
  <1>6. CASE ParseFails(w) \/ ResumeSaved(w) \/ Kill(w)
    BY <1>1, <1>6 DEF ParseFails, ResumeSaved, Kill, tableVars, listVars
  <1>7. QED
    BY <1>3, <1>4, <1>5, <1>6 DEF ScriptStep

LEMMA NextTypeInv ==
  ASSUME SalesAssumption, TypeInv, [Next]_vars
  PROVE  TypeInv'
  <1>1. ASSUME NEW w \in Workers, ScriptStep(w) \/ ResumeSaved(w) \/ Kill(w)  PROVE TypeInv'
    <2>1. /\ UNCHANGED <<task, flag, dated, queue, page, seen, missed>>
          /\ script' \in [Workers -> Alive \cup {"off", "done", "dead"}]
          /\ at' \in [Workers -> Nat]
          /\ writer' \in {writer, w} /\ torn' \in BOOLEAN
          /\ known \subseteq known'
      BY <1>1, ScriptFrame DEF TypeInv
    <2>2. /\ todo' \in [Workers -> Seq(Ids)]
          /\ \A p \in 1 .. Len(todo'[w]) : todo'[w][p] \in known'
          /\ \A u \in Workers \ {w} : todo'[u] = todo[u]
      BY <1>1, ScriptTodo
    <2>3. /\ known' \subseteq Ids /\ saved' \subseteq known'
          /\ detailed' \subseteq known' /\ unreadable' \subseteq known' \ detailed'
      BY <1>1, ScriptTables
    <2>4. TypeOK'
      BY <2>1, <2>2, <2>3 DEF TypeInv, TypeOK
    <2>5. WorkIsKnown'
      BY <2>1, <2>2 DEF TypeInv, WorkIsKnown
    <2>6. QED
      BY <2>4, <2>5 DEF TypeInv
  <1>2. ASSUME \/ \E r \in Requests : Conflict(r) \/ Accept(r) \/ TaskStep(r)
               \/ \E b \in Pages : OpenPage(b) \/ TakeMessage(b) \/ ShowMessage(b) \/ ClosePage(b)
               \/ Crash
        PROVE  TypeInv'
    BY <1>2, ServerTypes, ServerFrame DEF TypeInv, WorkIsKnown
  <1>3. CASE UNCHANGED vars
    BY <1>3 DEF TypeInv, TypeOK, WorkIsKnown, vars, taskVars, pageVars, listVars, scriptVars, tableVars
  <1>4. QED
    BY <1>1, <1>2, <1>3 DEF Next

LEMMA InitTypeInv == SalesAssumption /\ Init => TypeInv
  <1> SUFFICES ASSUME SalesAssumption, Init PROVE TypeInv
    OBVIOUS
  <1>1. /\ task \in [Requests -> Busy \cup {"idle", "conflict", "told", "lost"}]
        /\ flag \in [Keys -> BOOLEAN]
        /\ script \in [Workers -> Alive \cup {"off", "done", "dead"}]
        /\ page \in [Pages -> Requests \cup {"absent", "open", "gone"}]
    BY DEF Init
  <1>2. todo \in [Workers -> Seq(Ids)] /\ at \in [Workers -> Nat] /\ queue \in Seq(Requests)
    BY DEF Init
  <1>3. WorkIsKnown
    BY DEF Init, WorkIsKnown
  <1>4. QED
    BY <1>1, <1>2, <1>3 DEF Init, TypeInv, TypeOK

\* The state is always of its type; in particular, the ids under the key and those whose
\* details are fetched or could not be read are in the table of products.
THEOREM SalesTypeOK == Spec => []TypeOK
  <1>1. Init => TypeInv
    BY InitTypeInv, SalesAssumption
  <1>2. TypeInv /\ [Next]_vars => TypeInv'
    BY NextTypeInv, SalesAssumption
  <1>3. TypeInv => TypeOK
    BY DEF TypeInv
  <1>4. QED
    BY <1>1, <1>2, <1>3, PTL DEF Spec

-----------------------------------------------------------------------------
(***************************************************************************)
(* Scripts that never have two full chunks to work on: what the chunks     *)
(* they have come to leave to do.                                          *)
(***************************************************************************)

FewIds == Cardinality(Ids) < 2 * ChunkSize

\* Position p is in one of the first k chunks.
InFirst(k, p) == k >= 2 \/ (k = 1 /\ p <= ChunkSize)

Chunks(w) == ChunkCount(Len(todo[w]), ChunkSize)

\* The ids of the first k chunks have been looked at.
LookedAt(w, k) ==
  \A p \in 1 .. Len(todo[w]) : InFirst(k, p) => todo[w][p] \in detailed \cup unreadable

\* A script has looked at the chunks before the one it has come to, and has not written the
\* key before it had ids.
WorkerInv(w) ==
  /\ Len(todo[w]) < 2 * ChunkSize
  /\ script[w] \in {"off", "parsing"} => todo[w] = <<>> /\ at[w] = 0 /\ writer # w
  /\ script[w] \in {"clearing", "pushing"} => at[w] \in 0 .. Chunks(w) /\ LookedAt(w, at[w])
  /\ script[w] = "updating" => at[w] \in 1 .. Chunks(w) /\ LookedAt(w, at[w] - 1)
  /\ script[w] = "done" => LookedAt(w, 2)

\* A script runs once for a request.
ScriptIsStartedOnce ==
  \A r \in Requests : task[r] \in {"idle", "accepted", "starting"} => script[r] = "off"

\* A date is set by a script that has ended.
DateHasScript == \A k \in dated : \E r \in Requests : KeyOf[r] = k /\ script[r] = "done"

WorkInv ==
  /\ TypeInv
  /\ \A w \in Workers : WorkerInv(w)
  /\ ScriptIsStartedOnce
  /\ DateHasScript
  /\ Resumable

\* Fewer than two full chunks: the first chunk is the first ChunkSize positions, the second
\* the others.
LEMMA ChunkIsSlice ==
  ASSUME NEW n \in Nat, NEW c \in Nat \ {0}, n < 2 * c
  PROVE  /\ ChunkCount(n, c) \in 0 .. 2
         /\ ChunkCount(n, c) = 0 => n = 0
         /\ ChunkCount(n, c) <= 1 => n < c
         /\ ChunkCount(n, c) >= 1 => \A p \in 1 .. n : p <= c => p \in Chunk(1, n, c)
         /\ ChunkCount(n, c) = 2 => \A p \in 1 .. n : p > c => p \in Chunk(2, n, c)
  <1> DEFINE q == n \div c
             m == n % c
  <1>1. q \in {0, 1} /\ m \in 0 .. (c - 1) /\ n = c * q + m
    <2>1. q \in Nat /\ m \in 0 .. (c - 1) /\ n = c * q + m
      BY DivMod
    <2> HIDE DEF q, m
    <2>2. q < 2
      BY <2>1
    <2>3. QED
      BY <2>1, <2>2
  <1>2. CASE q = 0
    BY <1>1, <1>2 DEF ChunkCount, Chunk, LastTop, FullChunks
  <1>3. CASE q = 1
    BY <1>1, <1>3 DEF ChunkCount, Chunk, LastTop, FullChunks, Top
  <1>4. QED
    BY <1>1, <1>2, <1>3

\* What a worker's invariant depends on: its own script, the rows looked at, the writer.
LEMMA WorkerFrame ==
  ASSUME NEW u \in Workers, WorkerInv(u),
         script'[u] = script[u], todo'[u] = todo[u], at'[u] = at[u],
         writer' # u \/ writer' = writer,
         detailed \cup unreadable \subseteq detailed' \cup unreadable'
  PROVE  WorkerInv(u)'
  <1>1. \A k : LookedAt(u, k) => LookedAt(u, k)'
    BY DEF LookedAt
  <1>2. Chunks(u)' = Chunks(u)
    BY DEF Chunks
  <1>3. QED
    BY <1>1, <1>2 DEF WorkerInv

\* Nothing is left of a script that has come to the end.
LEMMA AllLookedAt ==
  ASSUME SalesAssumption, TypeInv, NEW w \in Workers, WorkerInv(w),
         script[w] \in {"clearing", "pushing"}, at[w] = Chunks(w)
  PROVE  LookedAt(w, 2)
  <1>1. todo[w] \in Seq(Ids) /\ Len(todo[w]) \in Nat /\ ChunkSize \in Nat \ {0}
    BY DEF TypeInv, TypeOK, SalesAssumption
  <1>2. /\ Chunks(w) \in 0 .. 2
        /\ Chunks(w) = 0 => Len(todo[w]) = 0
        /\ Chunks(w) <= 1 => Len(todo[w]) < ChunkSize
    BY <1>1, ChunkIsSlice DEF WorkerInv, Chunks
  <1>3. LookedAt(w, Chunks(w))
    BY DEF WorkerInv
  <1>4. QED
    BY <1>1, <1>2, <1>3 DEF LookedAt, InFirst

\* Advancing goes on to a chunk or ends with every id looked at.
LEMMA AdvanceKeeps ==
  ASSUME SalesAssumption, TypeInv, NEW w \in Workers, WorkerInv(w),
         script[w] \in {"clearing", "pushing"}, Advance(w),
         UNCHANGED <<detailed, unreadable>>
  PROVE  WorkerInv(w)'
  <1>1. todo[w] \in Seq(Ids) /\ Len(todo[w]) \in Nat /\ ChunkSize \in Nat \ {0}
    BY DEF TypeInv, TypeOK, SalesAssumption
  <1>2. Chunks(w) \in 0 .. 2 /\ at[w] \in 0 .. Chunks(w) /\ LookedAt(w, at[w])
    BY <1>1, ChunkIsSlice DEF WorkerInv, Chunks
  <1>3. todo' = todo /\ at'[w] = at[w] + 1
    BY DEF Advance, TypeInv, TypeOK
  <1>4. Chunks(w)' = Chunks(w) /\ \A k : LookedAt(w, k)' = LookedAt(w, k)
    BY <1>3 DEF Chunks, LookedAt
  <1>5. script'[w] = IF at[w] < Chunks(w) THEN "updating" ELSE "done"
    BY DEF Advance, Chunks, TypeInv, TypeOK
  <1>6. CASE at[w] < Chunks(w)
    <2>1. at'[w] \in 1 .. Chunks(w)' /\ at'[w] - 1 = at[w]
      BY <1>2, <1>3, <1>4, <1>6
    <2>2. LookedAt(w, at[w] - 1)'
      BY <1>2, <1>3, <2>1 DEF LookedAt
    <2>3. QED
      BY <1>3, <1>5, <1>6, <2>1, <2>2 DEF WorkerInv
  <1>7. CASE at[w] = Chunks(w)
    <2>1. LookedAt(w, 2)'
      BY <1>4, <1>7, AllLookedAt
    <2>2. QED
      BY <1>2, <1>3, <1>5, <1>7, <2>1 DEF WorkerInv
  <1>8. QED
    BY <1>2, <1>6, <1>7

\* Looking at the current chunk.
LEMMA ChunkLookedAt ==
  ASSUME SalesAssumption, TypeInv, NEW w \in Workers, WorkerInv(w), script[w] = "updating",
         script'[w] = "clearing", todo'[w] = todo[w], at'[w] = at[w],
         detailed \cup unreadable \cup CurrentChunk(w) \subseteq detailed' \cup unreadable'
  PROVE  WorkerInv(w)'
  <1>1. todo[w] \in Seq(Ids) /\ Len(todo[w]) \in Nat /\ ChunkSize \in Nat \ {0}
    BY DEF TypeInv, TypeOK, SalesAssumption
  <1>2. /\ Chunks(w) \in 0 .. 2
        /\ at[w] \in 1 .. Chunks(w) /\ LookedAt(w, at[w] - 1)
        /\ Chunks(w) >= 1 =>
             \A p \in 1 .. Len(todo[w]) : p <= ChunkSize => p \in Chunk(1, Len(todo[w]), ChunkSize)
        /\ Chunks(w) = 2 =>
             \A p \in 1 .. Len(todo[w]) : p > ChunkSize => p \in Chunk(2, Len(todo[w]), ChunkSize)
    BY <1>1, ChunkIsSlice DEF WorkerInv, Chunks
  <1>3. \A p \in 1 .. Len(todo[w]) :
          p \in Chunk(at[w], Len(todo[w]), ChunkSize) => todo[w][p] \in detailed' \cup unreadable'
    <2>1. DOMAIN todo[w] = 1 .. Len(todo[w])
      BY <1>1
    <2>2. QED
      BY <2>1 DEF CurrentChunk, IdsAt
  <1>4. \A p \in 1 .. Len(todo[w]) :
          InFirst(at[w] - 1, p) => todo[w][p] \in detailed' \cup unreadable'
    BY <1>2 DEF LookedAt
  <1>5. \A p \in 1 .. Len(todo[w]) : InFirst(at[w], p) => todo[w][p] \in detailed' \cup unreadable'
    <2> SUFFICES ASSUME NEW p \in 1 .. Len(todo[w]), InFirst(at[w], p)
                 PROVE  todo[w][p] \in detailed' \cup unreadable'
      OBVIOUS
    <2>1. CASE at[w] = 1
      BY <1>1, <1>2, <1>3, <2>1 DEF InFirst
    <2>2. CASE at[w] = 2
      <3>1. CASE p <= ChunkSize
        BY <1>4, <2>2, <3>1 DEF InFirst
      <3>2. CASE p > ChunkSize
        BY <1>2, <1>3, <2>2, <3>2
      <3>3. QED
        BY <1>1, <3>1, <3>2
    <2>3. QED
      BY <1>2, <2>1, <2>2
  <1>6. LookedAt(w, at[w])'
    BY <1>5 DEF LookedAt
  <1>7. Chunks(w)' = Chunks(w)
    BY DEF Chunks
  <1>8. QED
    BY <1>2, <1>6, <1>7 DEF WorkerInv

\* A step of a script finds it alive, or a retry that has not begun.
LEMMA ScriptIsAlive ==
  ASSUME NEW w \in Workers, ScriptStep(w) \/ ResumeSaved(w) \/ Kill(w)
  PROVE  script[w] \in Alive \/ (w \in Retries /\ script[w] = "off")
  BY DEF ScriptStep, ParseAndSave, ParseFails, ClearSaved, PushRest, UpdateChunk, NothingToUpdate,
         ResumeSaved, Kill, Alive

\* A script keeps its own invariant ...
LEMMA OwnWorkerInv ==
  ASSUME SalesAssumption, FewIds, TypeInv, NEW w \in Workers, WorkerInv(w),
         ScriptStep(w) \/ ResumeSaved(w) \/ Kill(w)
  PROVE  WorkerInv(w)'
  <1>0. /\ todo \in [Workers -> Seq(Ids)] /\ script \in [Workers -> Alive \cup {"off", "done", "dead"}]
        /\ at \in [Workers -> Nat] /\ ChunkSize \in Nat \ {0} /\ Len(todo[w]) \in Nat
    BY DEF TypeInv, TypeOK, SalesAssumption
  <1>n. Cardinality(Ids) \in Nat
    BY FS_CardinalityType DEF SalesAssumption
  <1>1. CASE ParseAndSave(w)
    <2>1. PICK new \in SUBSET (Ids \ known) : Order(w, new)
      BY <1>1 DEF ParseAndSave
    <2>2. todo' \in [Workers -> Seq(Ids)] /\ Len(todo'[w]) <= Cardinality(Ids)
      BY <1>0, <2>1, OrderFrame
    <2>3. script'[w] = "clearing" /\ at'[w] = 0
      BY <1>0, <1>1 DEF ParseAndSave, WorkerInv
    <2>4. Len(todo'[w]) \in Nat /\ Len(todo'[w]) < 2 * ChunkSize
      BY <1>0, <1>n, <2>2 DEF FewIds
    <2>5. ChunkCount(Len(todo'[w]), ChunkSize) \in 0 .. 2
      BY <1>0, <2>4, ChunkIsSlice
    <2>6. at'[w] \in 0 .. Chunks(w)' /\ LookedAt(w, at[w])'
      BY <2>3, <2>5 DEF Chunks, LookedAt, InFirst
    <2>7. QED
      BY <2>3, <2>4, <2>6 DEF WorkerInv
  <1>2. CASE ResumeSaved(w)
    <2>1. Order(w, saved) /\ saved # {} /\ saved \in SUBSET Ids
      BY <1>2 DEF ResumeSaved, TypeInv, TypeOK
    <2>2. todo' \in [Workers -> Seq(Ids)] /\ Len(todo'[w]) <= Cardinality(Ids) /\ Len(todo'[w]) # 0
      BY <1>0, <2>1, OrderFrame
    <2>3. script'[w] = "updating" /\ at'[w] = 1
      BY <1>0, <1>2 DEF ResumeSaved
    <2>4. Len(todo'[w]) \in Nat /\ Len(todo'[w]) < 2 * ChunkSize
      BY <1>0, <1>n, <2>2 DEF FewIds
    <2>5. ChunkCount(Len(todo'[w]), ChunkSize) \in 1 .. 2
      BY <1>0, <2>2, <2>4, ChunkIsSlice
    <2>6. at'[w] \in 1 .. Chunks(w)' /\ LookedAt(w, at[w] - 1)'
      BY <2>3, <2>5 DEF Chunks, LookedAt, InFirst
    <2>7. QED
      BY <2>3, <2>4, <2>6 DEF WorkerInv
  <1>3. CASE ParseFails(w) \/ NothingToUpdate(w) \/ Kill(w)
    <2>1. script'[w] = "dead" /\ todo'[w] = todo[w]
      BY <1>0, <1>3 DEF ParseFails, NothingToUpdate, Kill, Die
    <2>2. QED
      BY <2>1 DEF WorkerInv
  <1>4. CASE UpdateChunk(w)
    BY <1>0, <1>4, ChunkLookedAt DEF UpdateChunk
  <1>5. CASE PushRest(w)
    BY <1>5, AdvanceKeeps DEF PushRest, tableVars
  <1>6. CASE ClearSaved(w) /\ Rest(w) = {}
    BY <1>6, AdvanceKeeps DEF ClearSaved, tableVars
  <1>7. CASE ClearSaved(w) /\ Rest(w) # {}
    <2>1. /\ script[w] = "clearing" /\ script'[w] = "pushing"
          /\ UNCHANGED <<todo, at, detailed, unreadable>>
      BY <1>0, <1>7 DEF ClearSaved, tableVars
    <2>2. Chunks(w)' = Chunks(w) /\ LookedAt(w, at[w])' = LookedAt(w, at[w])
      BY <2>1 DEF Chunks, LookedAt
    <2>3. QED
      BY <2>1, <2>2 DEF WorkerInv
  <1>8. QED
    BY <1>1, <1>2, <1>3, <1>4, <1>5, <1>6, <1>7 DEF ScriptStep

\* ... and those of the others.
LEMMA WorkersInv ==
  ASSUME SalesAssumption, FewIds, TypeInv, \A u \in Workers : WorkerInv(u), NEW w \in Workers,
         ScriptStep(w) \/ ResumeSaved(w) \/ Kill(w)
  PROVE  \A u \in Workers : WorkerInv(u)'
  <1>1. WorkerInv(w)'
    BY OwnWorkerInv
  <1>2. ASSUME NEW u \in Workers \ {w} PROVE WorkerInv(u)'
    <2>1. script'[u] = script[u] /\ at'[u] = at[u] /\ writer' \in {writer, w}
      BY ScriptFrame DEF TypeInv
    <2>2. todo'[u] = todo[u]
      BY ScriptTodo
    <2>3. detailed \cup unreadable \subseteq detailed' \cup unreadable'
      BY ScriptTables
    <2>4. QED
      BY <2>1, <2>2, <2>3, WorkerFrame
  <1>3. QED
    BY <1>1, <1>2

\* What a script has not looked at is in the rest it saves.
LEMMA RestIsLeft ==
  ASSUME SalesAssumption, TypeInv, NEW w \in Workers, WorkerInv(w),
         script[w] \in {"clearing", "pushing"}
  PROVE  Unprocessed(w) \subseteq Rest(w)
  <1>1. todo[w] \in Seq(Ids) /\ Len(todo[w]) \in Nat /\ ChunkSize \in Nat \ {0}
    BY DEF TypeInv, TypeOK, SalesAssumption
  <1>2. DOMAIN todo[w] = 1 .. Len(todo[w])
    BY <1>1
  <1>3. at[w] \in 0 .. 2 /\ LookedAt(w, at[w])
    BY <1>1, ChunkIsSlice DEF WorkerInv, Chunks
  <1>4. ASSUME NEW p \in 1 .. Len(todo[w]), todo[w][p] \notin detailed \cup unreadable
        PROVE  p > ChunkSize * at[w]
    <2>1. ~InFirst(at[w], p)
      BY <1>3, <1>4 DEF LookedAt
    <2>2. CASE at[w] = 0
      BY <1>1, <2>2
    <2>3. CASE at[w] = 1
      BY <1>1, <2>1, <2>3 DEF InFirst
    <2>4. QED
      BY <1>3, <2>1, <2>2, <2>3 DEF InFirst
  <1>5. QED
    BY <1>2, <1>4 DEF Unprocessed, Rest, IdsAt

\* Only clearing and pushing change the key, and they leave their name.
LEMMA KeyFrame ==
  ASSUME NEW w \in Workers, ScriptStep(w) \/ ResumeSaved(w) \/ Kill(w)
  PROVE  ClearSaved(w) \/ PushRest(w) \/ UNCHANGED <<saved, writer, torn>>
  BY DEF ScriptStep, ParseAndSave, ParseFails, UpdateChunk, NothingToUpdate, ResumeSaved, Kill, listVars

\* Scripts keep the key resumable: one that writes it leaves nothing out, and what others
\* look at meanwhile only shortens what is to do.
LEMMA ScriptsKeepResumable ==
  ASSUME SalesAssumption, TypeInv, Resumable, NEW w \in Workers, WorkerInv(w),
         ScriptStep(w) \/ ResumeSaved(w) \/ Kill(w)
  PROVE  Resumable'
  <1> DEFINE left(u) == Unprocessed(u)
  <1>1. \A u \in Workers : todo'[u] = todo[u] => left(u)' \subseteq left(u)
    BY ScriptTables DEF Unprocessed
  <1>2. CASE UNCHANGED <<saved, writer, torn>>
    <2> SUFFICES ASSUME NEW u \in Workers, writer = u, ~torn PROVE left(u)' \subseteq saved
      BY <1>2 DEF Resumable
    <2>1. left(u) \subseteq saved
      BY DEF Resumable
    <2>2. todo'[u] = todo[u]
      <3>1. CASE u # w
        BY <3>1, ScriptTodo
      <3>2. CASE u = w
        <4>1. script[w] \notin {"off", "parsing"}
          BY <3>2 DEF WorkerInv
        <4>2. UNCHANGED todo
          BY <4>1 DEF ScriptStep, ParseAndSave, ParseFails, ClearSaved, PushRest, UpdateChunk,
                      NothingToUpdate, ResumeSaved, Kill, Advance, Die
        <4>3. QED
          BY <4>2
      <3>3. QED
        BY <3>1, <3>2
    <2>3. QED
      BY <1>1, <2>1, <2>2
  <1>3. CASE ClearSaved(w)
    <2>1. /\ script[w] = "clearing" /\ writer' = w /\ torn' = (Rest(w) # {})
          /\ UNCHANGED <<todo, detailed, unreadable>>
      BY <1>3 DEF ClearSaved, Advance, tableVars
    <2>2. Unprocessed(w) \subseteq Rest(w)
      BY <2>1, RestIsLeft
    <2>3. ~torn' => left(w)' = {}
      BY <1>1, <2>1, <2>2
    <2>4. QED
      BY <2>1, <2>3 DEF Resumable
  <1>4. CASE PushRest(w)
    <2>1. /\ script[w] = "pushing" /\ writer' = w /\ saved' = saved \cup Rest(w)
          /\ UNCHANGED <<todo, detailed, unreadable>>
      BY <1>4 DEF PushRest, Advance, tableVars
    <2>2. Unprocessed(w) \subseteq Rest(w)
      BY <2>1, RestIsLeft
    <2>3. left(w)' \subseteq saved'
      BY <1>1, <2>1, <2>2
    <2>4. QED
      BY <2>1, <2>3 DEF Resumable
  <1>5. QED
    BY <1>2, <1>3, <1>4, KeyFrame

LEMMA ScriptsKeepWorkInv ==
  ASSUME SalesAssumption, FewIds, WorkInv, NEW w \in Workers,
         ScriptStep(w) \/ ResumeSaved(w) \/ Kill(w)
  PROVE  WorkInv'
  <1>1. TypeInv'
    BY NextTypeInv DEF WorkInv, Next
  <1>2. \A u \in Workers : WorkerInv(u)'
    BY WorkersInv DEF WorkInv
  <1>3. Resumable'
    BY ScriptsKeepResumable DEF WorkInv
  <1>4. UNCHANGED <<task, dated>> /\ \A u \in Workers \ {w} : script'[u] = script[u]
    BY ScriptFrame DEF WorkInv, TypeInv
  <1>5. script[w] \in Alive \/ (w \in Retries /\ script[w] = "off")
    BY ScriptIsAlive
  <1>6. ScriptIsStartedOnce'
    BY <1>4, <1>5 DEF ScriptIsStartedOnce, WorkInv, SalesAssumption, Workers, Alive
  <1>7. DateHasScript'
    BY <1>4, <1>5 DEF DateHasScript, WorkInv, Workers, Alive
  <1>8. QED
    BY <1>1, <1>2, <1>3, <1>6, <1>7 DEF WorkInv

\* What a step of the server does to a request's script and date.
LEMMA ServerDates ==
  ASSUME TypeOK,
         \/ \E r \in Requests : Conflict(r) \/ Accept(r) \/ TaskStep(r)
         \/ \E b \in Pages : OpenPage(b) \/ TakeMessage(b) \/ ShowMessage(b) \/ ClosePage(b)
         \/ Crash
  PROVE  /\ dated' = dated \/ \E r \in Requests : script[r] = "done" /\ dated' = dated \cup {KeyOf[r]}
         /\ \A r \in Requests :
              task'[r] \in {"idle", "accepted", "starting"} =>
                task[r] \in {"idle", "accepted", "starting"} /\ script'[r] = script[r]
  <1>1. CASE \E r \in Requests : StartScript(r)
    BY <1>1 DEF TypeOK, StartScript, Goto
  <1>2. CASE \E r \in Requests : Conflict(r) \/ Accept(r) \/ (TaskStep(r) /\ ~StartScript(r))
    <2>1. dated' = dated \/ \E r \in Requests : script[r] = "done" /\ dated' = dated \cup {KeyOf[r]}
      BY <1>2 DEF Conflict, Accept, TaskStep, StillFree, AssertFails, ScriptSucceeded, ScriptFailed,
                  DeleteFlag, DeleteFlagFinally, TellOutcome
    <2>2. UNCHANGED script
      BY <1>2 DEF Conflict, Accept, TaskStep, StillFree, AssertFails, ScriptSucceeded, ScriptFailed,
                  DeleteFlag, DeleteFlagFinally, TellOutcome, scriptVars
    <2>3. \E r \in Requests :
            \/ Goto(r, "idle", "conflict")    \/ Goto(r, "idle", "accepted")
            \/ Goto(r, "accepted", "starting") \/ Goto(r, "accepted", "asserted")
            \/ Goto(r, "running", "dated")    \/ Goto(r, "running", "cleanup")
            \/ Goto(r, "dated", "cleanup")    \/ Goto(r, "cleanup", "telling")
            \/ Goto(r, "telling", "told")     \/ Goto(r, "asserted", "told")
      BY <1>2 DEF Conflict, Accept, TaskStep, StillFree, AssertFails, ScriptSucceeded, ScriptFailed,
                  DeleteFlag, DeleteFlagFinally, TellOutcome
    <2>4. \A r \in Requests : task'[r] \in {"idle", "accepted", "starting"} =>
            task[r] \in {"idle", "accepted", "starting"}
      BY <2>3 DEF TypeOK, Goto
    <2>5. QED
      BY <2>1, <2>2, <2>4
  <1>3. CASE Crash
    BY <1>3 DEF TypeOK, Crash, Busy, scriptVars
  <1>4. CASE \E b \in Pages : OpenPage(b) \/ TakeMessage(b) \/ ShowMessage(b) \/ ClosePage(b)
    BY <1>4, PagesKeepFlags DEF scriptVars
  <1>5. QED
    BY <1>1, <1>2, <1>3, <1>4

LEMMA ServerKeepsWorkInv ==
  ASSUME SalesAssumption, WorkInv,
         \/ \E r \in Requests : Conflict(r) \/ Accept(r) \/ TaskStep(r)
         \/ \E b \in Pages : OpenPage(b) \/ TakeMessage(b) \/ ShowMessage(b) \/ ClosePage(b)
         \/ Crash
  PROVE  WorkInv'
  <1>1. TypeInv'
    BY NextTypeInv DEF WorkInv, Next
  <1>2. /\ UNCHANGED <<todo, at, saved, writer, torn, known, detailed, unreadable>>
        /\ UNCHANGED script \/ \E r \in Requests : StartScript(r)
    BY ServerFrame
  <1>3. \A w \in Workers :
          \/ script'[w] = script[w]
          \/ script[w] = "off" /\ script'[w] = "parsing"
    <2>1. ASSUME NEW r \in Requests, StartScript(r)
          PROVE  script[r] = "off" /\ script' = [script EXCEPT ![r] = "parsing"]
      BY <2>1 DEF StartScript, Goto, WorkInv, ScriptIsStartedOnce
    <2>2. QED
      BY <1>2, <2>1 DEF WorkInv, TypeInv, TypeOK
  <1>4. \A w \in Workers : WorkerInv(w)'
    <2> SUFFICES ASSUME NEW w \in Workers PROVE WorkerInv(w)'
      OBVIOUS
    <2>1. WorkerInv(w)
      BY DEF WorkInv
    <2>2. CASE script'[w] = script[w]
      BY <1>2, <2>1, <2>2, WorkerFrame
    <2>3. CASE script[w] = "off" /\ script'[w] = "parsing"
      BY <1>2, <2>1, <2>3 DEF WorkerInv
    <2>4. QED
      BY <1>3, <2>2, <2>3
  <1>5. Resumable'
    BY <1>2 DEF WorkInv, Resumable, Unprocessed
  <1>6. ScriptIsStartedOnce' /\ DateHasScript'
    <2>1. TypeOK
      BY DEF WorkInv, TypeInv
    <2>2. /\ dated' = dated \/ \E r \in Requests : script[r] = "done" /\ dated' = dated \cup {KeyOf[r]}
          /\ \A r \in Requests :
               task'[r] \in {"idle", "accepted", "starting"} =>
                 task[r] \in {"idle", "accepted", "starting"} /\ script'[r] = script[r]
      BY <2>1, ServerDates
    <2>3. ScriptIsStartedOnce'
      BY <2>2 DEF WorkInv, ScriptIsStartedOnce
    <2>4. \A r \in Requests : script[r] = "done" => script'[r] = "done"
      BY <1>3 DEF Workers
    <2>5. DateHasScript'
      BY <2>2, <2>4 DEF WorkInv, DateHasScript
    <2>6. QED
      BY <2>3, <2>5
  <1>7. QED
    BY <1>1, <1>4, <1>5, <1>6 DEF WorkInv

LEMMA InitWorkInv == SalesAssumption /\ FewIds /\ Init => WorkInv
  <1> SUFFICES ASSUME SalesAssumption, FewIds, Init PROVE WorkInv
    OBVIOUS
  <1>1. TypeInv
    BY InitTypeInv
  <1>2. \A w \in Workers : WorkerInv(w)
    <2>1. Cardinality(Ids) \in Nat /\ ChunkSize \in Nat \ {0}
      BY FS_CardinalityType DEF SalesAssumption
    <2>2. 0 < 2 * ChunkSize
      BY <2>1
    <2>3. QED
      BY <2>2 DEF Init, WorkerInv, Workers, SalesAssumption
  <1>3. ScriptIsStartedOnce /\ DateHasScript /\ Resumable
    BY DEF Init, ScriptIsStartedOnce, DateHasScript, Resumable, SalesAssumption, Workers
  <1>4. QED
    BY <1>1, <1>2, <1>3 DEF WorkInv

LEMMA WorkIsKept ==
  ASSUME FewIds
  PROVE  Spec => []WorkInv
  <1>1. Init => WorkInv
    BY InitWorkInv, SalesAssumption
  <1>2. WorkInv /\ [Next]_vars => WorkInv'
    <2> SUFFICES ASSUME WorkInv, [Next]_vars PROVE WorkInv'
      OBVIOUS
    <2>1. CASE \E w \in Workers : ScriptStep(w) \/ ResumeSaved(w) \/ Kill(w)
      BY <2>1, SalesAssumption, ScriptsKeepWorkInv
    <2>2. CASE \/ \E r \in Requests : Conflict(r) \/ Accept(r) \/ TaskStep(r)
               \/ \E b \in Pages : OpenPage(b) \/ TakeMessage(b) \/ ShowMessage(b) \/ ClosePage(b)
               \/ Crash
      BY <2>2, SalesAssumption, ServerKeepsWorkInv
    <2>3. CASE UNCHANGED vars
      <3>1. TypeInv'
        BY NextTypeInv, SalesAssumption DEF WorkInv
      <3>2. QED
        BY <2>3, <3>1 DEF vars, taskVars, listVars, scriptVars, tableVars, WorkInv, WorkerInv, LookedAt,
                          Chunks, ScriptIsStartedOnce, DateHasScript, Resumable, Unprocessed
    <2>4. QED
      BY <2>1, <2>2, <2>3 DEF Next
  <1>3. QED
    BY <1>1, <1>2, PTL DEF Spec

\* With fewer products than two full chunks, whatever scripts run side by side and
\* whenever they die: the ids the last writer of the key has not looked at are under it.
THEOREM FewAreResumable ==
  ASSUME FewIds
  PROVE  Spec => []Resumable
  <1>1. WorkInv => Resumable
    BY DEF WorkInv
  <1>2. QED
    BY <1>1, WorkIsKept, PTL

\* With fewer products than two full chunks, a date of the last update is only ever set
\* after a script that has looked at every product it inserted.
THEOREM FewDatesAreEarned ==
  ASSUME FewIds
  PROVE  Spec => []DateIsEarned
  <1>1. WorkInv => DateIsEarned
    <2> SUFFICES ASSUME WorkInv, NEW k \in dated
                 PROVE  \E r \in Requests : KeyOf[r] = k /\ script[r] = "done" /\ Unprocessed(r) = {}
      BY DEF DateIsEarned
    <2>1. PICK r \in Requests : KeyOf[r] = k /\ script[r] = "done"
      BY DEF WorkInv, DateHasScript
    <2>2. r \in Workers /\ todo[r] \in Seq(Ids)
      BY DEF Workers, WorkInv, TypeInv, TypeOK
    <2>3. LookedAt(r, 2)
      BY <2>1, <2>2 DEF WorkInv, WorkerInv
    <2>4. Unprocessed(r) = {}
      BY <2>2, <2>3 DEF Unprocessed, LookedAt, InFirst
    <2>5. QED
      BY <2>1, <2>4
  <1>2. QED
    BY <1>1, WorkIsKept, PTL
=============================================================================
