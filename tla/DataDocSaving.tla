--------------------------- MODULE DataDocSaving ---------------------------
(***************************************************************************)
(* Saving one part of a DataDoc (its fields, or one cell) from the web     *)
(* application: every edit is handed to the save manager of the part,      *)
(* which batches it (BatchManager), and a key of dataDocSavePromiseById    *)
(* says that something is still to be saved.  The saving icon and the      *)
(* question asked before the page is left look at that key only.           *)
(***************************************************************************)
EXTENDS BatchManager

VARIABLES
    \* "doc" (DataDocSaveManager) or "cell" (DataCellSaveManager)
    kind,
    \* the manager in use (0 when none is registered), and those made so far
    saver, made,
    \* forced requests whose end removes the manager of a cell
    removing,
    \* itemToSave[key] (0 when absent), the completeAt of each edit (in whole
    \* seconds, of which only the order is kept), and whether a second has
    \* certainly gone by since the last edit
    saving, completeAt, elapsed

saveVars == <<kind, saver, made, removing, saving, completeAt, elapsed>>
vars == <<batchVars, saveVars>>

SInit ==
    /\ Init
    /\ kind \in {"doc", "cell"}
    /\ saver = 0
    /\ made = 0
    /\ removing = {}
    /\ saving = 0
    /\ completeAt = << >>
    /\ elapsed = TRUE

-----------------------------------------------------------------------------
Latest == IF completeAt = << >> THEN 0 ELSE completeAt[Len(completeAt)]

\* updateDataDocField and updateDataDocCell: SAVE_DATA_DOC_START with a
\* completeAt in whole seconds, then the manager, made when there is none.
Edit(f) ==
    /\ \E s \in {Latest + 1} \cup (IF elapsed THEN {} ELSE {Latest}) :
          /\ completeAt' = Append(completeAt, s)
          /\ saving' = s
    /\ elapsed' = FALSE
    /\ \/ /\ saver # 0
          /\ Batch(saver, f)
          /\ UNCHANGED <<saver, made>>
       \/ /\ saver = 0
          /\ made < NumManagers
          /\ Batch(made + 1, f)
          /\ made' = made + 1
          /\ saver' = made + 1
    /\ UNCHANGED <<kind, removing>>

\* A timer fires seconds after it was armed.
Timer(m) ==
    /\ \/ TimerSkips(m)
       \/ TimerWaits(m)
       \/ TimerSends(m)
    /\ elapsed' = TRUE
    /\ UNCHANGED <<kind, saver, made, removing, saving, completeAt>>

ServerApplies(r) == Apply(r) /\ UNCHANGED saveVars

\* Broken variant: the icon goes off with any answer.
SaveEndAlways(c) ==
    saving' = 0

\* SAVE_DATA_DOC_END of the edit c: a later edit keeps its key.
SaveEnd(c) ==
    saving' = IF saving # 0 /\ saving <= completeAt[c] THEN 0 ELSE saving

\* The settled promise ends the saving of its edit, whichever way ("on
\* failure, we pretend it saved!"), and lets forceSaveDataCell go on.
RequestEnds(r) ==
    /\ \/ Succeed(r)
       \/ SucceedAndSend(r)
       \/ Fail(r)
    /\ SaveEnd(requests[r].notify)
    /\ saver' = IF r \in removing THEN 0 ELSE saver
    /\ removing' = removing \ {r}
    /\ UNCHANGED <<kind, made, completeAt, elapsed>>

AnswerIsLost(r) == Lose(r) /\ UNCHANGED saveVars

\* forceProcess of the registered manager, if it has something to send.
ForceSaver ==
    \/ ForceProcess(saver)
    \/ stack[saver] = << >> /\ UNCHANGED batchVars

\* forceSaveDataCell awaits forceProcess before it removes the manager.
ForceSaveDataCell ==
    /\ ForceSaver
    /\ IF stack[saver] = << >>
       THEN saver' = 0 /\ UNCHANGED removing
       ELSE removing' = removing \cup {Len(requests) + 1} /\ UNCHANGED saver

\* forceSaveDataDoc of the manager removes it at once.
ForceSaveDataDocFields ==
    /\ ForceSaver
    /\ saver' = 0
    /\ UNCHANGED removing

\* The action forceSaveDataDoc (the save key, another document is opened)
\* ends with SAVE_DATA_DOC_CLEAR.
ForceSaveDataDoc ==
    /\ \/ saver = 0 /\ UNCHANGED <<batchVars, saver, removing>>
       \/ saver # 0 /\ kind = "cell" /\ ForceSaveDataCell
       \/ saver # 0 /\ kind = "doc" /\ ForceSaveDataDocFields
    /\ saving' = 0
    /\ UNCHANGED <<kind, made, completeAt, elapsed>>

\* The action forceSaveDataDocCell.
ForceSaveDataDocCell ==
    /\ saver # 0
    /\ kind = "cell"
    /\ ForceSaveDataCell
    /\ UNCHANGED <<kind, made, saving, completeAt, elapsed>>

SNext ==
    \/ \E f \in Fields : Edit(f)
    \/ \E m \in Managers : Timer(m)
    \/ \E r \in Requests : ServerApplies(r)
    \/ \E r \in Requests : RequestEnds(r)
    \/ \E r \in Requests : AnswerIsLost(r)
    \/ ForceSaveDataDoc
    \/ ForceSaveDataDocCell

SSpec == SInit /\ [][SNext]_vars

\* Timers fire, and the server handles and answers a request it was sent.
\* (There are never more requests than edits.)
SFairness ==
    /\ \A m \in Managers : WF_vars(Timer(m))
    /\ \A r \in 1 .. MaxChanges :
          /\ WF_vars(r \in Requests /\ ServerApplies(r))
          /\ WF_vars(r \in Requests /\ RequestEnds(r))

FairSSpec == SSpec /\ SFairness

-----------------------------------------------------------------------------
(* What saving promises *)

AllAnswered == \A r \in Requests : requests[r].answer \in {"none", "ok"}

NoneFailed == \A r \in Requests : requests[r].answer # "error"

\* No forced save yet: none sent a request, none removed the manager.
NoneForced ==
    /\ \A r \in Requests : ~requests[r].forced
    /\ made <= 1 /\ saver = made

Open(r) == requests[r].answer \in {"none", "lost"}

\* Without a forced save a manager has one request in flight at a time: that
\* is what a batch waits for processRequest for.
OneAtATime ==
    NoneForced =>
        \A r, q \in Requests :
            Open(r) /\ Open(q) /\ requests[r].manager = requests[q].manager
                => r = q

\* Nobody will send what is stacked: no timer, and no call of processBatch
\* that goes on when a request ends.
Stranded(m) ==
    /\ stack[m] # << >>
    /\ timer[m] = 0
    /\ \A r \in waiting[m] : ~Open(r)

\* A call of processBatch of the manager throws at its await.
Abandons(m) ==
    \E r \in waiting[m] : requests[r].answer = "none" /\ requests'[r].answer = "error"

\* Stacked edits are abandoned only when a request that a batch of the same
\* manager awaits fails: not by a skipped timer, a forced save, an older
\* request that clears processRequest, an answer that is lost, or the failure
\* of another manager's request.
OnlyFailuresStrand ==
    [][\A m \in Managers : Stranded(m)' => Stranded(m) \/ Abandons(m)]_vars

\* A caller told that its edit is saved is told the truth: the row holds its
\* value or a later one, and no older request overwrites it afterwards.
ResolvedIsSaved ==
    NoneForced /\ NoneFailed =>
        \A c \in Changes : promise[c] = "resolved" => saved[change[c]] >= c

Unsaved ==
    \/ \E m \in Managers : stack[m] # << >>
    \/ \E r \in Requests : Open(r)

\* completeAt tells the edits apart.
NoTwoInOneSecond ==
    \A c, d \in Changes : completeAt[c] = completeAt[d] => c = d

\* Without a forced save the user is asked before leaving whenever an edit is
\* stacked or on its way, also after failed and unanswered requests; but not
\* when two edits fall into one second, the first ending a batch that waited
\* and the second stacked after it: the end of the first then takes the key.
WarnsBeforeLoss ==
    NoneForced /\ NoTwoInOneSecond => (Unsaved => saving # 0)

\* The saving icon goes off in the end, although only the last edit of a
\* batch ever learns that the batch was saved.
SavingEnds == []AllAnswered => (saving # 0 ~> saving = 0)

\* Left alone, every edit reaches the server and is not undone there by an
\* older one.
EventuallySaved ==
    [](AllAnswered /\ NoneForced) =>
        \A c \in 1 .. MaxChanges :
            c <= Len(change) ~>
                [](c <= Len(change) /\ saved[change[c]] >= c)

\* "If there is another save or nothing to save, skip": a batch is dropped
\* only when another save is under way or its stack is empty.
SkipsOnlyWhenCovered == \A m \in Managers : ~Stranded(m)

=============================================================================
