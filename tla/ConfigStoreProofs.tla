--------------------------- MODULE ConfigStoreProofs ---------------------------
(***************************************************************************)
(* Proofs about ConfigStore, for any profiles and settings, any number of  *)
(* failures and of starts of the UI.                                       *)
(***************************************************************************)
EXTENDS ConfigStore, TLAPS

-----------------------------------------------------------------------------
(* The inductive invariant.                                                *)

\* ConfigStore::save, and what load_or_create_config does when it cannot load.
SaveSteps == {"preserve", "backup", "replace"}
Recovering == {"fallback", "rewrite", "schemas", "backupSchema", "unquarantine", "quarantine"}

\* A file that a load does not have to recover from.
Usable(f) == Loadable(f) \/ f.form = "missing"

Holds(f, s) == Loadable(f) /\ f.settings = s

Main == thread["main"]
Startup == thread["startup"]

Saving == Main.at # "idle" /\ Main.job = "save"

\* What a thread is about to write is something to write, and is written over a usable file
\* unless it is a command that saves.
LocalsOK(t) ==
  /\ thread[t].at \in SaveSteps =>
       /\ thread[t].saving \in Settings
       /\ thread[t].then \in {"created", "recovered"} => thread[t].saving = Defaults
       /\ thread[t].then = "saved" => thread[t].job = "save" /\ thread[t].saving = thread[t].next
       /\ thread[t].then # "saved" => thread[t].loaded = thread[t].saving /\ Usable(primary)
  /\ thread[t].at = "backup" => Loadable(thread[t].image) /\ Usable(primary)
  /\ thread[t].at = "rewrite" => Loadable(backup)
  /\ thread[t].at \in {"rewrite", "reread", "notice"} => thread[t].loaded \in Settings
  /\ thread[t].at \in {"reread", "notice", "wake"} => Usable(primary)

\* Threads live in a process; the start-up thread only loads; a window that shows nothing
\* only loads either.
ThreadInv ==
  /\ ~running => shown = NoSettings /\ \A t \in Threads : thread[t] = Idle
  /\ Startup.job = "load" /\ Startup.at # "wake"
  /\ Main.at # "idle" => (shown = NoSettings <=> Main.job = "load")
  /\ Main.job = "save" => Main.next \in Settings
  /\ Main.at = "wake" => Main.job = "save"
  /\ \A t \in Threads : LocalsOK(t)

\* A command that finds the start-up thread at work is an overlap, and a late one a save.
OrderInv ==
  /\ "late" \in mishaps => "overlap" \in mishaps
  /\ "overlap" \notin mishaps /\ Startup.at # "idle" => Main.at = "idle" /\ shown = NoSettings
  /\ "late" \notin mishaps /\ Saving => Startup.at = "idle"

\* As long as there is something to keep, every thread has it in hand, and none discards a file.
KeptBy(t) ==
  /\ thread[t].at \notin Recovering \ {"fallback", "rewrite"}
  /\ thread[t].at = "fallback" => Holds(backup, kept)
  /\ thread[t].at \in {"rewrite", "reread", "notice"} => thread[t].loaded = kept
  /\ thread[t].at \in SaveSteps /\ thread[t].then # "saved" => thread[t].saving = kept
  /\ thread[t].at = "backup" => thread[t].image.settings = kept

KeptInv ==
  Spared({"misread", "rewrite", "late"}) /\ kept # NoSettings =>
    /\ primary.form # "missing"
    /\ IF Loadable(primary) THEN primary.settings = kept ELSE Holds(backup, kept)
    /\ \A t \in Threads : KeptBy(t)

\* The window has the files to itself.
Alone == IF Main.job = "save" THEN "late" \notin mishaps ELSE "overlap" \notin mishaps

\* What a command has read or written is on disk.
ReadInv ==
  /\ Alone /\ Main.at \in {"reread", "notice"} => Holds(primary, Main.loaded)
  /\ Alone /\ Main.at \in SaveSteps /\ Main.then = "saved" /\ Main.loaded # NoSettings =>
       Holds(primary, Main.loaded)
  /\ Alone /\ Main.at = "wake" => Holds(primary, Main.next)

\* Before a save replaces a file that can be loaded, the backup has what it holds.
BackupInv ==
  Spared({"misread", "late"}) /\ Main.then = "saved" =>
    /\ Main.at = "backup" => Main.image = primary
    /\ Main.at = "replace" /\ Loadable(primary) => backup.settings = primary.settings

\* So is what the window shows, unless a read error has misled the save that failed.
ScreenInv ==
  "overlap" \notin mishaps =>
    /\ /\ running /\ Main.at = "idle" /\ shown # NoSettings
       /\ ~({"misread", "failed"} \subseteq mishaps)
       => Holds(primary, shown)
    /\ Saving /\ Main.at # "wake" /\ "misread" \notin mishaps =>
         /\ Holds(primary, shown)
         /\ Main.at \notin Recovering
         /\ Main.at \in SaveSteps /\ Main.then # "saved" => Main.saving = shown

\* An old file is migrated, and none is recovered meanwhile.
MigrationInv ==
  "misread" \notin mishaps =>
    \A t \in Threads :
      primary.form = "legacy" \/ (thread[t].at \in SaveSteps /\ thread[t].then = "migrated") =>
        Loadable(primary) /\ \A u \in Threads : thread[u].at \notin Recovering

\* The agent has what the file says, or what the command in its last step began with.
AgentInv ==
  Spared({"misread", "late", "blind", "unwoken"}) /\ ~wake =>
    /\ agent.at = "idle" /\ Main.at # "wake" =>
         /\ Loadable(primary) => Effect(agent.settings) = Effect(primary.settings)
         /\ primary.form = "missing" => Effect(agent.settings) = Effect(Defaults)
    /\ agent.at = "idle" /\ Main.at = "wake" /\ Main.loaded # NoSettings =>
         Effect(agent.settings) \in {Effect(Main.loaded), Effect(Main.next)}
    /\ agent.at = "fallback" =>
         ~Usable(primary) \/ (Main.at = "wake" /\ Main.loaded = NoSettings)

\* A damaged file is where it was, or quarantined; whoever recovers has one before it.
EvidenceInv ==
  Spared({"misread", "overlap"}) =>
    /\ \A t \in Threads :
         /\ thread[t].at \in {"schema", "load"} => primary.form # "missing"
         /\ thread[t].at \in Recovering => ~Usable(primary)
    /\ evidence =>
         \/ primary.form = "damaged" /\ ~Loadable(backup)
         \/ corrupt.form = "damaged" /\ Usable(primary)

\* Nobody gets past a file of a future version.
FutureInv ==
  "misread" \notin mishaps /\ running /\ Future(primary) =>
    /\ shown = NoSettings
    /\ \A t \in Threads : thread[t].at \in {"idle", "exists", "schema"}

Inv ==
  /\ TypeOK /\ ThreadInv /\ OrderInv /\ KeptInv /\ ReadInv /\ BackupInv /\ ScreenInv
  /\ MigrationInv /\ AgentInv /\ EvidenceInv /\ FutureInv

-----------------------------------------------------------------------------
(* What the steps of a thread do, field by field.                          *)

LocalThreads == [Threads -> Thread]

\* Only thread t moves, and what its command is to do stays.
Moves(t) ==
  /\ thread' \in LocalThreads
  /\ \A u \in Threads \ {t} : thread'[u] = thread[u]

Goes(t, step) ==
  /\ Moves(t) /\ thread'[t].at = step
  /\ thread'[t].job = thread[t].job /\ thread'[t].next = thread[t].next
  /\ thread'[t].loaded = thread[t].loaded /\ thread'[t].saving = thread[t].saving
  /\ thread'[t].image = thread[t].image /\ thread'[t].then = thread[t].then

Calls(t, s, then) ==
  /\ Moves(t) /\ thread'[t].at = "preserve"
  /\ thread'[t].job = thread[t].job /\ thread'[t].next = thread[t].next
  /\ thread'[t].loaded = s /\ thread'[t].saving = s /\ thread'[t].then = then

Returns(t, found) ==
  /\ Moves(t)
  /\ \/ /\ thread[t].job = "save" /\ thread'[t].at = "preserve" /\ thread'[t].job = "save"
        /\ thread'[t].next = thread[t].next /\ thread'[t].saving = thread[t].next
        /\ thread'[t].loaded = found /\ thread'[t].then = "saved"
        /\ shown' = shown
     \/ /\ thread[t].job = "load" /\ thread'[t] = Idle
        /\ shown' = IF t = "main" THEN found ELSE shown

\* A thread that does nothing is a thread.
LEMMA IdleTyped ==
  /\ Idle \in Thread /\ Idle.at = "idle" /\ Idle.job = "load"
  /\ Idle.next = NoSettings /\ Idle.image \in File
BY DEF Idle, Thread, Steps, Contents, File

\* Files as they are written, and as they can be loaded.
LEMMA FilesTyped ==
  /\ Defaults \in Settings
  /\ \A s \in Settings : Saved(s) \in File /\ Holds(Saved(s), s) /\ Saved(s).form = "current"
  /\ \A form \in {"missing", "damaged", "future", "unreadable"} :
       Contents(form) \in File /\ Contents(form).form = form /\ Contents(form).settings = NoSettings
  /\ \A f \in File : Loadable(f) <=> f.settings \in Settings
  /\ \A f \in File : ~Loadable(f) => f.settings = NoSettings
BY ConfigAssumption
   DEF Defaults, Settings, Saved, File, Holds, Loadable, Contents

\* The three ways in which a thread goes on.
LEMMA Went ==
  ASSUME TypeOK, NEW t \in Threads, NEW step \in Steps, Goto(t, step)
  PROVE  Goes(t, step)
<1>1. thread \in LocalThreads /\ thread[t] \in Thread
  BY DEF TypeOK, LocalThreads
<1>2. [thread[t] EXCEPT !.at = step] \in Thread
  BY <1>1 DEF Thread
<1>3. thread' = [thread EXCEPT ![t] = [thread[t] EXCEPT !.at = step]]
  BY <1>1 DEF Goto, LocalThreads
<1>4. QED
  BY <1>1, <1>2, <1>3 DEF Goes, Moves, LocalThreads, Thread

LEMMA Called ==
  ASSUME TypeOK, NEW t \in Threads, NEW s \in Settings,
         NEW then \in {"created", "recovered", "migrated"}, CallSave(t, s, then)
  PROVE  Calls(t, s, then)
<1>1. thread \in LocalThreads /\ thread[t] \in Thread
  BY DEF TypeOK, LocalThreads
<1> DEFINE r == [thread[t] EXCEPT !.at = "preserve", !.saving = s, !.loaded = s, !.then = then]
<1>2. /\ r \in Thread /\ r.at = "preserve" /\ r.saving = s /\ r.loaded = s /\ r.then = then
      /\ r.job = thread[t].job /\ r.next = thread[t].next
  BY <1>1 DEF Thread, Steps
<1>3. thread' = [thread EXCEPT ![t] = r]
  BY <1>1 DEF CallSave, LocalThreads
<1> HIDE DEF r
<1>4. QED
  BY <1>1, <1>2, <1>3 DEF Calls, Moves, LocalThreads

LEMMA Returned ==
  ASSUME TypeOK, NEW t \in Threads, NEW found \in Settings \cup {NoSettings}, Return(t, found)
  PROVE  Returns(t, found) /\ shown' \in Settings \cup {NoSettings}
<1>1. thread \in LocalThreads /\ thread[t] \in Thread /\ shown \in Settings \cup {NoSettings}
  BY DEF TypeOK, LocalThreads
<1>2. CASE thread[t].job = "save"
  <2> DEFINE r == [thread[t] EXCEPT !.at = "preserve", !.loaded = found,
                                    !.saving = thread[t].next, !.then = "saved"]
  <2>1. /\ r \in Thread /\ r.at = "preserve" /\ r.saving = thread[t].next /\ r.loaded = found
        /\ r.then = "saved" /\ r.job = thread[t].job /\ r.next = thread[t].next
    BY <1>1 DEF Thread, Steps
  <2>2. thread' = [thread EXCEPT ![t] = r] /\ shown' = shown
    BY <1>1, <1>2 DEF Return, LocalThreads
  <2> HIDE DEF r
  <2>3. QED
    BY <1>1, <1>2, <2>1, <2>2 DEF Returns, Moves, LocalThreads
<1>3. CASE thread[t].job = "load"
  <2>1. /\ thread' = [thread EXCEPT ![t] = Idle]
        /\ shown' = IF t = "main" THEN found ELSE shown
    BY <1>3 DEF Return
  <2>2. QED
    BY <1>1, <1>3, <2>1, IdleTyped DEF Returns, Moves, LocalThreads
<1>4. QED
  BY <1>1, <1>2, <1>3 DEF Thread

\* Reading gives what is there, or an error that is remembered.
LEMMA ReadGives ==
  ASSUME TypeOK, NEW f, NEW got, Reads(f, got)
  PROVE  /\ faults' \in 0..MaxFaults /\ mishaps \subseteq mishaps'
         /\ mishaps' \subseteq mishaps \cup {"misread"}
         /\ got = f \/ (got = Contents("unreadable") /\ "misread" \in mishaps')
BY ConfigAssumption DEF Reads, Strikes, TypeOK

\* A write that fails is one of the failures.
LEMMA WriteFails ==
  ASSUME TypeOK, NEW kind, Strikes(kind), faults' = faults + 1
  PROVE  faults' \in 0..MaxFaults
BY ConfigAssumption DEF Strikes, TypeOK

-----------------------------------------------------------------------------
(* The steps of load_or_create_config and of ConfigStore::save.            *)

\* What no thread changes, and what stays as it is when only files are read.
Aside == UNCHANGED <<running, reader, evidence, starts>>

\* A step that only reads: nothing changes but where the thread stands.
OnlyReads == Aside /\ UNCHANGED <<files, kept>>

\* Nothing is forgotten, and at most the one kind of mishap is added.
Adds(kind) == mishaps \subseteq mishaps' /\ mishaps' \subseteq mishaps \cup {kind}

\* A missing file is created.
LEMMA ExistsDoes ==
  ASSUME TypeOK, NEW t \in Threads, Exists(t)
  PROVE  /\ At(t, "exists") /\ OnlyReads /\ UNCHANGED <<shown, mishaps, faults>>
         /\ \/ primary.form = "missing" /\ Calls(t, Defaults, "created")
            \/ primary.form # "missing" /\ Goes(t, "schema")
<1>1. CASE primary.form = "missing"
  <2>1. CallSave(t, Defaults, "created")
    BY <1>1 DEF Exists
  <2>2. Calls(t, Defaults, "created")
    BY <2>1, Called, FilesTyped
  <2>3. QED
    BY <1>1, <2>2 DEF Exists, OnlyReads, Aside, history
<1>2. CASE primary.form # "missing"
  <2>1. Goto(t, "schema")
    BY <1>2 DEF Exists
  <2>2. Goes(t, "schema")
    BY <2>1, Went DEF Steps
  <2>3. QED
    BY <1>2, <2>2 DEF Exists, OnlyReads, Aside, history
<1>3. QED
  BY <1>1, <1>2

\* The three looks at a schema: an error returns, or the thread goes on.
LEMMA SchemaDoes ==
  ASSUME TypeOK, NEW t \in Threads, Schema(t) \/ Schemas(t) \/ BackupSchema(t)
  PROVE  /\ OnlyReads /\ Adds("misread") /\ faults' \in 0..MaxFaults
         /\ \/ At(t, "schema")
            \/ At(t, "schemas")
            \/ At(t, "backupSchema")
         /\ \/ Returns(t, NoSettings) /\ shown' \in Settings \cup {NoSettings}
            \/ /\ UNCHANGED shown
               /\ \/ At(t, "schema") /\ Goes(t, "load")
                  \/ At(t, "schemas") /\ Goes(t, "backupSchema")
                  \/ At(t, "backupSchema") /\ Goes(t, "unquarantine")
         /\ At(t, "schema") /\ Future(primary) /\ "misread" \notin mishaps' => Returns(t, NoSettings)
<1>1. CASE Schema(t)
  <2>1. PICK got \in File :
          /\ Reads(primary, got)
          /\ IF Future(got) THEN Return(t, NoSettings) ELSE Goto(t, "load") /\ UNCHANGED shown
    BY <1>1 DEF Schema
  <2>2. At(t, "schema") /\ OnlyReads
    BY <1>1 DEF Schema, OnlyReads, Aside
  <2>3. /\ Future(got) => Returns(t, NoSettings) /\ shown' \in Settings \cup {NoSettings}
        /\ ~Future(got) => Goes(t, "load") /\ UNCHANGED shown
    BY <2>1, Returned, Went DEF Steps
  <2>4. QED
    BY <2>1, <2>2, <2>3, ReadGives DEF Adds
<1>2. CASE Schemas(t)
  <2>1. PICK got \in File :
          /\ Reads(primary, got)
          /\ IF Future(got) THEN Return(t, NoSettings)
             ELSE Goto(t, "backupSchema") /\ UNCHANGED shown
    BY <1>2 DEF Schemas
  <2>2. At(t, "schemas") /\ OnlyReads /\ ~At(t, "schema")
    BY <1>2 DEF Schemas, OnlyReads, Aside, At
  <2>3. \/ Returns(t, NoSettings) /\ shown' \in Settings \cup {NoSettings}
        \/ Goes(t, "backupSchema") /\ UNCHANGED shown
    BY <2>1, Returned, Went DEF Steps
  <2>4. QED
    BY <2>1, <2>2, <2>3, ReadGives DEF Adds
<1>3. CASE BackupSchema(t)
  <2>1. PICK got \in File :
          /\ Reads(backup, got)
          /\ IF Future(got) THEN Return(t, NoSettings)
             ELSE Goto(t, "unquarantine") /\ UNCHANGED shown
    BY <1>3 DEF BackupSchema
  <2>2. At(t, "backupSchema") /\ OnlyReads /\ ~At(t, "schema")
    BY <1>3 DEF BackupSchema, OnlyReads, Aside, At
  <2>3. \/ Returns(t, NoSettings) /\ shown' \in Settings \cup {NoSettings}
        \/ Goes(t, "unquarantine") /\ UNCHANGED shown
    BY <2>1, Returned, Went DEF Steps
  <2>4. QED
    BY <2>1, <2>2, <2>3, ReadGives DEF Adds
<1>4. QED
  BY <1>1, <1>2, <1>3

\* The two loads: the contents are what the file has, or the other file is tried.
LEMMA LoadDoes ==
  ASSUME TypeOK, NEW t \in Threads, LoadPrimary(t) \/ LoadBackup(t)
  PROVE  /\ OnlyReads /\ Adds("misread") /\ faults' \in 0..MaxFaults /\ UNCHANGED shown
         /\ Moves(t) /\ thread'[t].job = thread[t].job /\ thread'[t].next = thread[t].next
         /\ \/ /\ At(t, "load")
               /\ \/ /\ Loadable(primary) /\ thread'[t].at = "reread"
                     /\ thread'[t].loaded = primary.settings
                  \/ thread'[t].at = "fallback" /\ (~Loadable(primary) \/ "misread" \in mishaps')
            \/ /\ At(t, "fallback")
               /\ \/ /\ Loadable(backup) /\ thread'[t].at = "rewrite"
                     /\ thread'[t].loaded = backup.settings
                  \/ thread'[t].at = "schemas" /\ (~Loadable(backup) \/ "misread" \in mishaps')
<1>0. thread \in LocalThreads /\ thread[t] \in Thread
  BY DEF TypeOK, LocalThreads
<1>1. ASSUME NEW step \in Steps, NEW s \in Settings,
             thread' = [thread EXCEPT ![t].at = step, ![t].loaded = s]
      PROVE  /\ Moves(t) /\ thread'[t].job = thread[t].job /\ thread'[t].next = thread[t].next
             /\ thread'[t].at = step /\ thread'[t].loaded = s
  <2> DEFINE r == [thread[t] EXCEPT !.at = step, !.loaded = s]
  <2>1. /\ r \in Thread /\ r.at = step /\ r.loaded = s
        /\ r.job = thread[t].job /\ r.next = thread[t].next
    BY <1>0 DEF Thread
  <2>2. thread' = [thread EXCEPT ![t] = r]
    BY <1>0, <1>1 DEF LocalThreads
  <2> HIDE DEF r
  <2>3. QED
    BY <1>0, <2>1, <2>2 DEF Moves, LocalThreads
<1>2. ASSUME NEW step \in Steps, thread' = [thread EXCEPT ![t].at = step]
      PROVE  Goes(t, step)
  BY <1>2, Went DEF Goto
<1>3. CASE LoadPrimary(t)
  <2>1. PICK got \in File :
          /\ Reads(primary, got)
          /\ thread' = IF Loadable(got)
                       THEN [thread EXCEPT ![t].at = "reread", ![t].loaded = got.settings]
                       ELSE [thread EXCEPT ![t].at = "fallback"]
    BY <1>3 DEF LoadPrimary
  <2>2. At(t, "load") /\ OnlyReads /\ UNCHANGED shown
    BY <1>3 DEF LoadPrimary, OnlyReads, Aside
  <2>3. got = primary \/ (~Loadable(got) /\ "misread" \in mishaps')
    BY <2>1, ReadGives, FilesTyped DEF Loadable
  <2>4. CASE Loadable(got)
    <3>1. got = primary /\ got.settings \in Settings
      BY <2>1, <2>3, <2>4, FilesTyped
    <3>2. QED
      BY <1>1, <2>1, <2>2, <2>4, <3>1, ReadGives DEF Adds, Steps
  <2>5. CASE ~Loadable(got)
    <3>1. Goes(t, "fallback")
      BY <1>2, <2>1, <2>5 DEF Steps
    <3>2. QED
      BY <2>1, <2>2, <2>3, <2>5, <3>1, ReadGives DEF Adds, Goes
  <2>6. QED
    BY <2>4, <2>5
<1>4. CASE LoadBackup(t)
  <2>1. PICK got \in File :
          /\ Reads(backup, got)
          /\ thread' = IF Loadable(got)
                       THEN [thread EXCEPT ![t].at = "rewrite", ![t].loaded = got.settings]
                       ELSE [thread EXCEPT ![t].at = "schemas"]
    BY <1>4 DEF LoadBackup
  <2>2. At(t, "fallback") /\ OnlyReads /\ UNCHANGED shown
    BY <1>4 DEF LoadBackup, OnlyReads, Aside
  <2>3. got = backup \/ (~Loadable(got) /\ "misread" \in mishaps')
    BY <2>1, ReadGives, FilesTyped DEF Loadable
  <2>4. CASE Loadable(got)
    <3>1. got = backup /\ got.settings \in Settings
      BY <2>1, <2>3, <2>4, FilesTyped
    <3>2. QED
      BY <1>1, <2>1, <2>2, <2>4, <3>1, ReadGives DEF Adds, Steps
  <2>5. CASE ~Loadable(got)
    <3>1. Goes(t, "schemas")
      BY <1>2, <2>1, <2>5 DEF Steps
    <3>2. QED
      BY <2>1, <2>2, <2>3, <2>5, <3>1, ReadGives DEF Adds, Goes
  <2>6. QED
    BY <2>4, <2>5
<1>5. QED
  BY <1>3, <1>4

\* The backup is put back, or that fails.
LEMMA RewriteDoes ==
  ASSUME TypeOK, NEW t \in Threads, thread[t].loaded \in Settings, Rewrite(t)
  PROVE  /\ At(t, "rewrite") /\ Aside /\ UNCHANGED <<backup, corrupt, notice, shown, kept>>
         /\ Moves(t) /\ thread'[t].job = thread[t].job /\ thread'[t].next = thread[t].next
         /\ faults' \in 0..MaxFaults
         /\ \/ /\ primary' = Saved(thread[t].loaded) /\ thread'[t].at = "reread"
               /\ thread'[t].loaded = thread[t].loaded
               /\ mishaps' = mishaps \cup {"unwoken"}
            \/ /\ UNCHANGED primary /\ thread'[t].at = "schemas"
               /\ mishaps' = mishaps \cup {"rewrite"}
<1>0. thread \in LocalThreads /\ thread[t] \in Thread
  BY DEF TypeOK, LocalThreads
<1>1. /\ At(t, "rewrite") /\ Aside /\ UNCHANGED <<backup, corrupt, notice, shown, kept>>
  BY DEF Rewrite, Aside
<1>2. CASE /\ primary' = Saved(thread[t].loaded) /\ Goto(t, "reread")
           /\ mishaps' = mishaps \cup {"unwoken"} /\ UNCHANGED faults
  <2>1. Goes(t, "reread")
    BY <1>2, Went DEF Steps
  <2>2. QED
    BY <1>1, <1>2, <2>1 DEF Goes, TypeOK
<1>3. CASE /\ Strikes("write") /\ faults' = faults + 1 /\ mishaps' = mishaps \cup {"rewrite"}
           /\ thread' = [thread EXCEPT ![t].at = "schemas", ![t].loaded = NoSettings]
           /\ UNCHANGED primary
  <2> DEFINE r == [thread[t] EXCEPT !.at = "schemas", !.loaded = NoSettings]
  <2>1. r \in Thread /\ r.at = "schemas" /\ r.job = thread[t].job /\ r.next = thread[t].next
    BY <1>0 DEF Thread, Steps
  <2>2. thread' = [thread EXCEPT ![t] = r]
    BY <1>0, <1>3 DEF LocalThreads
  <2> HIDE DEF r
  <2>3. Moves(t) /\ thread'[t] = r
    BY <1>0, <2>1, <2>2 DEF Moves, LocalThreads
  <2>4. QED
    BY <1>1, <1>3, <2>1, <2>3, WriteFails
<1>4. QED
  BY <1>2, <1>3 DEF Rewrite

\* The older copy is removed, or that fails.
LEMMA UnquarantineDoes ==
  ASSUME TypeOK, NEW t \in Threads, Unquarantine(t)
  PROVE  /\ At(t, "unquarantine") /\ Aside /\ UNCHANGED <<primary, backup, notice, kept, mishaps>>
         /\ faults' \in 0..MaxFaults
         /\ \/ corrupt' = Contents("missing") /\ Goes(t, "quarantine") /\ UNCHANGED shown
            \/ /\ UNCHANGED corrupt
               /\ Returns(t, NoSettings) /\ shown' \in Settings \cup {NoSettings}
<1>1. /\ At(t, "unquarantine") /\ Aside /\ UNCHANGED <<primary, backup, notice, kept, mishaps>>
  BY DEF Unquarantine, Aside, history
<1>2. CASE corrupt' = Contents("missing") /\ Goto(t, "quarantine") /\ UNCHANGED <<shown, faults>>
  <2>1. Goes(t, "quarantine")
    BY <1>2, Went DEF Steps
  <2>2. QED
    BY <1>1, <1>2, <2>1 DEF TypeOK
<1>3. CASE Strikes("write") /\ faults' = faults + 1 /\ Return(t, NoSettings) /\ UNCHANGED corrupt
  BY <1>1, <1>3, Returned, WriteFails
<1>4. QED
  BY <1>2, <1>3 DEF Unquarantine

\* The unreadable file is moved aside, or that fails.
LEMMA QuarantineDoes ==
  ASSUME TypeOK, NEW t \in Threads, Quarantine(t)
  PROVE  /\ At(t, "quarantine") /\ Aside /\ UNCHANGED <<backup, notice, kept>>
         /\ faults' \in 0..MaxFaults /\ Adds("unwoken")
         /\ \/ /\ primary.form # "missing" /\ corrupt' = primary /\ primary' = Contents("missing")
               /\ Calls(t, Defaults, "recovered") /\ "unwoken" \in mishaps' /\ UNCHANGED shown
            \/ /\ UNCHANGED <<primary, corrupt, mishaps>>
               /\ Returns(t, NoSettings) /\ shown' \in Settings \cup {NoSettings}
<1>1. /\ At(t, "quarantine") /\ Aside /\ UNCHANGED <<backup, notice, kept>>
  BY DEF Quarantine, Aside
<1>2. CASE /\ primary.form # "missing" /\ corrupt' = primary /\ primary' = Contents("missing")
           /\ CallSave(t, Defaults, "recovered") /\ mishaps' = mishaps \cup {"unwoken"}
           /\ UNCHANGED <<shown, faults>>
  <2>1. Calls(t, Defaults, "recovered")
    BY <1>2, Called, FilesTyped
  <2>2. QED
    BY <1>1, <1>2, <2>1 DEF TypeOK, Adds
<1>3. CASE Return(t, NoSettings) /\ UNCHANGED <<primary, corrupt, mishaps, faults>>
  BY <1>1, <1>3, Returned DEF TypeOK, Adds
<1>4. CASE /\ Strikes("write") /\ faults' = faults + 1 /\ Return(t, NoSettings)
           /\ UNCHANGED <<primary, corrupt, mishaps>>
  BY <1>1, <1>4, Returned, WriteFails DEF Adds
<1>5. QED
  BY <1>2, <1>3, <1>4 DEF Quarantine

\* The notice is written, or that fails.
LEMMA NoticeDoes ==
  ASSUME TypeOK, NEW t \in Threads, WriteNotice(t)
  PROVE  /\ At(t, "notice") /\ Aside
         /\ UNCHANGED <<primary, backup, corrupt, shown, kept, mishaps>>
         /\ notice' \in BOOLEAN /\ faults' \in 0..MaxFaults
         /\ Goes(t, "reread")
<1>1. Goes(t, "reread")
  BY Went DEF WriteNotice, Steps
<1>2. faults' \in 0..MaxFaults /\ notice' \in BOOLEAN
  BY WriteFails DEF WriteNotice, TypeOK
<1>3. QED
  BY <1>1, <1>2 DEF WriteNotice, Aside, history

\* The file is looked at again: a missing or unreadable one fails the load, an old one is
\* migrated, and otherwise the load is over.
LEMMA RereadDoes ==
  ASSUME TypeOK, NEW t \in Threads, thread[t].loaded \in Settings, Reread(t)
  PROVE  /\ At(t, "reread") /\ OnlyReads /\ Adds("misread") /\ faults' \in 0..MaxFaults
         /\ shown' \in Settings \cup {NoSettings}
         /\ \/ /\ Returns(t, NoSettings)
               /\ primary.form \in {"missing", "unreadable"} \/ "misread" \in mishaps'
            \/ primary.form = "legacy" /\ Calls(t, thread[t].loaded, "migrated") /\ UNCHANGED shown
            \/ primary.form = "damaged" /\ Calls(t, thread[t].loaded, "migrated") /\ UNCHANGED shown
            \/ Returns(t, thread[t].loaded)
<1>1. At(t, "reread") /\ OnlyReads
  BY DEF Reread, OnlyReads, Aside
<1>2. PICK got \in File :
        /\ Reads(primary, got)
        /\ CASE got.form \in {"missing", "unreadable"} -> Return(t, NoSettings)
             [] Outdated(got) -> CallSave(t, thread[t].loaded, "migrated") /\ UNCHANGED shown
             [] OTHER -> Return(t, thread[t].loaded)
  BY DEF Reread
<1>3. /\ faults' \in 0..MaxFaults /\ Adds("misread")
      /\ got = primary \/ (got.form = "unreadable" /\ "misread" \in mishaps')
  BY <1>2, ReadGives, FilesTyped DEF Adds
<1>4. CASE got.form \in {"missing", "unreadable"}
  <2>1. Return(t, NoSettings)
    BY <1>2, <1>4 DEF Outdated
  <2>2. QED
    BY <1>1, <1>3, <1>4, <2>1, Returned
<1>5. CASE Outdated(got)
  <2>1. CallSave(t, thread[t].loaded, "migrated") /\ UNCHANGED shown
    BY <1>2, <1>5 DEF Outdated
  <2>2. primary.form \in {"legacy", "damaged"}
    BY <1>3, <1>5 DEF Outdated
  <2>3. Calls(t, thread[t].loaded, "migrated")
    BY <2>1, Called
  <2>4. QED
    BY <1>1, <1>3, <2>1, <2>2, <2>3 DEF TypeOK
<1>6. CASE ~(got.form \in {"missing", "unreadable"}) /\ ~Outdated(got)
  <2>1. Return(t, thread[t].loaded)
    BY <1>2, <1>6
  <2>2. QED
    BY <1>1, <1>3, <2>1, Returned
<1>7. QED
  BY <1>4, <1>5, <1>6

\* The previous file is read, to be kept if it can be loaded.
LEMMA PreserveDoes ==
  ASSUME TypeOK, NEW t \in Threads, Preserve(t)
  PROVE  /\ At(t, "preserve") /\ OnlyReads /\ Adds("misread") /\ faults' \in 0..MaxFaults
         /\ UNCHANGED shown
         /\ Moves(t) /\ thread'[t].job = thread[t].job /\ thread'[t].next = thread[t].next
         /\ thread'[t].loaded = thread[t].loaded /\ thread'[t].saving = thread[t].saving
         /\ thread'[t].then = thread[t].then
         /\ \/ Loadable(primary) /\ thread'[t].at = "backup" /\ thread'[t].image = primary
            \/ thread'[t].at = "replace" /\ (Loadable(primary) => "misread" \in mishaps')
<1>0. thread \in LocalThreads /\ thread[t] \in Thread
  BY DEF TypeOK, LocalThreads
<1>1. At(t, "preserve") /\ OnlyReads /\ UNCHANGED shown
  BY DEF Preserve, OnlyReads, Aside
<1>2. PICK got \in File :
        /\ Reads(primary, got)
        /\ thread' = IF Loadable(got)
                     THEN [thread EXCEPT ![t].at = "backup", ![t].image = got]
                     ELSE [thread EXCEPT ![t].at = "replace"]
  BY DEF Preserve
<1>3. /\ faults' \in 0..MaxFaults /\ Adds("misread")
      /\ got = primary \/ (got.form = "unreadable" /\ "misread" \in mishaps')
  BY <1>2, ReadGives, FilesTyped DEF Adds
<1>4. CASE Loadable(got)
  <2> DEFINE r == [thread[t] EXCEPT !.at = "backup", !.image = got]
  <2>1. /\ r \in Thread /\ r.at = "backup" /\ r.image = got /\ r.job = thread[t].job
        /\ r.next = thread[t].next /\ r.loaded = thread[t].loaded /\ r.saving = thread[t].saving
        /\ r.then = thread[t].then
    BY <1>0 DEF Thread, Steps
  <2>2. thread' = [thread EXCEPT ![t] = r]
    BY <1>0, <1>2, <1>4 DEF LocalThreads
  <2> HIDE DEF r
  <2>3. Moves(t) /\ thread'[t] = r
    BY <1>0, <2>1, <2>2 DEF Moves, LocalThreads
  <2>4. got = primary
    BY <1>3, <1>4 DEF Loadable
  <2>5. QED
    BY <1>1, <1>3, <1>4, <2>1, <2>3, <2>4
<1>5. CASE ~Loadable(got)
  <2>1. Goes(t, "replace")
    BY <1>2, <1>5, Went DEF Goto, Steps
  <2>2. Loadable(primary) => "misread" \in mishaps'
    BY <1>3, <1>5
  <2>3. QED
    BY <1>1, <1>3, <2>1, <2>2 DEF Goes
<1>6. QED
  BY <1>4, <1>5

\* The save fails: of a command, or of a load.
LEMMA SaveFailsDoes ==
  ASSUME TypeOK, NEW t \in Threads, SaveFails(t)
  PROVE  /\ faults' \in 0..MaxFaults /\ shown' \in Settings \cup {NoSettings}
         /\ \/ /\ thread[t].then = "saved" /\ Moves(t) /\ thread'[t] = Idle
               /\ mishaps' = mishaps \cup {"failed"} /\ UNCHANGED shown
            \/ thread[t].then # "saved" /\ Returns(t, NoSettings) /\ UNCHANGED mishaps
<1>1. faults' \in 0..MaxFaults
  BY WriteFails DEF SaveFails
<1>2. CASE thread[t].then = "saved"
  <2>1. thread' = [thread EXCEPT ![t] = Idle] /\ mishaps' = mishaps \cup {"failed"} /\ UNCHANGED shown
    BY <1>2 DEF SaveFails
  <2>2. Moves(t) /\ thread'[t] = Idle
    BY <2>1, IdleTyped DEF Moves, LocalThreads, TypeOK
  <2>3. QED
    BY <1>1, <1>2, <2>1, <2>2 DEF TypeOK
<1>3. CASE thread[t].then # "saved"
  <2>1. Return(t, NoSettings) /\ UNCHANGED mishaps
    BY <1>3 DEF SaveFails
  <2>2. QED
    BY <1>1, <1>3, <2>1, Returned
<1>4. QED
  BY <1>2, <1>3

\* The backup is written, or that fails.
LEMMA BackupDoes ==
  ASSUME TypeOK, NEW t \in Threads, WriteBackup(t)
  PROVE  /\ At(t, "backup") /\ Aside /\ UNCHANGED <<primary, corrupt, notice, kept>>
         /\ faults' \in 0..MaxFaults /\ shown' \in Settings \cup {NoSettings}
         /\ \/ /\ backup' = thread[t].image /\ UNCHANGED <<shown, mishaps>>
               /\ Moves(t) /\ thread'[t].at = "replace"
               /\ thread'[t].job = thread[t].job /\ thread'[t].next = thread[t].next
               /\ thread'[t].loaded = thread[t].loaded /\ thread'[t].saving = thread[t].saving
               /\ thread'[t].then = thread[t].then
            \/ UNCHANGED backup /\ SaveFails(t)
<1>0. thread \in LocalThreads /\ thread[t] \in Thread
  BY DEF TypeOK, LocalThreads
<1>1. At(t, "backup") /\ Aside /\ UNCHANGED <<primary, corrupt, notice, kept>>
  BY DEF WriteBackup, Aside
<1>2. CASE /\ backup' = thread[t].image
           /\ thread' = [thread EXCEPT ![t].at = "replace", ![t].image = Idle.image]
           /\ UNCHANGED <<shown, mishaps, faults>>
  <2> DEFINE r == [thread[t] EXCEPT !.at = "replace", !.image = Idle.image]
  <2>1. /\ r \in Thread /\ r.at = "replace" /\ r.job = thread[t].job
        /\ r.next = thread[t].next /\ r.loaded = thread[t].loaded /\ r.saving = thread[t].saving
        /\ r.then = thread[t].then
    BY <1>0, IdleTyped DEF Thread, Steps
  <2>2. thread' = [thread EXCEPT ![t] = r]
    BY <1>0, <1>2 DEF LocalThreads
  <2> HIDE DEF r
  <2>3. Moves(t) /\ thread'[t] = r
    BY <1>0, <2>1, <2>2 DEF Moves, LocalThreads
  <2>4. QED
    BY <1>1, <1>2, <2>1, <2>3 DEF TypeOK
<1>3. CASE SaveFails(t) /\ UNCHANGED backup
  BY <1>1, <1>3, SaveFailsDoes
<1>4. QED
  BY <1>2, <1>3 DEF WriteBackup

\* The configuration is replaced, or that fails.
LEMMA ReplaceDoes ==
  ASSUME TypeOK, NEW t \in Threads, thread[t].saving \in Settings, Replace(t)
  PROVE  /\ At(t, "replace") /\ Aside /\ UNCHANGED <<backup, corrupt, notice>>
         /\ faults' \in 0..MaxFaults /\ shown' \in Settings \cup {NoSettings}
         /\ \/ /\ primary' = Saved(thread[t].saving) /\ Adds("unwoken")
               /\ \/ /\ thread[t].then = "saved" /\ Goes(t, "wake")
                     /\ kept' = thread[t].saving /\ UNCHANGED shown
                  \/ /\ thread[t].then = "recovered" /\ Goes(t, "notice")
                     /\ UNCHANGED <<kept, shown>>
                  \/ /\ thread[t].then \in {"created", "migrated"} /\ Returns(t, thread[t].saving)
                     /\ UNCHANGED kept
               /\ thread[t].then # "saved" /\ Loadable(primary) =>
                    primary.settings = thread[t].saving \/ "unwoken" \in mishaps'
            \/ UNCHANGED <<primary, kept>> /\ SaveFails(t)
<1>0. thread[t] \in Thread
  BY DEF TypeOK
<1>1. At(t, "replace") /\ Aside /\ UNCHANGED <<backup, corrupt, notice>>
  BY DEF Replace, Aside
<1>2. CASE Replaced(t)
  <2>1. /\ primary' = Saved(thread[t].saving) /\ UNCHANGED faults
        /\ kept' = IF thread[t].then = "saved" THEN thread[t].saving ELSE kept
        /\ mishaps' = IF thread[t].then # "saved" /\ Loadable(primary)
                         /\ primary.settings # thread[t].saving
                      THEN mishaps \cup {"unwoken"} ELSE mishaps
    BY <1>2 DEF Replaced
  <2>2. Adds("unwoken") /\ (thread[t].then # "saved" /\ Loadable(primary) =>
          primary.settings = thread[t].saving \/ "unwoken" \in mishaps')
    BY <2>1 DEF Adds
  <2>3. CASE thread[t].then = "saved"
    <3>1. Goto(t, "wake") /\ UNCHANGED shown
      BY <1>2, <2>3 DEF Replaced
    <3>2. Goes(t, "wake")
      BY <3>1, Went DEF Steps
    <3>3. QED
      BY <1>1, <2>1, <2>2, <2>3, <3>1, <3>2 DEF TypeOK
  <2>4. CASE thread[t].then = "recovered"
    <3>1. Goto(t, "notice") /\ UNCHANGED shown
      BY <1>2, <2>4 DEF Replaced
    <3>2. Goes(t, "notice")
      BY <3>1, Went DEF Steps
    <3>3. QED
      BY <1>1, <2>1, <2>2, <2>4, <3>1, <3>2 DEF TypeOK
  <2>5. CASE thread[t].then \in {"created", "migrated"}
    <3>1. Return(t, thread[t].saving)
      BY <1>2, <2>5 DEF Replaced
    <3>2. Returns(t, thread[t].saving) /\ shown' \in Settings \cup {NoSettings}
      BY <3>1, Returned
    <3>3. QED
      BY <1>1, <2>1, <2>2, <2>5, <3>2 DEF TypeOK
  <2>6. QED
    BY <1>0, <2>3, <2>4, <2>5 DEF Thread
<1>3. CASE SaveFails(t) /\ UNCHANGED <<primary, kept>>
  BY <1>1, <1>3, SaveFailsDoes
<1>4. QED
  BY <1>2, <1>3 DEF Replace

\* The agent is told, if it has to be, or that fails; the window has its settings.
LEMMA WakeDoes ==
  ASSUME TypeOK, NEW t \in Threads, thread[t].next \in Settings, Wake(t)
  PROVE  /\ At(t, "wake") /\ UNCHANGED <<files, running, agent, kept, evidence, starts>>
         /\ Moves(t) /\ thread'[t] = Idle /\ shown' = thread[t].next
         /\ faults' \in 0..MaxFaults /\ wake' \in BOOLEAN
         /\ mishaps \subseteq mishaps' /\ mishaps' \subseteq mishaps \cup {"unwoken", "blind"}
         /\ \/ RequestsRescan(thread[t].loaded, thread[t].next) /\ wake'
            \/ "unwoken" \in mishaps'
            \/ /\ ~RequestsRescan(thread[t].loaded, thread[t].next) /\ wake' = wake
               /\ thread[t].loaded = NoSettings => "blind" \in mishaps'
<1>1. /\ At(t, "wake") /\ UNCHANGED <<files, running, agent, kept, evidence, starts>>
      /\ thread' = [thread EXCEPT ![t] = Idle] /\ shown' = thread[t].next
  BY DEF Wake
<1>2. Moves(t) /\ thread'[t] = Idle
  BY <1>1, IdleTyped DEF Moves, LocalThreads, TypeOK
<1>3. CASE RequestsRescan(thread[t].loaded, thread[t].next)
  <2>1. \/ wake' = TRUE /\ UNCHANGED <<mishaps, faults>>
        \/ /\ Strikes("wake") /\ faults' = faults + 1
           /\ mishaps' = mishaps \cup {"unwoken"} /\ UNCHANGED wake
    BY <1>3 DEF Wake
  <2>2. faults' \in 0..MaxFaults
    BY <2>1, WriteFails DEF TypeOK
  <2>3. QED
    BY <1>1, <1>2, <1>3, <2>1, <2>2 DEF TypeOK
<1>4. CASE ~RequestsRescan(thread[t].loaded, thread[t].next)
  <2>1. /\ UNCHANGED <<wake, faults>>
        /\ mishaps' = IF thread[t].loaded = NoSettings THEN mishaps \cup {"blind"} ELSE mishaps
    BY <1>4 DEF Wake
  <2>2. QED
    BY <1>1, <1>2, <1>4, <2>1 DEF TypeOK
<1>5. QED
  BY <1>3, <1>4

\* A command starts.
LEMMA CommandDoes ==
  ASSUME TypeOK, GetAppConfig \/ SaveAppConfig
  PROVE  /\ At("main", "idle") /\ OnlyReads /\ UNCHANGED <<shown, faults>> /\ Moves("main")
         /\ thread'["main"].at = "exists"
         /\ \/ /\ shown = NoSettings /\ thread'["main"].job = "load"
               /\ Adds("overlap")
               /\ Startup.at # "idle" => "overlap" \in mishaps'
            \/ /\ shown # NoSettings /\ thread'["main"].job = "save"
               /\ thread'["main"].next \in Settings
               /\ Adds("late")
               /\ IF Startup.at # "idle" THEN "late" \in mishaps' ELSE UNCHANGED mishaps
<1>0. thread \in LocalThreads /\ "main" \in Threads
  BY DEF TypeOK, LocalThreads, Threads
<1>1. ASSUME NEW job \in {"load", "save"}, NEW next \in Settings \cup {NoSettings}, NEW mishap,
             Command(job, next, mishap)
      PROVE  /\ At("main", "idle") /\ OnlyReads /\ UNCHANGED <<shown, faults>> /\ Moves("main")
             /\ thread'["main"].at = "exists" /\ thread'["main"].job = job
             /\ thread'["main"].next = next
             /\ mishaps' = IF Startup.at = "idle" THEN mishaps ELSE mishaps \cup {mishap}
  <2> DEFINE r == [Idle EXCEPT !.at = "exists", !.job = job, !.next = next]
  <2>1. r \in Thread /\ r.at = "exists" /\ r.job = job /\ r.next = next
    BY IdleTyped DEF Thread, Steps
  <2>2. thread' = [thread EXCEPT !["main"] = r]
    BY <1>1 DEF Command
  <2>3. /\ At("main", "idle") /\ OnlyReads /\ UNCHANGED <<shown, faults>>
        /\ mishaps' = IF Startup.at = "idle" THEN mishaps ELSE mishaps \cup {mishap}
    BY <1>1 DEF Command, OnlyReads, Aside, Startup
  <2> HIDE DEF r
  <2>4. Moves("main") /\ thread'["main"] = r
    BY <1>0, <2>1, <2>2 DEF Moves, LocalThreads
  <2>5. QED
    BY <2>1, <2>3, <2>4
<1>2. CASE GetAppConfig
  BY <1>1, <1>2 DEF GetAppConfig, Adds
<1>3. CASE SaveAppConfig
  <2>1. PICK s \in UserSettings : shown # NoSettings /\ Command("save", s, "late")
    BY <1>3 DEF SaveAppConfig
  <2>2. s \in Settings
    BY ConfigAssumption
  <2>3. QED
    BY <1>1, <2>1, <2>2 DEF Adds
<1>4. QED
  BY <1>2, <1>3

\* The process starts with its start-up thread, ...
LEMMA StartDoes ==
  ASSUME TypeOK, ThreadInv, Start
  PROVE  /\ ~running /\ running' /\ UNCHANGED <<files, shown, reader, history, faults>>
         /\ starts' \in 0..MaxStarts
         /\ thread' \in LocalThreads /\ thread'["main"] = Idle
         /\ thread'["startup"].at = "exists" /\ thread'["startup"].job = "load"
<1>0. thread \in LocalThreads /\ {"main", "startup"} \subseteq Threads
  BY DEF TypeOK, LocalThreads, Threads
<1>1. /\ ~running /\ running' /\ UNCHANGED <<files, shown, reader, history, faults>>
      /\ starts' \in 0..MaxStarts /\ Goto("startup", "exists")
  BY ConfigAssumption DEF Start, Goto, TypeOK
<1>2. Goes("startup", "exists")
  BY <1>0, <1>1, Went DEF Steps
<1>3. QED
  BY <1>0, <1>1, <1>2, IdleTyped DEF Goes, Moves, ThreadInv, Startup

\* ... and ends with all that its threads were doing.
LEMMA StopDoes ==
  ASSUME TypeOK, Stop
  PROVE  /\ running /\ ~running' /\ UNCHANGED <<files, reader, kept, evidence, faults, starts>>
         /\ thread' \in LocalThreads /\ (\A t \in Threads : thread'[t] = Idle) /\ shown' = NoSettings
         /\ Adds("unwoken") /\ ((\E t \in Threads : thread[t].at = "wake") => "unwoken" \in mishaps')
BY IdleTyped DEF Stop, Adds, LocalThreads

-----------------------------------------------------------------------------
(* Type correctness.                                                       *)

\* The files as the program finds them are files.
LEMMA TypeInit == Init => TypeOK
<1> SUFFICES ASSUME Init PROVE TypeOK
  OBVIOUS
<1>1. /\ {primary, backup, corrupt} \subseteq File
      /\ kept \in Settings \cup {NoSettings}
  <2>1. \A s \in FirstSettings : Saved(s) \in File /\ [form |-> "legacy", settings |-> s] \in File
    BY ConfigAssumption, FilesTyped DEF File
  <2>2. {primary, backup, corrupt} \subseteq File
    BY <2>1, FilesTyped DEF Init
  <2>3. primary.settings \in Settings \cup {NoSettings}
    BY <2>2 DEF File
  <2>4. QED
    BY <2>2, <2>3 DEF Init
<1>2. thread \in [Threads -> Thread]
  BY IdleTyped DEF Init
<1>3. agent \in [settings : Settings, at : {"idle", "load", "fallback"}, starting : BOOLEAN]
  <2>1. (IF Loadable(primary) THEN primary.settings ELSE Defaults) \in Settings
    BY <1>1, FilesTyped
  <2>2. QED
    BY <2>1 DEF Init
<1>4. 0 \in 0..MaxFaults /\ 0 \in 0..MaxStarts
  BY ConfigAssumption
<1>5. QED
  BY <1>1, <1>2, <1>3, <1>4 DEF Init, TypeOK

\* The steps of the threads.
LEMMA ThreadTypeStep ==
  ASSUME TypeOK, ThreadInv, NEW t \in Threads, LoadOrCreate(t) \/ Save(t)
  PROVE  TypeOK'
<1> USE DEF files, reader
<1> DEFINE Mishaps == {"misread", "rewrite", "overlap", "late", "failed", "blind", "unwoken"}
<1>0. /\ primary \in File /\ backup \in File /\ corrupt \in File /\ thread[t] \in Thread
      /\ shown \in Settings \cup {NoSettings} /\ kept \in Settings \cup {NoSettings}
      /\ mishaps \subseteq Mishaps /\ notice \in BOOLEAN /\ wake \in BOOLEAN
      /\ faults \in 0..MaxFaults
  BY DEF TypeOK
\* What is left to show of each step.
<1>a. ASSUME thread' \in LocalThreads, primary' \in File, backup' \in File, corrupt' \in File,
             notice' \in BOOLEAN, wake' \in BOOLEAN, faults' \in 0..MaxFaults,
             shown' \in Settings \cup {NoSettings}, kept' \in Settings \cup {NoSettings},
             mishaps' \subseteq Mishaps, UNCHANGED <<running, agent, evidence, starts>>
      PROVE  TypeOK'
  BY <1>a DEF TypeOK, LocalThreads
<1> HIDE DEF Mishaps
<1>b. ASSUME OnlyReads, Adds("misread"), thread' \in LocalThreads, faults' \in 0..MaxFaults,
             shown' \in Settings \cup {NoSettings}
      PROVE  TypeOK'
  <2>1. mishaps' \subseteq Mishaps
    BY <1>0, <1>b DEF Adds, Mishaps
  <2>2. UNCHANGED <<primary, backup, corrupt, notice, wake, kept, running, agent, evidence, starts>>
    BY <1>b DEF OnlyReads, Aside
  <2>3. QED
    BY <1>0, <1>a, <1>b, <2>1, <2>2
<1>1. CASE Exists(t)
  <2>1. thread' \in LocalThreads
    BY <1>1, ExistsDoes DEF Calls, Goes, Moves
  <2>2. Adds("misread") /\ shown' = shown /\ faults' = faults
    BY <1>1, ExistsDoes DEF Adds
  <2>3. QED
    BY <1>0, <1>1, <1>b, <2>1, <2>2, ExistsDoes
<1>2. CASE Schema(t) \/ Schemas(t) \/ BackupSchema(t)
  <2>1. thread' \in LocalThreads /\ shown' \in Settings \cup {NoSettings}
    BY <1>0, <1>2, SchemaDoes DEF Returns, Goes, Moves
  <2>2. QED
    BY <1>2, <1>b, <2>1, SchemaDoes
<1>3. CASE LoadPrimary(t) \/ LoadBackup(t)
  <2>1. thread' \in LocalThreads /\ shown' = shown
    BY <1>3, LoadDoes DEF Moves
  <2>2. QED
    BY <1>0, <1>3, <1>b, <2>1, LoadDoes
<1>4. CASE Rewrite(t)
  <2>1. thread[t].loaded \in Settings
    BY <1>4 DEF Rewrite, At, ThreadInv, LocalsOK
  <2>2. primary' \in File
    BY <1>0, <1>4, <2>1, RewriteDoes, FilesTyped
  <2>3. thread' \in LocalThreads
    BY <1>4, <2>1, RewriteDoes DEF Moves
  <2>4. mishaps' \subseteq Mishaps
    BY <1>0, <1>4, <2>1, RewriteDoes DEF Mishaps
  <2>5. /\ UNCHANGED <<backup, corrupt, notice, shown, kept, running, wake, agent, evidence, starts>>
        /\ faults' \in 0..MaxFaults
    BY <1>4, <2>1, RewriteDoes DEF Aside
  <2>6. QED
    BY <1>0, <1>a, <2>2, <2>3, <2>4, <2>5
<1>5. CASE Unquarantine(t)
  <2>1. thread' \in LocalThreads /\ corrupt' \in File /\ shown' \in Settings \cup {NoSettings}
    BY <1>0, <1>5, UnquarantineDoes, FilesTyped DEF Goes, Returns, Moves
  <2>2. /\ UNCHANGED <<primary, backup, notice, kept, mishaps, running, wake, agent, evidence, starts>>
        /\ faults' \in 0..MaxFaults
    BY <1>5, UnquarantineDoes DEF Aside
  <2>3. QED
    BY <1>0, <1>a, <2>1, <2>2
<1>6. CASE Quarantine(t)
  <2>1. /\ thread' \in LocalThreads /\ corrupt' \in File /\ primary' \in File
        /\ shown' \in Settings \cup {NoSettings}
    BY <1>0, <1>6, QuarantineDoes, FilesTyped DEF Calls, Returns, Moves
  <2>2. /\ UNCHANGED <<backup, notice, kept, running, wake, agent, evidence, starts>>
        /\ faults' \in 0..MaxFaults
    BY <1>6, QuarantineDoes DEF Aside
  <2>3. mishaps' \subseteq Mishaps
    BY <1>0, <1>6, QuarantineDoes DEF Adds, Mishaps
  <2>4. QED
    BY <1>0, <1>a, <2>1, <2>2, <2>3
<1>7. CASE WriteNotice(t)
  <2>1. /\ UNCHANGED <<primary, backup, corrupt, shown, kept, mishaps>>
        /\ UNCHANGED <<running, wake, agent, evidence, starts>>
        /\ notice' \in BOOLEAN /\ faults' \in 0..MaxFaults /\ thread' \in LocalThreads
    BY <1>7, NoticeDoes DEF Aside, Goes, Moves
  <2>2. QED
    BY <1>0, <1>a, <2>1
<1>8. CASE Reread(t)
  <2>1. thread[t].loaded \in Settings
    BY <1>8 DEF Reread, At, ThreadInv, LocalsOK
  <2>2. thread' \in LocalThreads
    BY <1>8, <2>1, RereadDoes DEF Calls, Returns, Moves
  <2>3. QED
    BY <1>8, <1>b, <2>1, <2>2, RereadDoes
<1>9. CASE Preserve(t)
  <2>1. thread' \in LocalThreads /\ shown' = shown
    BY <1>9, PreserveDoes DEF Moves
  <2>2. QED
    BY <1>0, <1>9, <1>b, <2>1, PreserveDoes
<1>10. CASE WriteBackup(t)
  <2>1. thread[t].image \in File
    BY <1>0 DEF Thread
  <2>2. SaveFails(t) => thread' \in LocalThreads
                        /\ mishaps' \subseteq mishaps \cup {"failed"}
    BY SaveFailsDoes DEF Returns, Moves
  <2>3. thread' \in LocalThreads /\ mishaps' \subseteq Mishaps /\ backup' \in File
    BY <1>0, <1>10, <2>1, <2>2, BackupDoes DEF Moves, Mishaps
  <2>4. /\ UNCHANGED <<primary, corrupt, notice, kept, running, wake, agent, evidence, starts>>
        /\ faults' \in 0..MaxFaults /\ shown' \in Settings \cup {NoSettings}
    BY <1>10, BackupDoes DEF Aside
  <2>5. QED
    BY <1>0, <1>a, <2>3, <2>4
<1>11. CASE Replace(t)
  <2>1. thread[t].saving \in Settings
    BY <1>11 DEF Replace, At, ThreadInv, LocalsOK, SaveSteps
  <2>2. SaveFails(t) => thread' \in LocalThreads
                        /\ mishaps' \subseteq mishaps \cup {"failed"}
    BY SaveFailsDoes DEF Returns, Moves
  <2>3. thread' \in LocalThreads /\ mishaps' \subseteq Mishaps
        /\ primary' \in File /\ kept' \in Settings \cup {NoSettings}
    BY <1>0, <1>11, <2>1, <2>2, ReplaceDoes, FilesTyped, ZenonT(60) DEF Moves, Goes, Returns, Adds, Mishaps
  <2>4. /\ UNCHANGED <<backup, corrupt, notice, running, wake, agent, evidence, starts>>
        /\ faults' \in 0..MaxFaults /\ shown' \in Settings \cup {NoSettings}
    BY <1>11, <2>1, ReplaceDoes DEF Aside
  <2>5. QED
    BY <1>0, <1>a, <2>3, <2>4
<1>12. CASE Wake(t)
  <2>1. thread[t].next \in Settings
    BY <1>12 DEF Wake, At, ThreadInv, Main, Startup, Threads
  <2>2. thread' \in LocalThreads /\ mishaps' \subseteq Mishaps
    BY <1>0, <1>12, <2>1, WakeDoes DEF Moves, Mishaps
  <2>3. QED
    BY <1>0, <1>12, <1>a, <2>1, <2>2, WakeDoes
<1>13. QED
  BY <1>1, <1>2, <1>3, <1>4, <1>5, <1>6, <1>7, <1>8, <1>9, <1>10, <1>11, <1>12
     DEF LoadOrCreate, Save

\* The files, as the environment leaves them, are files, and so is what they hold.
LEMMA EnvironmentDoes ==
  ASSUME TypeOK, Damage \/ Upgrade
  PROVE  /\ ~running /\ UNCHANGED <<corrupt, notice, process, reader, mishaps, starts>>
         /\ primary' \in File /\ backup' \in File /\ faults' \in 0..MaxFaults
         /\ evidence' \in BOOLEAN
         /\ kept' = Held(primary', backup')
         /\ Loadable(primary') => primary' = primary
         /\ primary'.form = "missing" => primary.form = "missing"
         /\ primary.form = "missing" /\ primary'.form # "missing" => primary'.form = "future"
         /\ Usable(primary') => primary' = primary
         /\ evidence' => primary'.form = "damaged" /\ ~Loadable(backup')
<1>1. \A f \in File : Spoilt(f) \in File /\ ~Loadable(Spoilt(f))
                     /\ (Spoilt(f) = f \/ Spoilt(f).form = "damaged")
                     /\ (f.form = "missing" => Spoilt(f) = f)
  BY FilesTyped DEF Spoilt, Loadable
<1>2. {primary, backup} \subseteq File
  BY DEF TypeOK
<1>3. CASE Damage
  <2>1. faults' \in 0..MaxFaults
    BY <1>3, WriteFails DEF Damage
  <2>2. /\ primary' \in {primary, Spoilt(primary)} /\ backup' \in {backup, Spoilt(backup)}
        /\ ~running /\ kept' = Held(primary', backup')
        /\ evidence' = (primary'.form = "damaged" /\ ~Loadable(backup'))
        /\ UNCHANGED <<corrupt, notice, process, reader, mishaps, starts>>
    BY <1>3 DEF Damage
  <2>3. QED
    BY <1>1, <1>2, <2>1, <2>2 DEF Usable, Loadable
<1>4. CASE Upgrade
  <2>1. faults' \in 0..MaxFaults
    BY <1>4, WriteFails DEF Upgrade
  <2>2. /\ primary' = Contents("future")
        /\ backup' \in {Contents("future"), IF Loadable(primary) THEN primary ELSE backup}
        /\ ~running /\ kept' = Held(primary', backup') /\ evidence' = FALSE
        /\ UNCHANGED <<corrupt, notice, process, reader, mishaps, starts>>
    BY <1>4 DEF Upgrade
  <2>3. primary' \in File /\ primary'.form = "future" /\ backup' \in File
    BY <1>2, <2>2, FilesTyped
  <2>4. QED
    BY <2>1, <2>2, <2>3 DEF Usable, Loadable
<1>5. QED
  BY <1>3, <1>4

\* The steps of the agent.
LEMMA AgentDoes ==
  ASSUME TypeOK, Agent
  PROVE  /\ UNCHANGED <<files, process, kept, evidence, starts>>
         /\ agent' \in [settings : Settings, at : {"idle", "load", "fallback"}, starting : BOOLEAN]
         /\ wake' \in BOOLEAN /\ faults' \in 0..MaxFaults
         /\ mishaps' \subseteq mishaps \cup {"misread"} /\ mishaps \ {"blind", "unwoken"} \subseteq mishaps'
         /\ \/ agent'.at = "load" /\ UNCHANGED mishaps
            \/ /\ Usable(primary) /\ agent'.at = "idle" /\ wake' = wake
               /\ agent'.settings = IF Loadable(primary) THEN primary.settings ELSE Defaults
            \/ /\ agent'.at = "fallback" /\ wake' = wake /\ mishaps \subseteq mishaps'
               /\ ~Usable(primary) \/ "misread" \in mishaps'
            \/ /\ agent.at = "fallback" /\ agent'.at = "idle" /\ wake' = wake
               /\ mishaps \subseteq mishaps'
<1>0. agent \in [settings : Settings, at : {"idle", "load", "fallback"}, starting : BOOLEAN]
      /\ primary \in File /\ backup \in File
  BY DEF TypeOK
<1>1. CASE AgentReads
  <2>1. /\ wake' = FALSE /\ agent' = [agent EXCEPT !.at = "load"]
        /\ UNCHANGED <<files, process, history, faults, starts>>
    BY <1>1 DEF AgentReads
  <2>2. QED
    BY <1>0, <2>1 DEF history, TypeOK
<1>2. CASE AgentRestarts
  <2>1. /\ wake' = FALSE /\ agent' = [settings |-> Defaults, at |-> "load", starting |-> TRUE]
        /\ UNCHANGED <<files, process, history, faults, starts>>
    BY <1>2 DEF AgentRestarts
  <2>2. QED
    BY <2>1, FilesTyped DEF history, TypeOK
<1>3. ASSUME NEW s \in Settings, AgentHas(s)
      PROVE  /\ agent' \in [settings : Settings, at : {"idle", "load", "fallback"}, starting : BOOLEAN]
             /\ agent'.at = "idle" /\ agent'.settings = s
  BY <1>3 DEF AgentHas
<1>4. CASE AgentLoads
  <2>1. UNCHANGED <<files, process, wake, kept, evidence, starts>>
    BY <1>4 DEF AgentLoads
  <2>2. PICK got \in File :
          \/ /\ Loadable(got) \/ got.form = "missing"
             /\ got = primary
             /\ AgentHas(IF Loadable(got) THEN got.settings ELSE Defaults)
             /\ mishaps' = mishaps \ {"blind", "unwoken"} /\ UNCHANGED faults
          \/ /\ ~Loadable(got) /\ got.form # "missing"
             /\ Reads(primary, got)
             /\ agent' = [agent EXCEPT !.at = "fallback"]
    BY <1>4 DEF AgentLoads
  <2>3. CASE /\ Loadable(got) \/ got.form = "missing"
             /\ got = primary
             /\ AgentHas(IF Loadable(got) THEN got.settings ELSE Defaults)
             /\ mishaps' = mishaps \ {"blind", "unwoken"} /\ UNCHANGED faults
    <3>1. (IF Loadable(got) THEN got.settings ELSE Defaults) \in Settings
      BY FilesTyped
    <3>2. QED
      BY <1>3, <2>1, <2>3, <3>1 DEF Usable, TypeOK
  <2>4. CASE /\ ~Loadable(got) /\ got.form # "missing" /\ Reads(primary, got)
             /\ agent' = [agent EXCEPT !.at = "fallback"]
    <3>1. ~Usable(primary) \/ "misread" \in mishaps'
      BY <2>4, ReadGives DEF Usable
    <3>2. /\ faults' \in 0..MaxFaults /\ mishaps \subseteq mishaps'
          /\ mishaps' \subseteq mishaps \cup {"misread"}
      BY <2>4, ReadGives
    <3>3. QED
      BY <1>0, <2>1, <2>4, <3>1, <3>2 DEF TypeOK
  <2>5. QED
    BY <2>2, <2>3, <2>4
<1>5. CASE AgentFallsBack
  <2>1. UNCHANGED <<files, process, wake, kept, evidence, starts>> /\ agent.at = "fallback"
    BY <1>5 DEF AgentFallsBack
  <2>2. PICK got \in File :
          /\ Reads(backup, got)
          /\ AgentHas(IF Loadable(got) THEN got.settings ELSE agent.settings)
    BY <1>5 DEF AgentFallsBack
  <2>3. (IF Loadable(got) THEN got.settings ELSE agent.settings) \in Settings
    BY <1>0, FilesTyped
  <2>4. QED
    BY <1>3, <2>1, <2>2, <2>3, ReadGives DEF TypeOK
<1>6. QED
  BY <1>1, <1>2, <1>4, <1>5 DEF Agent

\* Every step keeps the types.
LEMMA TypeStep ==
  ASSUME TypeOK, ThreadInv, Next
  PROVE  TypeOK'
<1> USE DEF files, reader, history, process
<1>0. mishaps \subseteq {"misread", "rewrite", "overlap", "late", "failed", "blind", "unwoken"}
      /\ kept \in Settings \cup {NoSettings} /\ "main" \in Threads /\ "startup" \in Threads
  BY DEF TypeOK, Threads
<1>1. CASE \E t \in Threads : LoadOrCreate(t) \/ Save(t)
  BY <1>1, ThreadTypeStep
<1>2. CASE GetAppConfig \/ SaveAppConfig
  BY <1>0, <1>2, CommandDoes, ZenonT(60) DEF OnlyReads, Aside, Adds, Moves, LocalThreads, TypeOK
<1>3. CASE TakeNotice
  BY <1>3 DEF TakeNotice, TypeOK
<1>4. CASE Start
  BY <1>4, StartDoes DEF LocalThreads, TypeOK
<1>5. CASE Stop
  <2>1. mishaps' \subseteq {"misread", "rewrite", "overlap", "late", "failed", "blind", "unwoken"}
    BY <1>0, <1>5, StopDoes DEF Adds
  <2>2. /\ running' = FALSE /\ shown' = NoSettings /\ thread' \in [Threads -> Thread]
        /\ UNCHANGED <<files, reader, kept, evidence, faults, starts>>
    BY <1>5, StopDoes DEF LocalThreads, Stop
  <2>3. QED
    BY <2>1, <2>2 DEF TypeOK
<1>6. CASE Agent
  BY <1>0, <1>6, AgentDoes, ZenonT(60) DEF TypeOK
<1>7. CASE Damage \/ Upgrade
  <2>1. kept' \in Settings \cup {NoSettings}
    <3>1. /\ primary'.settings \in Settings \cup {NoSettings}
          /\ backup'.settings \in Settings \cup {NoSettings}
      BY <1>7, EnvironmentDoes DEF File
    <3>2. QED
      BY <1>0, <1>7, <3>1, EnvironmentDoes DEF Held
  <2>2. QED
    BY <1>7, <2>1, EnvironmentDoes DEF TypeOK
<1>8. QED
  BY <1>1, <1>2, <1>3, <1>4, <1>5, <1>6, <1>7 DEF Next

-----------------------------------------------------------------------------
(* The threads.                                                            *)

\* There are two of them.
LEMMA TwoThreads == Threads = {"main", "startup"}
BY DEF Threads

\* A thread that moves leaves the process, and lets no file become unusable.
LEMMA ThreadMoves ==
  ASSUME TypeOK, ThreadInv, NEW t \in Threads, LoadOrCreate(t) \/ Save(t)
  PROVE  /\ running /\ UNCHANGED <<running, agent, evidence, starts>> /\ Moves(t)
         /\ thread[t].at # "idle"
         /\ mishaps \subseteq mishaps'
         /\ mishaps' \subseteq mishaps \cup {"misread", "rewrite", "unwoken", "failed", "blind"}
         /\ Usable(primary) => Usable(primary')
         /\ Loadable(backup) => Loadable(backup')
         /\ primary' = primary \/ primary'.form \in {"missing", "current"}
         /\ t = "startup" => shown' = shown
<1> USE DEF files, reader, At
<1>0. primary \in File /\ backup \in File /\ shown \in Settings \cup {NoSettings}
  BY DEF TypeOK
<1>1. CASE Exists(t)
  BY <1>1, ExistsDoes DEF OnlyReads, Aside, Calls, Goes
<1>2. CASE Schema(t) \/ Schemas(t) \/ BackupSchema(t)
  BY <1>2, SchemaDoes, TwoThreads DEF OnlyReads, Aside, Adds, Returns, Goes
<1>3. CASE LoadPrimary(t) \/ LoadBackup(t)
  BY <1>3, LoadDoes DEF OnlyReads, Aside, Adds
<1>4. CASE Rewrite(t)
  <2>1. thread[t].loaded \in Settings
    BY <1>4 DEF Rewrite, At, ThreadInv, LocalsOK
  <2>2. Usable(Saved(thread[t].loaded)) /\ Saved(thread[t].loaded).form = "current"
    BY <2>1, FilesTyped DEF Usable, Holds
  <2>3. QED
    BY <1>4, <2>1, <2>2, RewriteDoes DEF Aside
<1>5. CASE Unquarantine(t)
  BY <1>5, UnquarantineDoes, TwoThreads DEF Aside, Returns, Goes
<1>6. CASE Quarantine(t)
  BY <1>6, QuarantineDoes, FilesTyped, TwoThreads DEF Aside, Adds, Calls, Returns, Usable
<1>7. CASE WriteNotice(t)
  BY <1>7, NoticeDoes DEF Aside, Goes
<1>8. CASE Reread(t)
  <2>1. thread[t].loaded \in Settings
    BY <1>8 DEF Reread, At, ThreadInv, LocalsOK
  <2>2. QED
    BY <1>8, <2>1, RereadDoes, TwoThreads DEF OnlyReads, Aside, Adds, Calls, Returns
<1>9. CASE Preserve(t)
  BY <1>9, PreserveDoes DEF OnlyReads, Aside, Adds
<1>10. CASE WriteBackup(t)
  <2>1. Loadable(thread[t].image)
    BY <1>10 DEF WriteBackup, At, ThreadInv, LocalsOK
  <2>2. SaveFails(t) => /\ Moves(t) /\ mishaps \subseteq mishaps'
                        /\ mishaps' \subseteq mishaps \cup {"failed"}
                        /\ t = "startup" => shown' = shown
    BY SaveFailsDoes, TwoThreads DEF Returns
  <2>3. QED
    BY <1>10, <2>1, <2>2, BackupDoes DEF Aside
<1>11. CASE Replace(t)
  <2>1. thread[t].saving \in Settings
    BY <1>11 DEF Replace, At, ThreadInv, LocalsOK, SaveSteps
  <2>2. SaveFails(t) => /\ Moves(t) /\ mishaps \subseteq mishaps'
                        /\ mishaps' \subseteq mishaps \cup {"failed"}
                        /\ t = "startup" => shown' = shown
    BY SaveFailsDoes, TwoThreads DEF Returns
  <2>3. Usable(Saved(thread[t].saving)) /\ Saved(thread[t].saving).form = "current"
    BY <2>1, FilesTyped DEF Usable, Holds
  <2>4. QED
    BY <1>11, <2>1, <2>2, <2>3, ReplaceDoes, TwoThreads DEF Aside, Adds, Goes, Returns
<1>12. CASE Wake(t)
  <2>1. thread[t].next \in Settings /\ t # "startup"
    BY <1>12 DEF Wake, At, ThreadInv, Main, Startup, Threads
  <2>2. QED
    BY <1>12, <2>1, WakeDoes
<1>13. QED
  BY <1>1, <1>2, <1>3, <1>4, <1>5, <1>6, <1>7, <1>8, <1>9, <1>10, <1>11, <1>12
     DEF LoadOrCreate, Save

\* A thread that moves has its locals in order, and its command to go on with or none.
LEMMA LocalsStep ==
  ASSUME TypeOK, ThreadInv, NEW t \in Threads, LoadOrCreate(t) \/ Save(t)
  PROVE  /\ LocalsOK(t)'
         /\ \/ thread'[t] = Idle
            \/ /\ thread'[t].job = thread[t].job /\ thread'[t].next = thread[t].next
               /\ thread'[t].at # "idle" /\ shown' = shown
         /\ thread'[t].at = "wake" => thread[t].job = "save"
<1> USE DEF files, reader, At
<1>0. /\ primary \in File /\ backup \in File /\ thread[t] \in Thread /\ LocalsOK(t)
      /\ thread[t].job = "save" => thread[t].next \in Settings
  BY DEF TypeOK, ThreadInv, Threads, Main, Startup
<1>i. ASSUME thread'[t] = Idle PROVE LocalsOK(t)' /\ thread'[t].at = "idle"
  BY <1>i, IdleTyped DEF LocalsOK, SaveSteps
\* A load that returns to the command that saves, or is over.
<1>r. ASSUME NEW found, Returns(t, found)
      PROVE  /\ LocalsOK(t)'
             /\ \/ thread'[t] = Idle
                \/ /\ thread'[t].job = thread[t].job /\ thread'[t].next = thread[t].next
                   /\ thread'[t].at = "preserve" /\ shown' = shown
  <2>1. CASE thread'[t] = Idle
    BY <2>1, <1>i
  <2>2. CASE /\ thread[t].job = "save" /\ thread'[t].at = "preserve" /\ thread'[t].job = "save"
             /\ thread'[t].next = thread[t].next /\ thread'[t].saving = thread[t].next
             /\ thread'[t].then = "saved" /\ shown' = shown
    BY <1>0, <2>2 DEF LocalsOK, SaveSteps
  <2>3. QED
    BY <1>r, <2>1, <2>2 DEF Returns
\* A load that saves, over a file that is usable.
<1>c. ASSUME NEW s \in Settings, NEW then \in {"created", "recovered", "migrated"}, Calls(t, s, then),
             then # "migrated" => s = Defaults, Usable(primary')
      PROVE  /\ LocalsOK(t)' /\ thread'[t].at = "preserve"
             /\ thread'[t].job = thread[t].job /\ thread'[t].next = thread[t].next
  BY <1>c DEF Calls, LocalsOK, SaveSteps
<1>1. CASE Exists(t)
  <2>1. CASE primary.form = "missing" /\ Calls(t, Defaults, "created")
    <3>1. Usable(primary') /\ shown' = shown
      BY <1>1, <2>1, ExistsDoes DEF OnlyReads, Usable
    <3>2. QED
      BY <1>c, <2>1, <3>1, FilesTyped
  <2>2. CASE Goes(t, "schema")
    BY <1>1, <2>2, ExistsDoes DEF Goes, LocalsOK, SaveSteps
  <2>3. QED
    BY <1>1, <2>1, <2>2, ExistsDoes
<1>2. CASE Schema(t) \/ Schemas(t) \/ BackupSchema(t)
  <2>1. CASE Returns(t, NoSettings)
    BY <1>i, <1>r, <2>1
  <2>2. CASE shown' = shown /\ (Goes(t, "load") \/ Goes(t, "backupSchema") \/ Goes(t, "unquarantine"))
    BY <2>2 DEF Goes, LocalsOK, SaveSteps
  <2>3. QED
    BY <1>2, <2>1, <2>2, SchemaDoes
<1>3. CASE LoadPrimary(t) \/ LoadBackup(t)
  <2>1. /\ UNCHANGED <<primary, backup, shown>>
        /\ thread'[t].job = thread[t].job /\ thread'[t].next = thread[t].next
        /\ \/ thread'[t].at \in {"fallback", "schemas"}
           \/ thread'[t].at = "reread" /\ Loadable(primary) /\ thread'[t].loaded = primary.settings
           \/ thread'[t].at = "rewrite" /\ Loadable(backup) /\ thread'[t].loaded = backup.settings
    BY <1>3, LoadDoes DEF OnlyReads
  <2>2. QED
    BY <1>0, <2>1, FilesTyped DEF LocalsOK, SaveSteps, Usable
<1>4. CASE Rewrite(t)
  <2>1. thread[t].loaded \in Settings
    BY <1>4 DEF Rewrite, At, ThreadInv, LocalsOK
  <2>2. Usable(Saved(thread[t].loaded))
    BY <2>1, FilesTyped DEF Usable, Holds
  <2>3. QED
    BY <1>4, <2>1, <2>2, RewriteDoes DEF LocalsOK, SaveSteps
<1>5. CASE Unquarantine(t)
  <2>1. CASE Returns(t, NoSettings)
    BY <1>i, <1>r, <2>1
  <2>2. CASE shown' = shown /\ Goes(t, "quarantine")
    BY <2>2 DEF Goes, LocalsOK, SaveSteps
  <2>3. QED
    BY <1>5, <2>1, <2>2, UnquarantineDoes
<1>6. CASE Quarantine(t)
  <2>1. CASE Returns(t, NoSettings)
    BY <1>i, <1>r, <2>1
  <2>2. CASE Calls(t, Defaults, "recovered") /\ primary' = Contents("missing") /\ shown' = shown
    <3>1. Usable(primary')
      BY <2>2, FilesTyped DEF Usable
    <3>2. QED
      BY <1>c, <2>2, <3>1, FilesTyped
  <2>3. QED
    BY <1>6, <2>1, <2>2, QuarantineDoes
<1>7. CASE WriteNotice(t)
  <2>1. thread[t].loaded \in Settings /\ Usable(primary) /\ thread[t].at = "notice"
    BY <1>0, <1>7, NoticeDoes DEF LocalsOK
  <2>2. Goes(t, "reread") /\ UNCHANGED <<primary, shown>>
    BY <1>7, NoticeDoes
  <2>3. QED
    BY <2>1, <2>2 DEF LocalsOK, Goes, SaveSteps
<1>8. CASE Reread(t)
  <2>1. thread[t].loaded \in Settings /\ Usable(primary) /\ thread[t].at = "reread"
    BY <1>8 DEF Reread, At, ThreadInv, LocalsOK
  <2>2. UNCHANGED primary
    BY <1>8, <2>1, RereadDoes DEF OnlyReads
  <2>3. CASE Calls(t, thread[t].loaded, "migrated") /\ UNCHANGED shown
    BY <1>c, <2>1, <2>2, <2>3
  <2>4. CASE Returns(t, NoSettings)
    BY <1>i, <1>r, <2>4
  <2>5. CASE Returns(t, thread[t].loaded)
    BY <1>i, <1>r, <2>5
  <2>6. QED
    BY <1>8, <2>1, <2>3, <2>4, <2>5, RereadDoes
<1>9. CASE Preserve(t)
  <2>1. /\ UNCHANGED <<primary, shown>> /\ thread[t].at = "preserve"
        /\ thread'[t].job = thread[t].job /\ thread'[t].next = thread[t].next
        /\ thread'[t].saving = thread[t].saving /\ thread'[t].then = thread[t].then
        /\ thread'[t].loaded = thread[t].loaded
        /\ \/ Loadable(primary) /\ thread'[t].at = "backup" /\ thread'[t].image = primary
           \/ thread'[t].at = "replace"
    BY <1>9, PreserveDoes DEF OnlyReads
  <2>2. QED
    BY <1>0, <2>1 DEF LocalsOK, SaveSteps, Usable
<1>f. ASSUME SaveFails(t)
      PROVE  /\ LocalsOK(t)'
             /\ \/ thread'[t] = Idle
                \/ /\ thread'[t].job = thread[t].job /\ thread'[t].next = thread[t].next
                   /\ thread'[t].at = "preserve" /\ shown' = shown
  BY <1>f, <1>i, <1>r, SaveFailsDoes
<1>10. CASE WriteBackup(t)
  <2>1. CASE /\ thread[t].at = "backup" /\ UNCHANGED <<primary, shown>> /\ thread'[t].at = "replace"
             /\ thread'[t].job = thread[t].job /\ thread'[t].next = thread[t].next
             /\ thread'[t].saving = thread[t].saving /\ thread'[t].then = thread[t].then
             /\ thread'[t].loaded = thread[t].loaded
    BY <1>0, <2>1 DEF LocalsOK, SaveSteps
  <2>2. CASE SaveFails(t)
    BY <1>f, <1>i, <2>2
  <2>3. QED
    BY <1>10, <2>1, <2>2, BackupDoes
<1>11. CASE Replace(t)
  <2>1. /\ thread[t].saving \in Settings /\ thread[t].at = "replace"
        /\ thread[t].then = "saved" => thread[t].job = "save"
    BY <1>0, <1>11 DEF Replace, At, LocalsOK, SaveSteps
  <2>2. CASE SaveFails(t)
    BY <1>f, <1>i, <2>2
  <2>3. CASE ~SaveFails(t)
    <3>1. Usable(primary')
      BY <1>11, <2>1, <2>3, ReplaceDoes, FilesTyped DEF Usable, Holds
    <3>2. CASE thread[t].then = "saved" /\ Goes(t, "wake") /\ shown' = shown
      BY <2>1, <3>1, <3>2 DEF Goes, LocalsOK, SaveSteps
    <3>3. CASE thread[t].then = "recovered" /\ Goes(t, "notice") /\ shown' = shown
      <4>1. thread[t].loaded \in Settings
        BY <1>0, <2>1, <3>3 DEF LocalsOK, SaveSteps
      <4>2. QED
        BY <3>1, <3>3, <4>1 DEF Goes, LocalsOK, SaveSteps
    <3>4. CASE Returns(t, thread[t].saving)
      BY <1>i, <1>r, <3>4
    <3>5. QED
      BY <1>11, <2>1, <2>3, <3>2, <3>3, <3>4, ReplaceDoes
  <2>4. QED
    BY <2>2, <2>3
<1>12. CASE Wake(t)
  <2>1. thread[t].next \in Settings
    BY <1>12 DEF Wake, At, ThreadInv, Main, Startup, Threads
  <2>2. thread'[t] = Idle
    BY <1>12, <2>1, WakeDoes
  <2>3. QED
    BY <1>i, <2>2
<1>13. QED
  BY <1>1, <1>2, <1>3, <1>4, <1>5, <1>6, <1>7, <1>8, <1>9, <1>10, <1>11, <1>12
     DEF LoadOrCreate, Save

\* The threads begin in order.
LEMMA ThreadInit == Init => ThreadInv /\ OrderInv
<1> SUFFICES ASSUME Init PROVE ThreadInv /\ OrderInv
  OBVIOUS
<1>1. /\ \A t \in Threads : thread[t] = Idle
      /\ Main = Idle /\ Startup = Idle /\ shown = NoSettings /\ mishaps = {}
  BY TwoThreads DEF Init, Main, Startup
<1>2. ThreadInv
  BY <1>1, IdleTyped DEF ThreadInv, LocalsOK, SaveSteps
<1>3. OrderInv
  BY <1>1, IdleTyped DEF OrderInv, Saving
<1>4. QED
  BY <1>2, <1>3

\* Every step keeps them so.
LEMMA ThreadStep ==
  ASSUME TypeOK, ThreadInv, OrderInv, Next
  PROVE  ThreadInv' /\ OrderInv'
<1> USE DEF files, process, reader, history
<1>0. /\ "main" \in Threads /\ "startup" \in Threads /\ thread \in LocalThreads
      /\ Main \in Thread /\ Startup \in Thread
  BY TwoThreads DEF TypeOK, LocalThreads, Main, Startup
<1>1. CASE \E t \in Threads : LoadOrCreate(t) \/ Save(t)
  <2>1. PICK t \in Threads : LoadOrCreate(t) \/ Save(t)
    BY <1>1
  <2>2. /\ running /\ running' /\ Moves(t) /\ thread[t].at # "idle"
        /\ mishaps \subseteq mishaps'
        /\ mishaps' \subseteq mishaps \cup {"misread", "rewrite", "unwoken", "failed", "blind"}
        /\ Usable(primary) => Usable(primary')
        /\ Loadable(backup) => Loadable(backup')
        /\ t = "startup" => shown' = shown
    BY <2>1, ThreadMoves
  <2>3. /\ LocalsOK(t)'
        /\ \/ thread'[t] = Idle
           \/ /\ thread'[t].job = thread[t].job /\ thread'[t].next = thread[t].next
              /\ thread'[t].at # "idle" /\ shown' = shown
        /\ thread'[t].at = "wake" => thread[t].job = "save"
    BY <2>1, LocalsStep
  <2>4. \A u \in Threads \ {t} : LocalsOK(u)'
    BY <2>2 DEF ThreadInv, LocalsOK, Moves
  <2>5. /\ \A u \in Threads : LocalsOK(u)'
        /\ thread'["main"] = Main \/ t = "main"
        /\ thread'["startup"] = Startup \/ t = "startup"
    BY <2>2, <2>3, <2>4, TwoThreads DEF Moves, Main, Startup
  <2>6. CASE t = "main"
    <3>1. thread'["startup"] = Startup
      BY <2>2, <2>6, TwoThreads DEF Moves, Startup
    <3>2. ThreadInv'
      BY <2>2, <2>3, <2>5, <2>6, <3>1, IdleTyped DEF ThreadInv, Main, Startup
    <3>3. OrderInv'
      BY <2>2, <2>3, <2>6, <3>1, IdleTyped DEF OrderInv, Saving, Main, Startup
    <3>4. QED
      BY <3>2, <3>3
  <2>7. CASE t = "startup"
    <3>1. thread'["main"] = Main
      BY <2>2, <2>7, TwoThreads DEF Moves, Main
    <3>2. ThreadInv'
      BY <2>2, <2>3, <2>5, <2>7, <3>1, IdleTyped DEF ThreadInv, Main, Startup
    <3>3. OrderInv'
      BY <2>2, <2>3, <2>7, <3>1, IdleTyped DEF OrderInv, Saving, Main, Startup
    <3>4. QED
      BY <3>2, <3>3
  <2>8. QED
    BY <2>6, <2>7, TwoThreads
<1>2. CASE GetAppConfig \/ SaveAppConfig
  <2>1. /\ running /\ Main.at = "idle" /\ UNCHANGED <<files, running, shown>>
        /\ thread'["startup"] = Startup /\ thread'["main"].at = "exists"
        /\ \/ /\ shown = NoSettings /\ thread'["main"].job = "load" /\ Adds("overlap")
              /\ Startup.at # "idle" => "overlap" \in mishaps'
           \/ /\ shown # NoSettings /\ thread'["main"].job = "save"
              /\ thread'["main"].next \in Settings /\ Adds("late")
              /\ IF Startup.at # "idle" THEN "late" \in mishaps' ELSE UNCHANGED mishaps
    BY <1>2, CommandDoes, TwoThreads DEF OnlyReads, Aside, Moves, Startup, Main, At
  <2>2. \A t \in Threads : LocalsOK(t)'
    <3>1. LocalsOK("main")'
      BY <2>1 DEF LocalsOK, SaveSteps
    <3>2. LocalsOK("startup")'
      BY <1>0, <2>1 DEF LocalsOK, ThreadInv, Startup
    <3>3. QED
      BY <3>1, <3>2, TwoThreads
  <2>3. ThreadInv'
    BY <2>1, <2>2 DEF ThreadInv, Main, Startup
  <2>4. OrderInv'
    BY <2>1 DEF OrderInv, Saving, Main, Startup, Adds
  <2>5. QED
    BY <2>3, <2>4
<1>3. CASE TakeNotice
  BY <1>3 DEF TakeNotice, ThreadInv, LocalsOK, OrderInv, Saving, Main, Startup
<1>4. CASE Start
  <2>1. /\ ~running /\ running' /\ UNCHANGED <<files, shown, mishaps>>
        /\ thread'["main"] = Idle
        /\ thread'["startup"].at = "exists" /\ thread'["startup"].job = "load"
        /\ shown = NoSettings
    BY <1>4, StartDoes DEF ThreadInv
  <2>2. \A t \in Threads : LocalsOK(t)'
    BY <2>1, IdleTyped, TwoThreads DEF LocalsOK, SaveSteps
  <2>3. ThreadInv'
    BY <2>1, <2>2, IdleTyped DEF ThreadInv, Main, Startup
  <2>4. OrderInv'
    BY <2>1, IdleTyped DEF OrderInv, Saving, Main, Startup
  <2>5. QED
    BY <2>3, <2>4
<1>5. CASE Stop
  <2>1. /\ ~running' /\ (\A t \in Threads : thread'[t] = Idle) /\ shown' = NoSettings
        /\ Adds("unwoken")
    BY <1>5, StopDoes
  <2>2. thread'["main"] = Idle /\ thread'["startup"] = Idle
    BY <1>0, <2>1
  <2>3. ThreadInv'
    BY <2>1, <2>2, IdleTyped DEF ThreadInv, LocalsOK, SaveSteps, Main, Startup
  <2>4. OrderInv'
    BY <2>1, <2>2, IdleTyped DEF OrderInv, Saving, Main, Startup, Adds
  <2>5. QED
    BY <2>3, <2>4
<1>6. CASE Agent
  <2>1. /\ UNCHANGED <<files, process>> /\ mishaps' \subseteq mishaps \cup {"misread"}
        /\ mishaps \ {"blind", "unwoken"} \subseteq mishaps'
    BY <1>6, AgentDoes
  <2>2. QED
    BY <2>1 DEF ThreadInv, LocalsOK, OrderInv, Saving, Main, Startup
<1>7. CASE Damage \/ Upgrade
  <2>1. ~running /\ UNCHANGED <<process, mishaps>>
    BY <1>7, EnvironmentDoes
  <2>2. \A t \in Threads : thread'[t] = Idle
    BY <2>1 DEF ThreadInv
  <2>3. QED
    BY <1>0, <2>1, <2>2, IdleTyped
       DEF ThreadInv, LocalsOK, SaveSteps, OrderInv, Saving, Main, Startup
<1>8. QED
  BY <1>1, <1>2, <1>3, <1>4, <1>5, <1>6, <1>7 DEF Next


\* Whoever moves while the other thread is at work was not alone.
LEMMA WhoMoves ==
  ASSUME TypeOK, ThreadInv, OrderInv, NEW t \in Threads, thread[t].at # "idle", Moves(t)
  PROVE  \/ /\ t = "main" /\ thread'["startup"] = Startup /\ thread[t] = Main
            /\ Startup.at = "idle" \/ ("overlap" \in mishaps /\ (Main.job = "save" => "late" \in mishaps))
         \/ /\ t = "startup" /\ thread'["main"] = Main /\ thread[t] = Startup
            /\ Startup.job = "load"
            /\ "overlap" \in mishaps \/ (Main.at = "idle" /\ shown = NoSettings)
            /\ Main.at = "idle" \/ ("overlap" \in mishaps /\ (Main.job = "save" => "late" \in mishaps))
BY TwoThreads DEF OrderInv, ThreadInv, Moves, Main, Startup, Saving

-----------------------------------------------------------------------------
(* What is kept.                                                           *)

\* At first the user's settings are in the configuration file, if anywhere.
LEMMA KeptInit == Init => KeptInv
<1> SUFFICES ASSUME Init PROVE KeptInv
  OBVIOUS
<1>1. TypeOK
  BY TypeInit
<1>2. /\ kept = primary.settings /\ primary \in File
      /\ \A t \in Threads : thread[t] = Idle
  BY <1>1 DEF Init, TypeOK
<1>3. kept # NoSettings => Loadable(primary) /\ primary.form # "missing"
  BY <1>2, FilesTyped DEF Loadable
<1>4. QED
  BY <1>2, <1>3, IdleTyped DEF KeptInv, KeptBy, Recovering, SaveSteps

\* A thread goes on with what is kept, and keeps it or replaces it by what the user saves.
LEMMA KeptThreadStep ==
  ASSUME TypeOK, ThreadInv, OrderInv, KeptInv, NEW t \in Threads, LoadOrCreate(t) \/ Save(t)
  PROVE  KeptInv'
<1> USE DEF files, At
<1> SUFFICES ASSUME Spared({"misread", "rewrite", "late"})', kept' # NoSettings
             PROVE  /\ primary'.form # "missing"
                    /\ IF Loadable(primary') THEN primary'.settings = kept' ELSE Holds(backup', kept')
                    /\ \A u \in Threads : KeptBy(u)'
  BY DEF KeptInv
<1>0. /\ primary \in File /\ backup \in File /\ thread[t] \in Thread /\ LocalsOK(t)
      /\ kept \in Settings \cup {NoSettings}
  BY DEF TypeOK, ThreadInv
<1>m. /\ Moves(t) /\ thread[t].at # "idle" /\ mishaps \subseteq mishaps'
      /\ Spared({"misread", "rewrite", "late"})
      /\ "misread" \notin mishaps' /\ "rewrite" \notin mishaps' /\ "late" \notin mishaps
  BY ThreadMoves DEF Spared
\* The command that saves replaces what is kept, with nobody else at work.
<1>s. CASE Replace(t) /\ Replaced(t) /\ thread[t].then = "saved"
  <2>1. thread[t].saving \in Settings /\ thread[t].job = "save" /\ thread[t].at = "replace"
    BY <1>0, <1>s DEF Replace, LocalsOK, SaveSteps
  <2>2. /\ primary' = Saved(thread[t].saving) /\ kept' = thread[t].saving
        /\ thread'[t].at = "wake"
    <3>1. Goes(t, "wake")
      BY <1>s, Went DEF Replaced, Steps
    <3>2. QED
      BY <1>s, <3>1 DEF Replaced, Goes
  <2>3. primary'.form = "current" /\ Holds(primary', kept')
    BY <2>1, <2>2, FilesTyped
  <2>4. \A u \in Threads : thread'[u].at \in {"wake", "idle"}
    <3>1. t = "main" /\ Startup.at = "idle" /\ thread'["startup"] = Startup
      BY <1>m, <2>1, WhoMoves DEF Main, Startup
    <3>2. QED
      BY <2>2, <3>1, TwoThreads DEF Startup
  <2>5. \A u \in Threads : KeptBy(u)'
    BY <2>4 DEF KeptBy, Recovering, SaveSteps
  <2>6. QED
    BY <2>3, <2>5 DEF Holds
<1>k. CASE ~(Replace(t) /\ Replaced(t) /\ thread[t].then = "saved")
  <2>0. kept' = kept
    <3>1. ~Replace(t) => UNCHANGED kept
      BY DEF LoadOrCreate, Save, Exists, Schema, LoadPrimary, LoadBackup, Rewrite, Schemas,
         BackupSchema, Unquarantine, Quarantine, WriteNotice, Reread, Preserve, WriteBackup,
         Wake, history
    <3>2. Replace(t) => UNCHANGED kept
      BY <1>k DEF Replace, Replaced
    <3>3. QED
      BY <3>1, <3>2
  <2>1. /\ kept # NoSettings /\ kept \in Settings /\ primary.form # "missing"
        /\ IF Loadable(primary) THEN primary.settings = kept ELSE Holds(backup, kept)
        /\ \A u \in Threads : KeptBy(u)
    BY <1>0, <1>m, <2>0 DEF KeptInv
  \* What there is to show: the files keep it, and thread t has it in hand.
  <2> DEFINE Goal == /\ primary'.form # "missing"
                     /\ IF Loadable(primary') THEN primary'.settings = kept ELSE Holds(backup', kept)
                     /\ Holds(backup, kept) => Holds(backup', kept)
                     /\ KeptBy(t)'
  <2>a. Goal => /\ primary'.form # "missing"
                /\ IF Loadable(primary') THEN primary'.settings = kept' ELSE Holds(backup', kept')
                /\ \A u \in Threads : KeptBy(u)'
    <3>1. \A u \in Threads \ {t} : (Holds(backup, kept) => Holds(backup', kept)) => KeptBy(u)'
      BY <1>m, <2>0, <2>1 DEF Moves, KeptBy
    <3>2. QED
      BY <2>0, <3>1
  <2>r. ASSUME UNCHANGED <<primary, backup>> PROVE KeptBy(t)' => Goal
    BY <2>1, <2>r
  <2>b. ASSUME NEW found, Returns(t, found) PROVE KeptBy(t)'
    BY <2>b, IdleTyped DEF Returns, KeptBy, Recovering, SaveSteps
  <2>f. ASSUME SaveFails(t) PROVE KeptBy(t)'
    BY <2>b, <2>f, SaveFailsDoes, IdleTyped DEF KeptBy, Recovering, SaveSteps
  <2> HIDE DEF Goal
  <2>1a. CASE Exists(t)
    <3>1. Goes(t, "schema") /\ UNCHANGED <<primary, backup>>
      BY <2>1, <2>1a, ExistsDoes DEF OnlyReads
    <3>2. KeptBy(t)'
      BY <3>1 DEF Goes, KeptBy, Recovering, SaveSteps
    <3>3. QED
      BY <2>r, <2>a, <3>1, <3>2
  <2>2. CASE Schema(t)
    <3>1. /\ UNCHANGED <<primary, backup>>
          /\ Returns(t, NoSettings) \/ Goes(t, "load")
      BY <2>2, SchemaDoes DEF OnlyReads, Schema
    <3>2. Goes(t, "load") => KeptBy(t)'
      BY DEF Goes, KeptBy, Recovering, SaveSteps
    <3>3. QED
      BY <2>r, <2>a, <2>b, <3>1, <3>2
  <2>3. CASE LoadPrimary(t) \/ LoadBackup(t)
    <3>1. UNCHANGED <<primary, backup>>
      BY <2>3, LoadDoes DEF OnlyReads
    <3>2. \/ thread'[t].at = "reread" /\ thread'[t].loaded = kept
          \/ thread'[t].at = "fallback" /\ Holds(backup, kept)
          \/ thread'[t].at = "rewrite" /\ thread'[t].loaded = kept
      <4>1. thread[t].at = "fallback" => Holds(backup, kept)
        BY <2>1 DEF KeptBy
      <4>2. QED
        BY <1>m, <2>1, <2>3, <4>1, LoadDoes DEF Holds
    <3>3. KeptBy(t)'
      BY <2>0, <3>1, <3>2 DEF KeptBy, Recovering, SaveSteps
    <3>4. QED
      BY <2>r, <2>a, <3>1, <3>3
  <2>4. CASE Rewrite(t)
    <3>1. thread[t].loaded = kept
      BY <2>1, <2>4 DEF Rewrite, KeptBy
    <3>2. /\ primary' = Saved(kept) /\ thread'[t].at = "reread" /\ thread'[t].loaded = kept
          /\ UNCHANGED backup
      BY <1>m, <2>1, <2>4, <3>1, RewriteDoes
    <3>3. Goal
      BY <2>0, <2>1, <3>2, FilesTyped DEF Goal, Holds, KeptBy, Recovering, SaveSteps
    <3>4. QED
      BY <2>a, <3>3
  <2>5. CASE Schemas(t) \/ BackupSchema(t) \/ Unquarantine(t) \/ Quarantine(t)
    BY <2>1, <2>5 DEF Schemas, BackupSchema, Unquarantine, Quarantine, KeptBy, Recovering
  <2>6. CASE WriteNotice(t)
    <3>1. Goes(t, "reread") /\ UNCHANGED <<primary, backup>> /\ thread[t].loaded = kept
      BY <2>1, <2>6, NoticeDoes DEF KeptBy
    <3>2. KeptBy(t)'
      BY <2>0, <3>1 DEF Goes, KeptBy, Recovering, SaveSteps
    <3>3. QED
      BY <2>r, <2>a, <3>1, <3>2
  <2>7. CASE Reread(t)
    <3>1. thread[t].loaded = kept
      BY <2>1, <2>7 DEF Reread, KeptBy
    <3>2. /\ UNCHANGED <<primary, backup>>
          /\ \/ Returns(t, NoSettings) \/ Returns(t, kept)
             \/ Calls(t, kept, "migrated")
      BY <2>1, <2>7, <3>1, RereadDoes DEF OnlyReads
    <3>3. Calls(t, kept, "migrated") => KeptBy(t)'
      BY <2>0 DEF Calls, KeptBy, Recovering, SaveSteps
    <3>4. QED
      BY <2>r, <2>a, <2>b, <3>2, <3>3
  <2>8. CASE Preserve(t)
    <3>1. /\ UNCHANGED <<primary, backup>> /\ thread[t].at = "preserve"
          /\ thread'[t].saving = thread[t].saving /\ thread'[t].then = thread[t].then
          /\ \/ Loadable(primary) /\ thread'[t].at = "backup" /\ thread'[t].image = primary
             \/ thread'[t].at = "replace"
      BY <2>8, PreserveDoes DEF OnlyReads
    <3>2. KeptBy(t)'
      BY <2>0, <2>1, <3>1 DEF KeptBy, Recovering, SaveSteps
    <3>3. QED
      BY <2>r, <2>a, <3>1, <3>2
  <2>9. CASE WriteBackup(t)
    <3>1. CASE SaveFails(t) /\ UNCHANGED backup
      BY <2>9, <2>r, <2>a, <2>f, <3>1, BackupDoes
    <3>2. CASE ~(SaveFails(t) /\ UNCHANGED backup)
      <4>1. /\ thread[t].at = "backup" /\ UNCHANGED primary /\ backup' = thread[t].image
            /\ thread'[t].at = "replace"
            /\ thread'[t].saving = thread[t].saving /\ thread'[t].then = thread[t].then
        BY <2>9, <3>2, BackupDoes
      <4>2. Holds(backup', kept)
        BY <1>0, <2>1, <4>1 DEF LocalsOK, KeptBy, Holds
      <4>3. Goal
        BY <2>0, <2>1, <4>1, <4>2 DEF Goal, KeptBy, Recovering, SaveSteps
      <4>4. QED
        BY <2>a, <4>3
    <3>3. QED
      BY <3>1, <3>2
  <2>10. CASE Replace(t)
    <3>1. thread[t].saving \in Settings /\ thread[t].at = "replace"
      BY <1>0, <2>10 DEF Replace, LocalsOK, SaveSteps
    <3>2. CASE SaveFails(t) /\ UNCHANGED primary
      BY <2>10, <2>r, <2>a, <2>f, <3>1, <3>2, ReplaceDoes
    <3>3. CASE ~(SaveFails(t) /\ UNCHANGED primary)
      <4>1. /\ primary' = Saved(thread[t].saving) /\ UNCHANGED backup
            /\ \/ thread[t].then = "saved" /\ kept' = thread[t].saving /\ Goes(t, "wake")
               \/ thread[t].then = "recovered" /\ Goes(t, "notice")
               \/ thread[t].then \in {"created", "migrated"} /\ Returns(t, thread[t].saving)
        BY <2>10, <3>1, <3>3, ReplaceDoes
      <4>2. CASE thread[t].then = "saved"
        <5>1. primary' = Saved(kept) /\ thread'[t].at = "wake"
          BY <2>0, <4>1, <4>2 DEF Goes
        <5>2. Goal
          BY <2>0, <2>1, <4>1, <5>1, FilesTyped DEF Goal, Holds, KeptBy, Recovering, SaveSteps
        <5>3. QED
          BY <2>a, <5>2
      <4>3. CASE thread[t].then # "saved"
        <5>1. thread[t].saving = kept /\ thread[t].loaded = kept
          BY <1>0, <2>1, <3>1, <4>3 DEF KeptBy, LocalsOK, SaveSteps
        <5>2. Goes(t, "notice") => KeptBy(t)'
          BY <2>0, <5>1 DEF Goes, KeptBy, Recovering, SaveSteps
        <5>3. Goal
          BY <2>b, <2>1, <4>1, <4>3, <5>1, <5>2, FilesTyped DEF Goal, Holds
        <5>4. QED
          BY <2>a, <5>3
      <4>4. QED
        BY <4>2, <4>3
    <3>4. QED
      BY <3>2, <3>3
  <2>11. CASE Wake(t)
    <3>1. thread[t].next \in Settings
      BY <2>11 DEF Wake, ThreadInv, Main, Startup, Threads
    <3>2. UNCHANGED <<primary, backup>> /\ thread'[t] = Idle
      BY <2>11, <3>1, WakeDoes
    <3>3. KeptBy(t)'
      BY <3>2, IdleTyped DEF KeptBy, Recovering, SaveSteps
    <3>4. QED
      BY <2>r, <2>a, <3>2, <3>3
  <2>12. QED
    BY <2>1a, <2>2, <2>3, <2>4, <2>5, <2>6, <2>7, <2>8, <2>9, <2>10, <2>11 DEF LoadOrCreate, Save
<1>q. QED
  BY <1>s, <1>k


\* The environment leaves what is kept where it can be found, or drops it.
LEMMA KeptStep ==
  ASSUME TypeOK, ThreadInv, OrderInv, KeptInv, Next
  PROVE  KeptInv'
<1> USE DEF files, process, reader, history
<1>1. CASE \E t \in Threads : LoadOrCreate(t) \/ Save(t)
  BY <1>1, KeptThreadStep
<1>2. ASSUME UNCHANGED <<primary, backup, kept>>, mishaps \ {"blind", "unwoken"} \subseteq mishaps',
             \A t \in Threads : thread'[t] = thread[t] \/ thread'[t].at \in {"idle", "exists"}
      PROVE  KeptInv'
  BY <1>2 DEF KeptInv, KeptBy, Spared, Recovering, SaveSteps
<1>3. CASE GetAppConfig \/ SaveAppConfig
  BY <1>2, <1>3, CommandDoes, TwoThreads DEF OnlyReads, Moves, Adds
<1>4. CASE TakeNotice
  BY <1>2, <1>4 DEF TakeNotice
<1>5. CASE Start
  BY <1>2, <1>5, StartDoes, IdleTyped, TwoThreads
<1>6. CASE Stop
  BY <1>2, <1>6, StopDoes, IdleTyped DEF Adds
<1>7. CASE Agent
  BY <1>2, <1>7, AgentDoes
<1>8. CASE Damage \/ Upgrade
  <2>1. /\ primary \in File /\ primary' \in File /\ backup' \in File
        /\ kept \in Settings \cup {NoSettings}
        /\ kept' = Held(primary', backup')
        /\ Loadable(primary') => primary' = primary
        /\ primary'.form = "missing" => primary.form = "missing"
        /\ mishaps' = mishaps
    BY <1>8, EnvironmentDoes DEF TypeOK
  <2>2. \A t \in Threads : thread'[t].at = "idle"
    BY <1>8, EnvironmentDoes, IdleTyped DEF ThreadInv
  <2>3. \A t \in Threads : KeptBy(t)'
    BY <2>2 DEF KeptBy, Recovering, SaveSteps
  <2>4. SUFFICES ASSUME Spared({"misread", "rewrite", "late"})', kept' # NoSettings
                 PROVE  /\ primary'.form # "missing"
                        /\ IF Loadable(primary') THEN primary'.settings = kept'
                                                 ELSE Holds(backup', kept')
    BY <2>3 DEF KeptInv
  <2>5. kept # NoSettings => /\ primary.form # "missing"
                             /\ Loadable(primary) => primary.settings = kept
    BY <2>1, <2>4 DEF KeptInv, Spared
  <2>6. CASE Loadable(primary')
    BY <2>1, <2>4, <2>5, <2>6, FilesTyped DEF Held, Loadable
  <2>7. CASE ~Loadable(primary')
    <3>1. kept # NoSettings
      BY <2>1, <2>4, <2>7, FilesTyped DEF Held
    <3>2. backup'.settings = kept'
      BY <2>1, <2>4, <2>7, <3>1, FilesTyped DEF Held
    <3>3. QED
      BY <2>1, <2>4, <2>5, <2>7, <3>1, <3>2, FilesTyped, ConfigAssumption DEF Holds
  <2>8. QED
    BY <2>6, <2>7
<1>9. QED
  BY <1>1, <1>3, <1>4, <1>5, <1>6, <1>7, <1>8 DEF Next

-----------------------------------------------------------------------------
(* What a command of the window has read or written.                       *)

\* At first no command has read anything, and the window shows nothing.
LEMMA ReadInit == Init => ReadInv /\ BackupInv /\ ScreenInv
<1> SUFFICES ASSUME Init PROVE ReadInv /\ BackupInv /\ ScreenInv
  OBVIOUS
<1>1. Main = Idle /\ running = FALSE
  BY TwoThreads DEF Init, Main
<1>2. QED
  BY <1>1, IdleTyped DEF ReadInv, BackupInv, ScreenInv, Saving, SaveSteps

\* As long as a command has the files to itself they hold what it has read or written.
LEMMA ReadThreadStep ==
  ASSUME TypeOK, ThreadInv, OrderInv, ReadInv, NEW t \in Threads, LoadOrCreate(t) \/ Save(t)
  PROVE  ReadInv'
<1> USE DEF files, At
<1> DEFINE On(m, file) == /\ m.at \in {"reread", "notice"} => Holds(file, m.loaded)
                          /\ m.at \in SaveSteps /\ m.then = "saved" /\ m.loaded # NoSettings =>
                               Holds(file, m.loaded)
                          /\ m.at = "wake" => Holds(file, m.next)
<1>0. ReadInv <=> (Alone => On(Main, primary))
  BY DEF ReadInv
<1>1. ReadInv' <=> (Alone' => On(Main', primary'))
  BY DEF ReadInv
<1> HIDE DEF On
<1>m. /\ Moves(t) /\ thread[t].at # "idle" /\ mishaps \subseteq mishaps' /\ LocalsOK(t)
      /\ primary \in File /\ thread[t] \in Thread
  BY ThreadMoves DEF ThreadInv, TypeOK
<1>i. ASSUME Main'.at = "idle" PROVE ReadInv'
  BY <1>1, <1>i DEF On, SaveSteps
<1>l. \/ thread'[t] = Idle
      \/ thread'[t].job = thread[t].job /\ thread'[t].next = thread[t].next
  BY LocalsStep
<1>2. CASE t = "startup"
  BY <1>0, <1>1, <1>2, <1>i, <1>m, WhoMoves, TwoThreads DEF Alone, Main
<1>3. CASE t = "main"
  <2>0. SUFFICES ASSUME Alone', thread'[t] # Idle
                 PROVE  On(thread'[t], primary')
    BY <1>1, <1>3, <1>i, IdleTyped DEF Main
  <2>1. thread[t] = Main /\ thread'[t] = Main' /\ thread'[t].job = Main.job
        /\ thread'[t].next = Main.next
    BY <1>3, <1>l, <2>0 DEF Main
  <2>2. On(Main, primary)
    BY <1>0, <1>m, <2>0, <2>1 DEF Alone, Main
  <2>r. ASSUME NEW found \in Settings \cup {NoSettings}, Returns(t, found),
               found # NoSettings => Holds(primary', found)
        PROVE  On(thread'[t], primary')
    BY <2>0, <2>r DEF Returns, On, SaveSteps
  <2>3. CASE Exists(t)
    BY <2>3, ExistsDoes DEF Calls, Goes, On, SaveSteps
  <2>4. CASE Schema(t) \/ Schemas(t) \/ BackupSchema(t)
    BY <2>4, <2>r, SchemaDoes DEF Goes, On, SaveSteps
  <2>5. CASE LoadPrimary(t) \/ LoadBackup(t)
    BY <2>5, LoadDoes DEF OnlyReads, On, SaveSteps, Holds
  <2>6. CASE Rewrite(t)
    <3>1. thread[t].loaded \in Settings
      BY <1>m, <2>6 DEF Rewrite, LocalsOK
    <3>2. QED
      BY <2>6, <3>1, RewriteDoes, FilesTyped DEF On, SaveSteps
  <2>7. CASE Unquarantine(t)
    BY <2>7, <2>r, UnquarantineDoes DEF Goes, On, SaveSteps
  <2>8. CASE Quarantine(t)
    BY <2>8, <2>r, QuarantineDoes DEF Calls, On, SaveSteps
  <2>9. CASE WriteNotice(t)
    BY <2>1, <2>2, <2>9, NoticeDoes DEF Goes, On, SaveSteps
  <2>10. CASE Reread(t)
    <3>1. thread[t].loaded \in Settings /\ Holds(primary, thread[t].loaded)
      BY <1>m, <2>1, <2>2, <2>10 DEF Reread, LocalsOK, On
    <3>2. UNCHANGED primary
      BY <2>10, <3>1, RereadDoes DEF OnlyReads
    <3>3. CASE Calls(t, thread[t].loaded, "migrated")
      BY <3>3 DEF Calls, On, SaveSteps
    <3>4. CASE Returns(t, NoSettings) \/ Returns(t, thread[t].loaded)
      BY <2>r, <3>1, <3>2, <3>4
    <3>5. QED
      BY <2>10, <3>1, <3>3, <3>4, RereadDoes
  <2>11. CASE Preserve(t)
    <3>1. /\ UNCHANGED primary /\ thread[t].at = "preserve"
          /\ thread'[t].loaded = thread[t].loaded /\ thread'[t].then = thread[t].then
          /\ thread'[t].at \in {"backup", "replace"}
      BY <2>11, PreserveDoes DEF OnlyReads
    <3>2. QED
      BY <2>1, <2>2, <3>1 DEF On, SaveSteps
  <2>f. ASSUME SaveFails(t) PROVE On(thread'[t], primary')
    BY <2>0, <2>f, <2>r, SaveFailsDoes
  <2>12. CASE WriteBackup(t)
    <3>1. CASE /\ UNCHANGED primary /\ thread[t].at = "backup"
               /\ thread'[t].loaded = thread[t].loaded /\ thread'[t].then = thread[t].then
               /\ thread'[t].at = "replace"
      BY <2>1, <2>2, <3>1 DEF On, SaveSteps
    <3>2. QED
      BY <2>12, <2>f, <3>1, BackupDoes
  <2>13. CASE Replace(t)
    <3>1. /\ thread[t].saving \in Settings /\ thread[t].at = "replace"
          /\ thread[t].then = "saved" => thread[t].saving = thread[t].next
          /\ thread[t].then # "saved" => thread[t].loaded = thread[t].saving
      BY <1>m, <2>13 DEF Replace, LocalsOK, SaveSteps
    <3>2. CASE ~SaveFails(t)
      <4>1. /\ primary' = Saved(thread[t].saving)
            /\ \/ thread[t].then = "saved" /\ Goes(t, "wake")
               \/ thread[t].then = "recovered" /\ Goes(t, "notice")
               \/ Returns(t, thread[t].saving)
        BY <2>13, <3>1, <3>2, ReplaceDoes
      <4>2. Holds(primary', thread[t].saving)
        BY <3>1, <4>1, FilesTyped
      <4>3. CASE Returns(t, thread[t].saving)
        BY <2>r, <3>1, <4>2, <4>3
      <4>4. CASE ~Returns(t, thread[t].saving)
        BY <3>1, <4>1, <4>2, <4>4 DEF Goes, On, SaveSteps
      <4>5. QED
        BY <4>3, <4>4
    <3>3. QED
      BY <2>f, <3>2
  <2>14. CASE Wake(t)
    <3>1. thread[t].next \in Settings
      BY <2>14 DEF Wake, ThreadInv, Main, Startup, Threads
    <3>2. QED
      BY <2>0, <2>14, <3>1, WakeDoes
  <2>15. QED
    BY <2>3, <2>4, <2>5, <2>6, <2>7, <2>8, <2>9, <2>10, <2>11, <2>12, <2>13, <2>14
       DEF LoadOrCreate, Save
<1>4. QED
  BY <1>2, <1>3, TwoThreads


\* Nobody else changes the files while a command runs.
LEMMA ReadStep ==
  ASSUME TypeOK, ThreadInv, OrderInv, ReadInv, Next
  PROVE  ReadInv'
<1> USE DEF files, process, reader, history
<1>1. CASE \E t \in Threads : LoadOrCreate(t) \/ Save(t)
  BY <1>1, ReadThreadStep
<1>2. ASSUME thread'["main"].at \in {"idle", "exists"}
      PROVE  ReadInv'
  BY <1>2 DEF ReadInv, Main, SaveSteps
<1>3. ASSUME thread' = thread, primary' = primary, mishaps \ {"blind", "unwoken"} \subseteq mishaps'
      PROVE  ReadInv'
  BY <1>3 DEF ReadInv, Alone, Main
<1>4. CASE GetAppConfig \/ SaveAppConfig
  BY <1>2, <1>4, CommandDoes
<1>5. CASE TakeNotice
  BY <1>3, <1>5 DEF TakeNotice
<1>6. CASE Start
  BY <1>2, <1>6, StartDoes, IdleTyped
<1>7. CASE Stop
  BY <1>2, <1>7, StopDoes, IdleTyped, TwoThreads
<1>8. CASE Agent
  BY <1>3, <1>8, AgentDoes
<1>9. CASE Damage \/ Upgrade
  <2>1. thread'["main"].at = "idle"
    BY <1>9, EnvironmentDoes, IdleTyped, TwoThreads DEF ThreadInv
  <2>2. QED
    BY <1>2, <2>1
<1>10. QED
  BY <1>1, <1>4, <1>5, <1>6, <1>7, <1>8, <1>9 DEF Next

\* A save passes the file it is to replace on to the backup.
LEMMA BackupThreadStep ==
  ASSUME TypeOK, ThreadInv, OrderInv, BackupInv, NEW t \in Threads, LoadOrCreate(t) \/ Save(t)
  PROVE  BackupInv'
<1> USE DEF files, At
<1> SUFFICES ASSUME Spared({"misread", "late"})', Main'.then = "saved",
                    Main'.at \in {"backup", "replace"}
             PROVE  /\ Main'.at = "backup" => Main'.image = primary'
                    /\ Main'.at = "replace" /\ Loadable(primary') =>
                         backup'.settings = primary'.settings
  BY DEF BackupInv
<1>m. /\ Moves(t) /\ thread[t].at # "idle" /\ mishaps \subseteq mishaps' /\ LocalsOK(t)'
  BY ThreadMoves, LocalsStep
<1>n. /\ Spared({"misread", "late"}) /\ "late" \notin mishaps /\ "misread" \notin mishaps'
  BY <1>m DEF Spared
<1>i. thread'[t] # Idle \/ t = "startup"
  BY IdleTyped, TwoThreads DEF Main
<1>1. CASE t = "startup"
  <2>1. Main' = Main /\ (Main.at = "idle" \/ Main.job # "save")
    BY <1>1, <1>m, <1>n, WhoMoves, TwoThreads DEF Main
  <2>2. Main.job = "save"
    BY <2>1, TwoThreads DEF ThreadInv, LocalsOK, SaveSteps, Main
  <2>3. QED
    BY <2>1, <2>2
<1>2. CASE t = "main"
  <2>0. thread[t] = Main /\ thread'[t] = Main' /\ thread'[t] # Idle
    BY <1>2, <1>i DEF Main
  <2>a. ASSUME thread'[t].at \notin {"backup", "replace"} PROVE FALSE
    BY <2>0, <2>a
  <2>r. ASSUME NEW found, Returns(t, found) PROVE FALSE
    BY <2>0, <2>a, <2>r DEF Returns
  <2>1. CASE Preserve(t)
    BY <1>n, <2>0, <2>1, PreserveDoes DEF OnlyReads
  <2>2. CASE WriteBackup(t)
    <3>1. ~SaveFails(t)
      BY <2>0, <2>r, SaveFailsDoes
    <3>2. /\ UNCHANGED primary /\ backup' = Main.image /\ Main.at = "backup"
          /\ Main.then = "saved" /\ Main'.at = "replace"
      BY <2>0, <2>2, <3>1, BackupDoes
    <3>3. QED
      BY <1>n, <3>2 DEF BackupInv
  <2>3. CASE Replace(t)
    <3>1. thread[t].saving \in Settings
      BY <2>3 DEF Replace, ThreadInv, LocalsOK, SaveSteps
    <3>2. ~SaveFails(t)
      BY <2>0, <2>r, SaveFailsDoes
    <3>3. QED
      BY <2>3, <2>a, <2>r, <3>1, <3>2, ReplaceDoes DEF Goes
  <2>4. CASE Wake(t)
    <3>1. thread[t].next \in Settings
      BY <2>4 DEF Wake, ThreadInv, Main, Startup, Threads
    <3>2. QED
      BY <2>0, <2>4, <3>1, WakeDoes
  <2>5. CASE LoadOrCreate(t)
    <3>1. CASE Exists(t)
      BY <2>a, <3>1, ExistsDoes DEF Calls, Goes
    <3>2. CASE Schema(t) \/ Schemas(t) \/ BackupSchema(t)
      BY <2>a, <2>r, <3>2, SchemaDoes DEF Goes
    <3>3. CASE LoadPrimary(t) \/ LoadBackup(t)
      BY <2>a, <3>3, LoadDoes
    <3>4. CASE Rewrite(t)
      <4>1. thread[t].loaded \in Settings
        BY <3>4 DEF Rewrite, ThreadInv, LocalsOK
      <4>2. QED
        BY <2>a, <3>4, <4>1, RewriteDoes
    <3>5. CASE Unquarantine(t) \/ Quarantine(t)
      BY <2>a, <2>r, <3>5, UnquarantineDoes, QuarantineDoes DEF Goes, Calls
    <3>6. CASE WriteNotice(t)
      BY <2>a, <3>6, NoticeDoes DEF Goes
    <3>7. CASE Reread(t)
      <4>1. thread[t].loaded \in Settings
        BY <3>7 DEF Reread, ThreadInv, LocalsOK
      <4>2. QED
        BY <2>a, <2>r, <3>7, <4>1, RereadDoes DEF Calls
    <3>8. QED
      BY <2>5, <3>1, <3>2, <3>3, <3>4, <3>5, <3>6, <3>7 DEF LoadOrCreate
  <2>6. QED
    BY <2>1, <2>2, <2>3, <2>4, <2>5 DEF Save
<1>3. QED
  BY <1>1, <1>2, TwoThreads

\* Nobody else changes files or commands while one saves.
LEMMA BackupStep ==
  ASSUME TypeOK, ThreadInv, OrderInv, BackupInv, Next
  PROVE  BackupInv'
<1> USE DEF files, process, reader, history
<1>1. CASE \E t \in Threads : LoadOrCreate(t) \/ Save(t)
  BY <1>1, BackupThreadStep
<1>2. ASSUME thread'["main"].at \in {"idle", "exists"}
      PROVE  BackupInv'
  BY <1>2 DEF BackupInv, Main
<1>3. ASSUME thread' = thread, primary' = primary, backup' = backup,
             mishaps \ {"blind", "unwoken"} \subseteq mishaps'
      PROVE  BackupInv'
  BY <1>3 DEF BackupInv, Main, Spared
<1>4. CASE GetAppConfig \/ SaveAppConfig
  BY <1>2, <1>4, CommandDoes
<1>5. CASE TakeNotice
  BY <1>3, <1>5 DEF TakeNotice
<1>6. CASE Start
  BY <1>2, <1>6, StartDoes, IdleTyped
<1>7. CASE Stop
  BY <1>2, <1>7, StopDoes, IdleTyped, TwoThreads
<1>8. CASE Agent
  BY <1>3, <1>8, AgentDoes
<1>9. CASE Damage \/ Upgrade
  <2>1. thread'["main"].at = "idle"
    BY <1>9, EnvironmentDoes, IdleTyped, TwoThreads DEF ThreadInv
  <2>2. QED
    BY <1>2, <2>1
<1>10. QED
  BY <1>1, <1>4, <1>5, <1>6, <1>7, <1>8, <1>9 DEF Next

-----------------------------------------------------------------------------
(* What the window shows.                                                  *)

\* A command of the window leaves it with what it has read or written.
LEMMA ScreenThreadStep ==
  ASSUME TypeOK, ThreadInv, OrderInv, ReadInv, ScreenInv,
         NEW t \in Threads, LoadOrCreate(t) \/ Save(t)
  PROVE  ScreenInv'
<1> USE DEF files, At
<1>m. /\ Moves(t) /\ thread[t].at # "idle" /\ mishaps \subseteq mishaps' /\ LocalsOK(t)
      /\ primary \in File /\ thread[t] \in Thread /\ (t = "startup" => shown' = shown)
  BY ThreadMoves DEF ThreadInv, TypeOK
<1>l. \/ thread'[t] = Idle
      \/ /\ thread'[t].job = thread[t].job /\ thread'[t].next = thread[t].next
         /\ thread'[t].at # "idle" /\ shown' = shown
  BY LocalsStep
<1> SUFFICES ASSUME "overlap" \notin mishaps'
             PROVE  /\ /\ Main'.at = "idle" /\ shown' # NoSettings
                       /\ ~({"misread", "failed"} \subseteq mishaps')
                       => Holds(primary', shown')
                    /\ Saving' /\ Main'.at # "wake" /\ "misread" \notin mishaps' =>
                         /\ Holds(primary', shown')
                         /\ Main'.at \notin Recovering
                         /\ Main'.at \in SaveSteps /\ Main'.then # "saved" => Main'.saving = shown'
  BY DEF ScreenInv
<1>0. "overlap" \notin mishaps /\ "late" \notin mishaps
  BY <1>m DEF OrderInv
<1>1. CASE t = "startup"
  <2>1. thread'["main"] = Main /\ Main.at = "idle" /\ shown' = NoSettings
    BY <1>0, <1>1, <1>m, WhoMoves, TwoThreads
  <2>2. Main'.at = "idle"
    BY <2>1 DEF Main
  <2>3. QED
    BY <2>1, <2>2 DEF Saving
<1>2. CASE t = "main"
  <2>1. thread[t] = Main /\ thread'[t] = Main' /\ Alone
    BY <1>0, <1>2 DEF Main, Alone
  <2>2. CASE thread'[t] = Idle
    <3>1. SUFFICES ASSUME shown' # NoSettings, ~({"misread", "failed"} \subseteq mishaps')
                   PROVE  Holds(primary', shown')
      BY <2>1, <2>2, IdleTyped DEF Saving
    <3>2. ~({"misread", "failed"} \subseteq mishaps)
      BY <1>m, <3>1
    <3>r. ASSUME NEW found, Returns(t, found), Idle.at # "preserve"
          PROVE  shown' = found
      BY <1>2, <2>2, <3>r DEF Returns
    <3>s. Idle.at # "preserve" /\ Idle.at # "schema"
      BY IdleTyped
    <3>f. ASSUME SaveFails(t), thread[t].at \in {"backup", "replace"}, UNCHANGED primary
          PROVE  Holds(primary', shown')
      <4>1. CASE thread[t].then = "saved"
        <5>1. "failed" \in mishaps' /\ shown' = shown
          BY <3>f, <4>1, SaveFailsDoes
        <5>2. thread[t].job = "save" /\ "misread" \notin mishaps
          BY <1>m, <3>1, <3>f, <4>1, <5>1 DEF LocalsOK, SaveSteps
        <5>3. Saving /\ Main.at # "wake"
          BY <1>m, <2>1, <3>f, <5>2 DEF Saving
        <5>4. QED
          BY <1>0, <3>f, <5>1, <5>2, <5>3 DEF ScreenInv
      <4>2. CASE thread[t].then # "saved"
        BY <3>1, <3>f, <3>r, <3>s, <4>2, SaveFailsDoes
      <4>3. QED
        BY <4>1, <4>2
    <3>3. CASE Exists(t)
      BY <2>2, <3>3, <3>s, IdleTyped, ExistsDoes DEF Calls, Goes
    <3>4. CASE Schema(t) \/ Schemas(t) \/ BackupSchema(t)
      BY <2>2, <3>4, <3>1, <3>r, <3>s, IdleTyped, SchemaDoes DEF Goes
    <3>5. CASE LoadPrimary(t) \/ LoadBackup(t)
      BY <2>2, <3>5, IdleTyped, LoadDoes
    <3>6. CASE Rewrite(t)
      BY <2>2, <1>m, <3>6, IdleTyped, RewriteDoes DEF Rewrite, LocalsOK
    <3>7. CASE Unquarantine(t)
      BY <2>2, <3>7, <3>1, <3>r, <3>s, IdleTyped, UnquarantineDoes DEF Goes
    <3>8. CASE Quarantine(t)
      BY <2>2, <3>8, <3>1, <3>r, <3>s, IdleTyped, QuarantineDoes DEF Calls
    <3>9. CASE WriteNotice(t)
      BY <2>2, <3>9, IdleTyped, NoticeDoes DEF Goes
    <3>10. CASE Reread(t)
      <4>1. thread[t].loaded \in Settings /\ thread[t].at = "reread"
        BY <1>m, <3>10 DEF Reread, LocalsOK
      <4>2. Holds(primary, thread[t].loaded) /\ UNCHANGED primary
        BY <2>1, <3>10, <4>1, RereadDoes DEF ReadInv, OnlyReads
      <4>3. CASE Calls(t, thread[t].loaded, "migrated")
        BY <2>2, <4>3, <3>s DEF Calls
      <4>4. QED
        BY <3>1, <3>10, <3>r, <3>s, <4>1, <4>2, <4>3, RereadDoes
    <3>11. CASE Preserve(t)
      BY <2>2, <3>11, IdleTyped, PreserveDoes
    <3>12. CASE WriteBackup(t)
      BY <2>2, <3>12, <3>f, IdleTyped, BackupDoes
    <3>13. CASE Replace(t)
      <4>1. thread[t].saving \in Settings /\ thread[t].at = "replace"
        BY <1>m, <3>13 DEF Replace, LocalsOK, SaveSteps
      <4>2. CASE SaveFails(t) /\ UNCHANGED primary
        BY <3>f, <4>1, <4>2
      <4>3. CASE ~(SaveFails(t) /\ UNCHANGED primary)
        <5>1. /\ primary' = Saved(thread[t].saving)
              /\ \/ Goes(t, "wake") \/ Goes(t, "notice") \/ Returns(t, thread[t].saving)
          BY <3>13, <4>1, <4>3, ReplaceDoes
        <5>2. Returns(t, thread[t].saving)
          BY <2>2, <5>1, IdleTyped DEF Goes
        <5>3. QED
          BY <3>r, <3>s, <4>1, <5>1, <5>2, FilesTyped
      <4>4. QED
        BY <4>2, <4>3
    <3>14. CASE Wake(t)
      <4>1. thread[t].next \in Settings /\ thread[t].at = "wake"
        BY <3>14 DEF Wake, ThreadInv, Main, Startup, Threads
      <4>2. shown' = thread[t].next /\ UNCHANGED primary
        BY <3>14, <4>1, WakeDoes
      <4>3. QED
        BY <2>1, <4>1, <4>2 DEF ReadInv
    <3>15. QED
      BY <3>3, <3>4, <3>5, <3>6, <3>7, <3>8, <3>9, <3>10, <3>11, <3>12, <3>13, <3>14
         DEF LoadOrCreate, Save
  <2>3. CASE thread'[t] # Idle
    <3>0. /\ thread'[t].job = thread[t].job /\ thread'[t].next = thread[t].next
          /\ thread'[t].at # "idle" /\ shown' = shown
      BY <1>l, <2>3
    <3>1. SUFFICES ASSUME Saving, "misread" \notin mishaps', thread'[t].at # "wake"
                   PROVE  /\ Holds(primary', shown)
                          /\ thread'[t].at \notin Recovering
                          /\ thread'[t].at \in SaveSteps /\ thread'[t].then # "saved" =>
                               thread'[t].saving = shown
      BY <1>m, <2>1, <3>0 DEF Saving
    <3>2. Main.at # "wake"
      <4>1. CASE Main.at = "wake"
        <5>1. Wake(t) /\ thread[t].next \in Settings
          BY <2>1, <4>1 DEF ThreadInv, LoadOrCreate, Save, Exists, Schema, LoadPrimary, LoadBackup,
             Rewrite, Schemas, BackupSchema, Unquarantine, Quarantine, WriteNotice, Reread,
             Preserve, WriteBackup, Replace
        <5>2. QED
          BY <2>3, <5>1, WakeDoes
      <4>2. QED
        BY <4>1
    <3>3. /\ Holds(primary, shown) /\ thread[t].at \notin Recovering
          /\ thread[t].at \in SaveSteps /\ thread[t].then # "saved" => thread[t].saving = shown
          /\ "misread" \notin mishaps
      BY <1>0, <1>m, <2>1, <3>1, <3>2 DEF ScreenInv
    <3>r. ASSUME NEW found, Returns(t, found)
          PROVE  thread'[t].at \notin Recovering /\ (thread'[t].at \in SaveSteps => thread'[t].then = "saved")
      BY <2>3, <3>r DEF Returns, Recovering
    <3>4. CASE Exists(t)
      <4>1. primary.form # "missing"
        BY <3>3 DEF Holds, Loadable
      <4>2. QED
        BY <3>3, <3>4, <4>1, ExistsDoes DEF OnlyReads, Goes, Recovering, SaveSteps
    <3>5. CASE Schema(t)
      <4>1. UNCHANGED primary /\ (Returns(t, NoSettings) \/ Goes(t, "load"))
        BY <3>5, SchemaDoes DEF OnlyReads, Schema
      <4>2. QED
        BY <3>3, <3>r, <4>1 DEF Goes, Recovering, SaveSteps
    <3>6. CASE LoadPrimary(t)
      <4>1. UNCHANGED primary /\ thread'[t].at = "reread"
        BY <3>1, <3>3, <3>6, LoadDoes DEF OnlyReads, Holds, LoadPrimary
      <4>2. QED
        BY <3>3, <4>1 DEF Recovering, SaveSteps
    <3>7. CASE LoadBackup(t) \/ Rewrite(t) \/ Schemas(t) \/ BackupSchema(t) \/ Unquarantine(t)
               \/ Quarantine(t)
      BY <3>3, <3>7 DEF LoadBackup, Rewrite, Schemas, BackupSchema, Unquarantine, Quarantine,
         Recovering
    <3>8. CASE WriteNotice(t)
      BY <3>3, <3>8, NoticeDoes DEF Goes, Recovering, SaveSteps
    <3>9. CASE Reread(t)
      <4>1. thread[t].loaded \in Settings /\ thread[t].at = "reread"
        BY <1>m, <3>9 DEF Reread, LocalsOK
      <4>2. Holds(primary, thread[t].loaded) /\ UNCHANGED primary
        BY <2>1, <3>9, <4>1, RereadDoes DEF ReadInv, OnlyReads
      <4>3. thread[t].loaded = shown
        BY <3>3, <4>2 DEF Holds
      <4>4. Calls(t, thread[t].loaded, "migrated") \/ Returns(t, NoSettings)
            \/ Returns(t, thread[t].loaded)
        BY <3>9, <4>1, RereadDoes
      <4>5. QED
        BY <3>3, <3>r, <4>2, <4>3, <4>4 DEF Calls, Recovering, SaveSteps
    <3>10. CASE Preserve(t)
      <4>1. /\ UNCHANGED primary /\ thread[t].at = "preserve"
            /\ thread'[t].saving = thread[t].saving /\ thread'[t].then = thread[t].then
            /\ thread'[t].at \in {"backup", "replace"}
        BY <3>10, PreserveDoes DEF OnlyReads
      <4>2. QED
        BY <3>3, <4>1 DEF Recovering, SaveSteps
    <3>f. ASSUME SaveFails(t)
          PROVE  thread'[t].at \notin Recovering /\ (thread'[t].at \in SaveSteps => thread'[t].then = "saved")
      BY <2>3, <3>f, <3>r, SaveFailsDoes
    <3>11. CASE WriteBackup(t)
      <4>1. UNCHANGED primary /\ thread[t].at = "backup"
        BY <3>11, BackupDoes
      <4>2. CASE /\ thread'[t].at = "replace"
                 /\ thread'[t].saving = thread[t].saving /\ thread'[t].then = thread[t].then
        BY <3>3, <4>1, <4>2 DEF Recovering, SaveSteps
      <4>3. CASE SaveFails(t)
        BY <3>3, <3>f, <4>1, <4>3
      <4>4. QED
        BY <3>11, <4>2, <4>3, BackupDoes
    <3>12. CASE Replace(t)
      <4>1. thread[t].saving \in Settings /\ thread[t].at = "replace"
        BY <1>m, <3>12 DEF Replace, LocalsOK, SaveSteps
      <4>2. CASE SaveFails(t) /\ UNCHANGED primary
        BY <3>3, <3>f, <4>2
      <4>3. CASE ~(SaveFails(t) /\ UNCHANGED primary)
        <5>1. /\ primary' = Saved(thread[t].saving) /\ thread[t].then # "saved"
              /\ Goes(t, "notice") \/ Returns(t, thread[t].saving)
          BY <3>1, <3>12, <4>1, <4>3, ReplaceDoes DEF Goes
        <5>2. thread[t].saving = shown
          BY <3>3, <4>1, <5>1 DEF SaveSteps
        <5>3. Holds(primary', shown)
          BY <4>1, <5>1, <5>2, FilesTyped
        <5>4. QED
          BY <3>r, <5>1, <5>3 DEF Goes, Recovering, SaveSteps
      <4>4. QED
        BY <4>2, <4>3
    <3>13. CASE Wake(t)
      BY <2>1, <3>2, <3>13 DEF Wake
    <3>14. QED
      BY <3>4, <3>5, <3>6, <3>7, <3>8, <3>9, <3>10, <3>11, <3>12, <3>13 DEF LoadOrCreate, Save
  <2>4. QED
    BY <2>2, <2>3
<1>3. QED
  BY <1>1, <1>2, TwoThreads

\* A command starts from what the window shows.
LEMMA ScreenStep ==
  ASSUME TypeOK, ThreadInv, OrderInv, ReadInv, ScreenInv, Next
  PROVE  ScreenInv'
<1> USE DEF files, process, reader, history
<1>1. CASE \E t \in Threads : LoadOrCreate(t) \/ Save(t)
  BY <1>1, ScreenThreadStep
<1>2. ASSUME thread'["main"] = Idle, shown' = NoSettings
      PROVE  ScreenInv'
  BY <1>2, IdleTyped DEF ScreenInv, Saving, Main
<1>3. ASSUME UNCHANGED <<process, primary>>, mishaps \ {"blind", "unwoken"} \subseteq mishaps'
      PROVE  ScreenInv'
  BY <1>3 DEF ScreenInv, Saving, Main
<1>4. CASE GetAppConfig \/ SaveAppConfig
  <2>1. /\ running /\ Main.at = "idle" /\ thread'["main"].at = "exists"
        /\ UNCHANGED <<primary, shown>> /\ mishaps \subseteq mishaps'
        /\ thread'["main"].job = "save" => shown # NoSettings
    BY <1>4, CommandDoes DEF OnlyReads, Adds, At, Main
  <2>2. QED
    BY <2>1 DEF ScreenInv, Saving, Main, Recovering, SaveSteps
<1>5. CASE TakeNotice
  BY <1>3, <1>5 DEF TakeNotice
<1>6. CASE Start
  BY <1>2, <1>6, StartDoes DEF ThreadInv
<1>7. CASE Stop
  BY <1>2, <1>7, StopDoes, TwoThreads
<1>8. CASE Agent
  BY <1>3, <1>8, AgentDoes
<1>9. CASE Damage \/ Upgrade
  <2>1. thread'["main"] = Idle /\ shown' = NoSettings
    BY <1>9, EnvironmentDoes, TwoThreads DEF ThreadInv
  <2>2. QED
    BY <1>2, <2>1
<1>10. QED
  BY <1>1, <1>4, <1>5, <1>6, <1>7, <1>8, <1>9 DEF Next


-----------------------------------------------------------------------------
(* Old files, future files and damaged ones.                               *)

\* At first no thread has found anything, and no file is damaged.
LEMMA FilesInit == Init => MigrationInv /\ FutureInv /\ EvidenceInv
<1> SUFFICES ASSUME Init PROVE MigrationInv /\ FutureInv /\ EvidenceInv
  OBVIOUS
<1>1. (\A t \in Threads : thread[t] = Idle) /\ running = FALSE /\ evidence = FALSE
  BY DEF Init
<1>2. QED
  BY <1>1, IdleTyped
     DEF MigrationInv, FutureInv, EvidenceInv, Recovering, SaveSteps, Loadable

\* A thread recovers only from a file it cannot load, and migrates only an old one.
LEMMA MigrationThreadStep ==
  ASSUME TypeOK, ThreadInv, MigrationInv, NEW t \in Threads, LoadOrCreate(t) \/ Save(t)
  PROVE  MigrationInv'
<1> USE DEF files, At
<1> DEFINE Migrating(u) == thread[u].at \in SaveSteps /\ thread[u].then = "migrated"
<1>m. /\ Moves(t) /\ thread[t].at # "idle" /\ mishaps \subseteq mishaps' /\ LocalsOK(t)
      /\ primary' = primary \/ primary'.form \in {"missing", "current"}
      /\ primary \in File /\ thread[t] \in Thread
  BY ThreadMoves DEF ThreadInv, TypeOK
<1> SUFFICES ASSUME "misread" \notin mishaps', NEW v \in Threads,
                    primary'.form = "legacy" \/ Migrating(v)'
             PROVE  Loadable(primary') /\ \A u \in Threads : thread'[u].at \notin Recovering
  BY DEF MigrationInv
\* It was so before the step: only an old file makes a thread migrate.
<1>1. primary.form = "legacy" \/ \E u \in Threads : Migrating(u)
  <2>r. ASSUME NEW found, Returns(t, found) PROVE ~Migrating(t)'
    BY <2>r, IdleTyped DEF Returns, SaveSteps
  <2>f. ASSUME SaveFails(t) PROVE ~Migrating(t)'
    BY <2>f, <2>r, SaveFailsDoes, IdleTyped DEF SaveSteps
  <2>1. CASE primary'.form = "legacy"
    BY <1>m, <2>1
  <2>2. CASE v # t /\ Migrating(v)'
    BY <1>m, <2>2 DEF Moves
  <2>3. CASE Migrating(t)'
    <3>1. CASE Exists(t)
      BY <2>3, <3>1, ExistsDoes DEF Calls, Goes, SaveSteps
    <3>2. CASE Schema(t) \/ Schemas(t) \/ BackupSchema(t)
      BY <2>3, <2>r, <3>2, SchemaDoes DEF Goes, SaveSteps
    <3>3. CASE LoadPrimary(t) \/ LoadBackup(t)
      BY <2>3, <3>3, LoadDoes DEF SaveSteps
    <3>4. CASE Rewrite(t)
      BY <1>m, <2>3, <3>4, RewriteDoes DEF Rewrite, LocalsOK, SaveSteps
    <3>5. CASE Unquarantine(t)
      BY <2>3, <2>r, <3>5, UnquarantineDoes DEF Goes, SaveSteps
    <3>6. CASE Quarantine(t)
      BY <2>3, <2>r, <3>6, QuarantineDoes DEF Calls
    <3>7. CASE WriteNotice(t)
      BY <2>3, <3>7, NoticeDoes DEF Goes, SaveSteps
    <3>8. CASE Reread(t)
      <4>1. thread[t].loaded \in Settings /\ Usable(primary)
        BY <1>m, <3>8 DEF Reread, LocalsOK
      <4>2. primary.form # "damaged"
        BY <4>1 DEF Usable, Loadable
      <4>3. QED
        BY <2>3, <2>r, <3>8, <4>1, <4>2, RereadDoes
    <3>9. CASE Preserve(t)
      BY <2>3, <3>9, PreserveDoes DEF SaveSteps
    <3>10. CASE WriteBackup(t)
      BY <2>3, <2>f, <3>10, BackupDoes DEF SaveSteps
    <3>11. CASE Replace(t)
      <4>1. thread[t].saving \in Settings
        BY <1>m, <3>11 DEF Replace, LocalsOK, SaveSteps
      <4>2. SaveFails(t) \/ Goes(t, "wake") \/ Goes(t, "notice") \/ Returns(t, thread[t].saving)
        BY <3>11, <4>1, ReplaceDoes
      <4>3. QED
        BY <2>3, <2>f, <2>r, <4>2 DEF Goes, SaveSteps
    <3>12. CASE Wake(t)
      <4>1. thread[t].next \in Settings
        BY <3>12 DEF Wake, ThreadInv, Main, Startup, Threads
      <4>2. QED
        BY <2>3, <3>12, <4>1, WakeDoes, IdleTyped DEF SaveSteps
    <3>13. QED
      BY <3>1, <3>2, <3>3, <3>4, <3>5, <3>6, <3>7, <3>8, <3>9, <3>10, <3>11, <3>12
         DEF LoadOrCreate, Save
  <2>4. QED
    BY <2>1, <2>2, <2>3
<1>2. Loadable(primary) /\ \A u \in Threads : thread[u].at \notin Recovering
  BY <1>1, <1>m DEF MigrationInv
<1> HIDE DEF Migrating
\* It stays so: with a file that it can load no thread begins to recover.
<1>3. Loadable(primary')
  <2>1. CASE Rewrite(t) \/ Quarantine(t)
    BY <1>2, <2>1 DEF Rewrite, Quarantine, Recovering
  <2>2. CASE Replace(t)
    <3>1. thread[t].saving \in Settings
      BY <1>m, <2>2 DEF Replace, LocalsOK, SaveSteps
    <3>2. QED
      BY <1>2, <2>2, <3>1, ReplaceDoes, FilesTyped DEF Holds
  <2>3. CASE ~(Rewrite(t) \/ Quarantine(t) \/ Replace(t))
    <3>1. UNCHANGED primary
      BY <2>3 DEF LoadOrCreate, Save, Exists, Schema, LoadPrimary, LoadBackup, Schemas,
         BackupSchema, Unquarantine, WriteNotice, Reread, Preserve, WriteBackup, Wake
    <3>2. QED
      BY <1>2, <3>1
  <2>4. QED
    BY <2>1, <2>2, <2>3
<1>4. thread'[t].at \notin Recovering
  <2>0. thread[t].at \notin Recovering
    BY <1>2
  <2>r. ASSUME NEW found, Returns(t, found) PROVE thread'[t].at \notin Recovering
    BY <2>r, IdleTyped DEF Returns, Recovering
  <2>f. ASSUME SaveFails(t) PROVE thread'[t].at \notin Recovering
    BY <2>f, <2>r, SaveFailsDoes, IdleTyped DEF Recovering
  <2>1. CASE Exists(t)
    BY <2>1, ExistsDoes DEF Calls, Goes, Recovering
  <2>2. CASE Schema(t)
    <3>1. Returns(t, NoSettings) \/ Goes(t, "load")
      BY <2>2, SchemaDoes DEF Schema
    <3>2. QED
      BY <2>r, <3>1 DEF Goes, Recovering
  <2>3. CASE LoadPrimary(t)
    <3>1. thread'[t].at = "reread"
      BY <1>2, <2>3, LoadDoes DEF LoadPrimary
    <3>2. QED
      BY <3>1 DEF Recovering
  <2>4. CASE LoadBackup(t) \/ Rewrite(t) \/ Schemas(t) \/ BackupSchema(t) \/ Unquarantine(t)
             \/ Quarantine(t)
    BY <2>0, <2>4 DEF LoadBackup, Rewrite, Schemas, BackupSchema, Unquarantine, Quarantine,
       Recovering
  <2>5. CASE WriteNotice(t)
    BY <2>5, NoticeDoes DEF Goes, Recovering
  <2>6. CASE Reread(t)
    <3>1. thread[t].loaded \in Settings
      BY <1>m, <2>6 DEF Reread, LocalsOK
    <3>2. Calls(t, thread[t].loaded, "migrated") \/ Returns(t, NoSettings)
          \/ Returns(t, thread[t].loaded)
      BY <2>6, <3>1, RereadDoes
    <3>3. QED
      BY <2>r, <3>2 DEF Calls, Recovering
  <2>7. CASE Preserve(t)
    BY <2>7, PreserveDoes DEF Recovering
  <2>8. CASE WriteBackup(t)
    BY <2>f, <2>8, BackupDoes DEF Recovering
  <2>9. CASE Replace(t)
    <3>1. thread[t].saving \in Settings
      BY <1>m, <2>9 DEF Replace, LocalsOK, SaveSteps
    <3>2. SaveFails(t) \/ Goes(t, "wake") \/ Goes(t, "notice") \/ Returns(t, thread[t].saving)
      BY <2>9, <3>1, ReplaceDoes
    <3>3. QED
      BY <2>f, <2>r, <3>2 DEF Goes, Recovering
  <2>10. CASE Wake(t)
    <3>1. thread[t].next \in Settings
      BY <2>10 DEF Wake, ThreadInv, Main, Startup, Threads
    <3>2. QED
      BY <2>10, <3>1, WakeDoes, IdleTyped DEF Recovering
  <2>11. QED
    BY <2>1, <2>2, <2>3, <2>4, <2>5, <2>6, <2>7, <2>8, <2>9, <2>10 DEF LoadOrCreate, Save
<1>5. QED
  BY <1>m, <1>2, <1>3, <1>4 DEF Moves

\* A thread that finds a file of a future version gives up.
LEMMA FutureThreadStep ==
  ASSUME TypeOK, ThreadInv, FutureInv, NEW t \in Threads, LoadOrCreate(t) \/ Save(t)
  PROVE  FutureInv'
<1> USE DEF files, At
<1>m. /\ Moves(t) /\ thread[t].at # "idle" /\ mishaps \subseteq mishaps' /\ running
      /\ primary' = primary \/ primary'.form \in {"missing", "current"}
      /\ thread[t] \in Thread
  BY ThreadMoves DEF TypeOK
<1> SUFFICES ASSUME "misread" \notin mishaps', Future(primary')
             PROVE  /\ shown' = NoSettings
                    /\ \A u \in Threads : thread'[u].at \in {"idle", "exists", "schema"}
  BY DEF FutureInv
<1>1. /\ Future(primary) /\ shown = NoSettings
      /\ \A u \in Threads : thread[u].at \in {"idle", "exists", "schema"}
  BY <1>m DEF FutureInv, Future
<1>2. Exists(t) \/ Schema(t)
  BY <1>m, <1>1 DEF LoadOrCreate, Save, LoadPrimary, LoadBackup, Rewrite, Schemas, BackupSchema,
     Unquarantine, Quarantine, WriteNotice, Reread, Preserve, WriteBackup, Replace, Wake
<1>3. shown' = NoSettings /\ thread'[t].at \in {"idle", "exists", "schema"}
  <2>1. CASE Exists(t)
    BY <1>1, <2>1, ExistsDoes DEF Goes, Future
  <2>2. CASE Schema(t)
    <3>1. thread[t].job = "load"
      BY <1>1, <1>m, TwoThreads DEF ThreadInv, Main, Startup
    <3>2. Returns(t, NoSettings)
      BY <1>1, <2>2, SchemaDoes DEF Schema
    <3>3. QED
      BY <1>1, <3>1, <3>2, IdleTyped DEF Returns
  <2>3. QED
    BY <1>2, <2>1, <2>2
<1>4. QED
  BY <1>m, <1>1, <1>3 DEF Moves


\* A damaged file is written over only once it is quarantined.
LEMMA EvidenceThreadStep ==
  ASSUME TypeOK, ThreadInv, OrderInv, ScreenInv, EvidenceInv,
         NEW t \in Threads, LoadOrCreate(t) \/ Save(t)
  PROVE  EvidenceInv'
<1> USE DEF files, At
<1> DEFINE Faces(u) == /\ thread[u].at \in {"schema", "load"} => primary.form # "missing"
                       /\ thread[u].at \in Recovering => ~Usable(primary)
           Found == primary.form = "damaged" /\ ~Loadable(backup)
           Moved == corrupt.form = "damaged" /\ Usable(primary)
<1>m. /\ Moves(t) /\ thread[t].at # "idle" /\ mishaps \subseteq mishaps' /\ LocalsOK(t)
      /\ primary \in File /\ thread[t] \in Thread /\ evidence' = evidence /\ running
  BY ThreadMoves DEF ThreadInv, TypeOK
<1> SUFFICES ASSUME Spared({"misread", "overlap"})'
             PROVE  /\ \A u \in Threads : Faces(u)'
                    /\ evidence => Found' \/ Moved'
  BY <1>m DEF EvidenceInv
<1>1. /\ "misread" \notin mishaps' /\ "misread" \notin mishaps /\ "overlap" \notin mishaps
      /\ Faces(t) /\ (evidence => Found \/ Moved)
  BY <1>m DEF EvidenceInv, Spared
\* The other thread has nothing to do.
<1>2. \A u \in Threads \ {t} : thread'[u].at = "idle"
  BY <1>1, <1>m, WhoMoves, TwoThreads DEF Moves, Main, Startup
<1>3. Faces(t)' => \A u \in Threads : Faces(u)'
  BY <1>2 DEF Recovering
<1>k. ASSUME UNCHANGED <<primary, backup, corrupt>>
      PROVE  evidence => Found' \/ Moved'
  BY <1>1, <1>k
<1>x. Found => ~Usable(primary)
  BY DEF Usable, Loadable
<1>r. ASSUME NEW found, Returns(t, found) PROVE Faces(t)'
  BY <1>r, IdleTyped DEF Returns, Recovering
<1>f. ASSUME SaveFails(t) PROVE Faces(t)'
  BY <1>f, <1>r, SaveFailsDoes, IdleTyped DEF Recovering
<1>v. ASSUME thread'[t].at \in {"preserve", "backup", "replace", "notice", "reread", "wake", "idle"}
      PROVE  Faces(t)'
  BY <1>v DEF Recovering
<1>w. ASSUME thread'[t].at \in Recovering, UNCHANGED primary, ~Usable(primary) PROVE Faces(t)'
  BY <1>w DEF Recovering
<1>4. CASE Exists(t)
  BY <1>3, <1>4, <1>k, <1>v, ExistsDoes DEF OnlyReads, Calls, Goes, Recovering
<1>5. CASE Schema(t)
  <2>1. /\ UNCHANGED <<primary, backup, corrupt>>
        /\ Returns(t, NoSettings) \/ Goes(t, "load")
    BY <1>5, SchemaDoes DEF OnlyReads, Schema
  <2>2. Goes(t, "load") => Faces(t)'
    BY <1>1, <1>5, <2>1 DEF Schema, Goes, Recovering
  <2>3. QED
    BY <1>3, <1>k, <1>r, <2>1, <2>2
<1>6. CASE LoadPrimary(t) \/ LoadBackup(t)
  <2>1. UNCHANGED <<primary, backup, corrupt>>
    BY <1>6, LoadDoes DEF OnlyReads
  <2>2. \/ thread'[t].at = "reread"
        \/ thread'[t].at \in {"fallback", "rewrite", "schemas"} /\ ~Usable(primary)
    BY <1>1, <1>6, LoadDoes DEF Usable, Recovering
  <2>3. Faces(t)'
    BY <1>v, <1>w, <2>1, <2>2 DEF Recovering
  <2>4. QED
    BY <1>3, <1>k, <2>1, <2>3
<1>7. CASE Rewrite(t)
  <2>1. ~Usable(primary) /\ Loadable(backup) /\ thread[t].loaded \in Settings
    BY <1>1, <1>7, <1>m DEF Rewrite, LocalsOK, Recovering
  <2>2. ~evidence
    BY <1>1, <2>1
  <2>3. Faces(t)'
    BY <1>7, <1>v, <1>w, <2>1, RewriteDoes DEF Recovering
  <2>4. QED
    BY <1>3, <2>2, <2>3
<1>8. CASE Schemas(t) \/ BackupSchema(t)
  <2>1. /\ UNCHANGED <<primary, backup, corrupt>> /\ ~Usable(primary)
        /\ Returns(t, NoSettings) \/ Goes(t, "backupSchema") \/ Goes(t, "unquarantine")
    BY <1>1, <1>8, SchemaDoes DEF OnlyReads, Schemas, BackupSchema, Recovering
  <2>2. Faces(t)'
    BY <1>r, <1>w, <2>1 DEF Goes, Recovering
  <2>3. QED
    BY <1>3, <1>k, <2>1, <2>2
<1>9. CASE Unquarantine(t)
  <2>1. /\ UNCHANGED <<primary, backup>> /\ ~Usable(primary)
        /\ Returns(t, NoSettings) \/ Goes(t, "quarantine")
    BY <1>1, <1>9, UnquarantineDoes DEF Recovering
  <2>2. Faces(t)'
    BY <1>r, <1>w, <2>1 DEF Goes, Recovering
  <2>3. evidence => Found'
    BY <1>1, <2>1
  <2>4. QED
    BY <1>3, <2>2, <2>3
<1>10. CASE Quarantine(t)
  <2>1. ~Usable(primary)
    BY <1>1, <1>10 DEF Quarantine, Recovering
  <2>2. CASE /\ corrupt' = primary /\ primary' = Contents("missing")
             /\ Calls(t, Defaults, "recovered")
    <3>1. Usable(primary')
      BY <2>2, FilesTyped DEF Usable
    <3>2. evidence => Moved'
      BY <1>1, <2>1, <2>2, <3>1
    <3>3. QED
      BY <1>3, <1>v, <2>2, <3>2 DEF Calls
  <2>3. CASE UNCHANGED <<primary, corrupt>> /\ Returns(t, NoSettings)
    BY <1>3, <1>10, <1>k, <1>r, <2>3, QuarantineDoes
  <2>4. QED
    BY <1>10, <2>2, <2>3, QuarantineDoes
<1>11. CASE WriteNotice(t)
  BY <1>3, <1>11, <1>k, <1>v, NoticeDoes DEF Goes
<1>12. CASE Reread(t)
  <2>1. thread[t].loaded \in Settings
    BY <1>m, <1>12 DEF Reread, LocalsOK
  <2>2. /\ UNCHANGED <<primary, backup, corrupt>>
        /\ Calls(t, thread[t].loaded, "migrated") \/ Returns(t, NoSettings)
             \/ Returns(t, thread[t].loaded)
    BY <1>12, <2>1, RereadDoes DEF OnlyReads
  <2>3. QED
    BY <1>3, <1>k, <1>r, <1>v, <2>2 DEF Calls
<1>13. CASE Preserve(t)
  BY <1>3, <1>13, <1>k, <1>v, PreserveDoes DEF OnlyReads
<1>14. CASE WriteBackup(t)
  <2>1. UNCHANGED <<primary, corrupt>> /\ Usable(primary)
    BY <1>m, <1>14, BackupDoes DEF LocalsOK, WriteBackup
  <2>2. evidence => Moved'
    BY <1>1, <1>x, <2>1
  <2>3. Faces(t)'
    BY <1>14, <1>f, <1>v, BackupDoes
  <2>4. QED
    BY <1>3, <2>2, <2>3
<1>15. CASE Replace(t)
  <2>1. thread[t].saving \in Settings /\ thread[t].at = "replace"
    BY <1>m, <1>15 DEF Replace, LocalsOK, SaveSteps
  \* A command that saves has loaded the file it writes over.
  <2>2. Usable(primary)
    <3>1. CASE thread[t].then # "saved"
      BY <1>m, <2>1, <3>1 DEF LocalsOK, SaveSteps
    <3>2. CASE thread[t].then = "saved"
      <4>1. thread[t].job = "save"
        BY <1>m, <2>1, <3>2 DEF LocalsOK, SaveSteps
      <4>2. thread[t] = Main
        BY <4>1, TwoThreads DEF ThreadInv, Main, Startup
      <4>3. Holds(primary, shown)
        BY <1>1, <2>1, <4>1, <4>2 DEF ScreenInv, Saving
      <4>4. QED
        BY <4>3 DEF Holds, Usable
    <3>3. QED
      BY <3>1, <3>2
  <2>3. UNCHANGED <<backup, corrupt>>
    BY <1>15, <2>1, ReplaceDoes
  <2>4. CASE SaveFails(t) /\ UNCHANGED primary
    BY <1>3, <1>f, <1>k, <2>3, <2>4
  <2>5. CASE ~(SaveFails(t) /\ UNCHANGED primary)
    <3>1. /\ primary' = Saved(thread[t].saving)
          /\ Goes(t, "wake") \/ Goes(t, "notice") \/ Returns(t, thread[t].saving)
      BY <1>15, <2>1, <2>5, ReplaceDoes
    <3>2. Usable(primary')
      BY <2>1, <3>1, FilesTyped DEF Usable, Holds
    <3>3. evidence => Moved'
      BY <1>1, <1>x, <2>2, <2>3, <3>2
    <3>4. QED
      BY <1>3, <1>r, <1>v, <3>1, <3>3 DEF Goes
  <2>6. QED
    BY <2>4, <2>5
<1>16. CASE Wake(t)
  <2>1. thread[t].next \in Settings
    BY <1>16 DEF Wake, ThreadInv, Main, Startup, Threads
  <2>2. QED
    BY <1>3, <1>16, <1>k, <1>v, <2>1, WakeDoes, IdleTyped
<1>17. QED
  BY <1>4, <1>5, <1>6, <1>7, <1>8, <1>9, <1>10, <1>11, <1>12, <1>13, <1>14, <1>15, <1>16
     DEF LoadOrCreate, Save

\* Nothing but the threads moves the files while they are at work.
LEMMA FilesStep ==
  ASSUME TypeOK, ThreadInv, OrderInv, ScreenInv, MigrationInv, FutureInv, EvidenceInv, Next
  PROVE  MigrationInv' /\ FutureInv' /\ EvidenceInv'
<1> USE DEF files, process, reader, history
<1>1. CASE \E t \in Threads : LoadOrCreate(t) \/ Save(t)
  BY <1>1, MigrationThreadStep, FutureThreadStep, EvidenceThreadStep
\* Threads begin, or end.
<1>2. ASSUME UNCHANGED <<primary, backup, corrupt, evidence, shown, running>>,
             mishaps \ {"blind", "unwoken"} \subseteq mishaps',
             \A t \in Threads : thread'[t] = thread[t] \/ thread'[t].at = "exists"
      PROVE  MigrationInv' /\ FutureInv' /\ EvidenceInv'
  <2>1. MigrationInv'
    BY <1>2 DEF MigrationInv, Recovering, SaveSteps
  <2>2. FutureInv'
    BY <1>2 DEF FutureInv
  <2>3. EvidenceInv'
    BY <1>2 DEF EvidenceInv, Recovering, Spared
  <2>4. QED
    BY <2>1, <2>2, <2>3
<1>3. ASSUME \A t \in Threads : thread'[t].at \in {"idle", "exists"},
             shown' = NoSettings,
             \/ /\ UNCHANGED <<primary, backup, corrupt, evidence>>
                /\ mishaps \subseteq mishaps'
             \/ evidence' => primary'.form = "damaged" /\ ~Loadable(backup')
      PROVE  MigrationInv' /\ FutureInv' /\ EvidenceInv'
  <2>1. MigrationInv'
    BY <1>3 DEF MigrationInv, Recovering, SaveSteps, Loadable
  <2>2. FutureInv'
    BY <1>3 DEF FutureInv
  <2>3. EvidenceInv'
    BY <1>3 DEF EvidenceInv, Recovering, Spared
  <2>4. QED
    BY <2>1, <2>2, <2>3
<1>4. CASE GetAppConfig \/ SaveAppConfig
  BY <1>2, <1>4, CommandDoes, TwoThreads DEF OnlyReads, Aside, Moves, Adds
<1>5. CASE TakeNotice
  BY <1>2, <1>5 DEF TakeNotice
<1>6. CASE Start
  <2>1. (\A t \in Threads : thread'[t].at \in {"idle", "exists"}) /\ shown' = NoSettings
    BY <1>6, StartDoes, IdleTyped, TwoThreads DEF ThreadInv
  <2>2. UNCHANGED <<primary, backup, corrupt, evidence, mishaps>>
    BY <1>6, StartDoes
  <2>3. QED
    BY <1>3, <2>1, <2>2
<1>7. CASE Stop
  BY <1>3, <1>7, StopDoes, IdleTyped DEF Adds
<1>8. CASE Agent
  BY <1>2, <1>8, AgentDoes
<1>9. CASE Damage \/ Upgrade
  <2>1. (\A t \in Threads : thread'[t].at \in {"idle", "exists"}) /\ shown' = NoSettings
    BY <1>9, EnvironmentDoes, IdleTyped DEF ThreadInv
  <2>2. evidence' => primary'.form = "damaged" /\ ~Loadable(backup')
    BY <1>9, EnvironmentDoes
  <2>3. QED
    BY <1>3, <2>1, <2>2
<1>10. QED
  BY <1>1, <1>4, <1>5, <1>6, <1>7, <1>8, <1>9 DEF Next


-----------------------------------------------------------------------------
(* The agent.                                                              *)

\* At first the agent has what the file says.
LEMMA AgentInit == Init => AgentInv
<1> SUFFICES ASSUME Init PROVE AgentInv
  OBVIOUS
<1>1. /\ Main = Idle /\ agent.at = "idle"
      /\ agent.settings = IF Loadable(primary) THEN primary.settings ELSE Defaults
  BY TwoThreads DEF Init, Main
<1>2. QED
  BY <1>1, IdleTyped DEF AgentInv, Loadable

\* A change that asks for no scan changes nothing the agent acts on.
LEMMA NoRescan ==
  ASSUME NEW previous \in Settings, NEW next \in Settings, ~RequestsRescan(previous, next)
  PROVE  Effect(previous) = Effect(next)
BY ConfigAssumption DEF RequestsRescan, Effect, Settings

\* A thread changes what the file says of the agent only in the last step before its wake-up.
LEMMA AgentThreadStep ==
  ASSUME TypeOK, ThreadInv, OrderInv, ReadInv, MigrationInv, AgentInv,
         NEW t \in Threads, LoadOrCreate(t) \/ Save(t)
  PROVE  AgentInv'
<1> USE DEF files, reader, At
<1> DEFINE Before == agent.at = "idle" /\ Main.at # "wake"
           InStep(file) == /\ Loadable(file) => Effect(agent.settings) = Effect(file.settings)
                           /\ file.form = "missing" => Effect(agent.settings) = Effect(Defaults)
<1>m. /\ Moves(t) /\ thread[t].at # "idle" /\ mishaps \subseteq mishaps' /\ LocalsOK(t)
      /\ primary \in File /\ thread[t] \in Thread /\ agent' = agent /\ wake \in BOOLEAN
  BY ThreadMoves DEF ThreadInv, TypeOK
<1> SUFFICES ASSUME Spared({"misread", "late", "blind", "unwoken"})', ~wake'
             PROVE  /\ agent.at = "idle" /\ Main'.at # "wake" => InStep(primary')
                    /\ agent.at = "idle" /\ Main'.at = "wake" /\ Main'.loaded # NoSettings =>
                         Effect(agent.settings) \in {Effect(Main'.loaded), Effect(Main'.next)}
                    /\ agent.at = "fallback" =>
                         ~Usable(primary') \/ (Main'.at = "wake" /\ Main'.loaded = NoSettings)
  BY <1>m DEF AgentInv
<1>1. /\ Spared({"misread", "late", "blind", "unwoken"})
      /\ "misread" \notin mishaps' /\ "unwoken" \notin mishaps' /\ "blind" \notin mishaps'
      /\ "late" \notin mishaps
  BY <1>m DEF Spared
<1>2. ~wake
  <2>1. Wake(t) => thread[t].next \in Settings
    BY DEF Wake, ThreadInv, Main, Startup, Threads
  <2>2. Wake(t) => ~wake
    BY <1>1, <1>m, <2>1, WakeDoes
  <2>3. ~Wake(t) => wake' = wake
    BY DEF LoadOrCreate, Save, Exists, Schema, LoadPrimary, LoadBackup, Rewrite, Schemas,
       BackupSchema, Unquarantine, Quarantine, WriteNotice, Reread, Preserve, WriteBackup, Replace
  <2>4. QED
    BY <2>2, <2>3
<1>3. /\ agent.at = "idle" /\ Main.at # "wake" => InStep(primary)
      /\ agent.at = "idle" /\ Main.at = "wake" /\ Main.loaded # NoSettings =>
           Effect(agent.settings) \in {Effect(Main.loaded), Effect(Main.next)}
      /\ agent.at = "fallback" =>
           ~Usable(primary) \/ (Main.at = "wake" /\ Main.loaded = NoSettings)
  BY <1>1, <1>2 DEF AgentInv
\* The window waits for nobody before it wakes the agent.
<1>4. thread[t].at # "wake" => Main.at # "wake"
  <2>1. Main.at = "wake" => Main.job = "save"
    BY DEF ThreadInv
  <2>2. QED
    BY <1>1, <1>m, <2>1, WhoMoves
<1>5. thread'[t].at # "wake" => Main'.at # "wake" \/ thread[t].at = "wake"
  BY <1>4, <1>m, TwoThreads DEF Moves, Main
<1> HIDE DEF InStep
<1>u. ASSUME thread[t].at # "wake", thread'[t].at # "wake",
             \/ primary' = primary
             \/ agent.at # "fallback" /\ (agent.at = "idle" => InStep(primary'))
      PROVE  /\ agent.at = "idle" /\ Main'.at # "wake" => InStep(primary')
             /\ agent.at = "idle" /\ Main'.at = "wake" /\ Main'.loaded # NoSettings =>
                  Effect(agent.settings) \in {Effect(Main'.loaded), Effect(Main'.next)}
             /\ agent.at = "fallback" =>
                  ~Usable(primary') \/ (Main'.at = "wake" /\ Main'.loaded = NoSettings)
  BY <1>3, <1>4, <1>5, <1>u
<1>6. CASE Rewrite(t)
  <2>1. thread[t].loaded \in Settings /\ thread[t].at = "rewrite"
    BY <1>m, <1>6 DEF Rewrite, LocalsOK
  <2>2. primary' = primary /\ thread'[t].at = "schemas"
    BY <1>1, <1>6, <2>1, RewriteDoes
  <2>3. QED
    BY <1>u, <2>1, <2>2
<1>7. CASE Quarantine(t)
  <2>1. UNCHANGED primary /\ Returns(t, NoSettings) /\ thread[t].at = "quarantine"
    BY <1>1, <1>7, QuarantineDoes
  <2>2. thread'[t].at # "wake"
    BY <2>1, IdleTyped DEF Returns
  <2>3. QED
    BY <1>u, <2>1, <2>2
<1>8. CASE Replace(t)
  <2>1. thread[t].saving \in Settings /\ thread[t].at = "replace"
    BY <1>m, <1>8 DEF Replace, LocalsOK, SaveSteps
  <2>2. CASE SaveFails(t) /\ UNCHANGED primary
    <3>1. thread'[t].at # "wake"
      BY <2>2, SaveFailsDoes, IdleTyped DEF Returns
    <3>2. QED
      BY <1>u, <2>1, <2>2, <3>1
  <2>3. CASE ~(SaveFails(t) /\ UNCHANGED primary)
    <3>1. /\ primary' = Saved(thread[t].saving)
          /\ \/ thread[t].then = "saved" /\ Goes(t, "wake")
             \/ thread[t].then = "recovered" /\ Goes(t, "notice")
             \/ thread[t].then \in {"created", "migrated"} /\ Returns(t, thread[t].saving)
          /\ thread[t].then # "saved" /\ Loadable(primary) =>
               primary.settings = thread[t].saving
      BY <1>1, <1>8, <2>1, <2>3, ReplaceDoes
    <3>2. /\ Loadable(primary') /\ primary'.settings = thread[t].saving
          /\ primary'.form # "missing" /\ Usable(primary')
      BY <2>1, <3>1, FilesTyped DEF Holds, Usable
    <3>3. CASE thread[t].then # "saved"
      \* What is written was there, or stands for what was missing.
      <4>1. Usable(primary)
        BY <1>m, <2>1, <3>3 DEF LocalsOK, SaveSteps
      <4>2. agent.at # "fallback"
        BY <1>3, <1>4, <2>1, <4>1
      <4>3. agent.at = "idle" => InStep(primary')
        <5>1. CASE Loadable(primary)
          BY <1>3, <1>4, <2>1, <3>1, <3>2, <3>3, <5>1 DEF InStep
        <5>2. CASE primary.form = "missing"
          <6>1. thread[t].then # "migrated"
            BY <1>m, <1>1, <2>1, <5>2 DEF MigrationInv, SaveSteps, Loadable
          <6>2. thread[t].saving = Defaults
            BY <1>m, <2>1, <3>3, <6>1 DEF LocalsOK, SaveSteps, Thread
          <6>3. QED
            BY <1>3, <1>4, <2>1, <3>2, <5>2, <6>2 DEF InStep
        <5>3. QED
          BY <4>1, <5>1, <5>2 DEF Usable
      <4>4. thread'[t].at # "wake"
        BY <3>1, <3>3, IdleTyped DEF Goes, Returns
      <4>5. QED
        BY <1>u, <2>1, <4>2, <4>3, <4>4
    <3>4. CASE thread[t].then = "saved"
      <4>1. thread[t].job = "save" /\ Goes(t, "wake")
        BY <1>m, <2>1, <3>1, <3>4 DEF LocalsOK, SaveSteps
      <4>2. thread[t] = Main /\ Main' = thread'[t]
        BY <1>m, <4>1, TwoThreads DEF ThreadInv, Main, Startup
      <4>3. Main'.at = "wake" /\ Main'.loaded = Main.loaded /\ Main.at # "wake"
        BY <2>1, <4>1, <4>2 DEF Goes
      <4>4. Main.loaded # NoSettings => Holds(primary, Main.loaded)
        BY <1>1, <2>1, <3>4, <4>1, <4>2 DEF ReadInv, Alone, SaveSteps
      <4>5. QED
        BY <1>3, <4>3, <4>4 DEF InStep, Holds, Usable
    <3>5. QED
      BY <3>3, <3>4
  <2>4. QED
    BY <2>2, <2>3
<1>9. CASE Wake(t)
  <2>1. /\ thread[t].next \in Settings /\ thread[t].at = "wake" /\ t = "main"
        /\ Main = thread[t] /\ Main' = thread'[t] /\ Main.job = "save"
    BY <1>9, TwoThreads DEF Wake, ThreadInv, Main, Startup
  <2>2. /\ thread'[t] = Idle /\ UNCHANGED primary
        /\ ~RequestsRescan(thread[t].loaded, thread[t].next)
        /\ thread[t].loaded # NoSettings
    BY <1>1, <1>9, <2>1, WakeDoes
  <2>3. Effect(Main.loaded) = Effect(Main.next)
    BY <1>m, <2>1, <2>2, NoRescan DEF Thread
  <2>4. Holds(primary, Main.next)
    BY <1>1, <2>1 DEF ReadInv, Alone
  <2>5. agent.at = "idle" => Effect(agent.settings) = Effect(Main.next)
    BY <1>3, <2>1, <2>2, <2>3
  <2>6. agent.at # "fallback"
    BY <1>3, <2>1, <2>2, <2>4 DEF Usable, Holds
  <2>7. Main'.at # "wake"
    BY <2>1, <2>2, IdleTyped
  <2>8. QED
    BY <2>2, <2>4, <2>5, <2>6, <2>7 DEF InStep, Holds, Loadable
<1>10. CASE ~(Rewrite(t) \/ Quarantine(t) \/ Replace(t) \/ Wake(t))
  <2>1. UNCHANGED primary /\ thread[t].at # "wake"
    BY <1>10 DEF LoadOrCreate, Save, Exists, Schema, LoadPrimary, LoadBackup, Schemas,
       BackupSchema, Unquarantine, WriteNotice, Reread, Preserve, WriteBackup
  <2>2. thread'[t].at # "wake"
    <3>r. ASSUME NEW found, Returns(t, found) PROVE thread'[t].at # "wake"
      BY <3>r, IdleTyped DEF Returns
    <3>1. CASE Exists(t)
      BY <3>1, ExistsDoes DEF Calls, Goes
    <3>2. CASE Schema(t) \/ Schemas(t) \/ BackupSchema(t)
      BY <3>2, <3>r, SchemaDoes DEF Goes
    <3>3. CASE LoadPrimary(t) \/ LoadBackup(t)
      BY <3>3, LoadDoes
    <3>4. CASE Unquarantine(t)
      BY <3>4, <3>r, UnquarantineDoes DEF Goes
    <3>5. CASE WriteNotice(t)
      BY <3>5, NoticeDoes DEF Goes
    <3>6. CASE Reread(t)
      <4>1. thread[t].loaded \in Settings
        BY <1>m, <3>6 DEF Reread, LocalsOK
      <4>2. QED
        BY <3>6, <3>r, <4>1, RereadDoes DEF Calls
    <3>7. CASE Preserve(t)
      BY <3>7, PreserveDoes
    <3>8. CASE WriteBackup(t)
      BY <3>8, <3>r, BackupDoes, SaveFailsDoes, IdleTyped
    <3>9. QED
      BY <1>10, <3>1, <3>2, <3>3, <3>4, <3>5, <3>6, <3>7, <3>8 DEF LoadOrCreate, Save
  <2>3. QED
    BY <1>u, <2>1, <2>2
<1>11. QED
  BY <1>6, <1>7, <1>8, <1>9, <1>10

\* It changes otherwise only where nobody has told the agent yet, or the agent reads it.
LEMMA AgentStep ==
  ASSUME TypeOK, ThreadInv, OrderInv, ReadInv, MigrationInv, AgentInv, Next
  PROVE  AgentInv'
<1> USE DEF files, process, reader, history
<1>1. CASE \E t \in Threads : LoadOrCreate(t) \/ Save(t)
  BY <1>1, AgentThreadStep
<1>2. ASSUME UNCHANGED <<primary, reader>>, mishaps \subseteq mishaps',
             thread'["main"] = Main \/ (Main.at # "wake" /\ thread'["main"].at # "wake")
      PROVE  AgentInv'
  BY <1>2 DEF AgentInv, Spared, Main
<1>3. CASE GetAppConfig \/ SaveAppConfig
  BY <1>2, <1>3, CommandDoes DEF OnlyReads, Aside, Adds, At, Main
<1>4. CASE TakeNotice
  BY <1>2, <1>4 DEF TakeNotice, Main
<1>5. CASE Start
  <2>1. Main = Idle
    BY <1>5, StartDoes, TwoThreads DEF ThreadInv, Main
  <2>2. QED
    BY <1>2, <1>5, <2>1, StartDoes
<1>6. CASE Stop
  <2>1. /\ UNCHANGED <<primary, reader>> /\ mishaps \subseteq mishaps'
        /\ thread'["main"].at = "idle" /\ (Main.at = "wake" => "unwoken" \in mishaps')
    BY <1>6, StopDoes, IdleTyped, TwoThreads DEF Adds, Main
  <2>2. CASE Main.at = "wake"
    BY <2>1, <2>2 DEF AgentInv, Spared
  <2>3. CASE Main.at # "wake"
    BY <1>2, <2>1, <2>3
  <2>4. QED
    BY <2>2, <2>3
<1>7. CASE Agent
  <2>0. /\ UNCHANGED <<primary, thread>> /\ mishaps \ {"blind", "unwoken"} \subseteq mishaps'
        /\ Main' = Main
        /\ \A u \in Threads : LocalsOK(u)
    BY <1>7, AgentDoes DEF ThreadInv, Main
  <2>w. Main.at = "wake" /\ "late" \notin mishaps => Holds(primary, Main.next) /\ Usable(primary)
    BY DEF ThreadInv, ReadInv, Alone, Holds, Usable
  <2>1. CASE agent'.at = "load"
    BY <2>1 DEF AgentInv
  <2>2. CASE /\ Usable(primary) /\ agent'.at = "idle"
             /\ agent'.settings = IF Loadable(primary) THEN primary.settings ELSE Defaults
    <3>1. Spared({"misread", "late", "blind", "unwoken"})' => "late" \notin mishaps
      BY <2>0 DEF Spared
    <3>2. QED
      BY <2>0, <2>2, <2>w, <3>1 DEF AgentInv, Holds, Loadable
  <2>3. CASE /\ agent'.at = "fallback" /\ (~Usable(primary) \/ "misread" \in mishaps')
    BY <2>0, <2>3 DEF AgentInv, Spared
  <2>4. CASE /\ agent.at = "fallback" /\ agent'.at = "idle" /\ wake' = wake
             /\ mishaps \subseteq mishaps'
    <3>1. Spared({"misread", "late", "blind", "unwoken"})' =>
            Spared({"misread", "late", "blind", "unwoken"}) /\ "late" \notin mishaps
      BY <2>4 DEF Spared
    <3>2. SUFFICES ASSUME Spared({"misread", "late", "blind", "unwoken"}), "late" \notin mishaps,
                          ~wake
                   PROVE  /\ Main.at # "wake" => ~Usable(primary)
                          /\ Main.at = "wake" => Main.loaded = NoSettings
      BY <2>0, <2>4, <3>1 DEF AgentInv, Usable
    <3>3. QED
      BY <2>4, <2>w, <3>2 DEF AgentInv
  <2>5. QED
    BY <1>7, <2>1, <2>2, <2>3, <2>4, AgentDoes
<1>8. CASE Damage \/ Upgrade
  <2>1. Main.at = "idle" /\ Main' = Main
    BY <1>8, EnvironmentDoes, IdleTyped, TwoThreads DEF ThreadInv, Main
  <2>2. /\ UNCHANGED <<reader, mishaps>>
        /\ Loadable(primary') => primary' = primary
        /\ primary'.form = "missing" => primary.form = "missing"
        /\ Usable(primary') => primary' = primary
    BY <1>8, EnvironmentDoes
  <2>3. QED
    BY <2>1, <2>2 DEF AgentInv, Spared
<1>9. QED
  BY <1>1, <1>3, <1>4, <1>5, <1>6, <1>7, <1>8 DEF Next


-----------------------------------------------------------------------------
(* The invariant, and what follows from it.                                *)

\* The invariant holds at first.
LEMMA InvInit == Init => Inv
BY TypeInit, ThreadInit, KeptInit, ReadInit, FilesInit, AgentInit DEF Inv

\* Every step keeps it, and so does doing nothing.
LEMMA InvStep == Inv /\ [Next]_vars => Inv'
<1> SUFFICES ASSUME Inv, [Next]_vars PROVE Inv'
  OBVIOUS
<1>1. CASE Next
  BY <1>1, TypeStep, ThreadStep, KeptStep, ReadStep, BackupStep, ScreenStep, FilesStep, AgentStep DEF Inv
<1>2. CASE UNCHANGED vars
  <2> USE <1>2 DEF vars, files, process, reader, history
  <2>1. TypeOK' /\ ThreadInv' /\ OrderInv'
    BY DEF Inv, TypeOK, ThreadInv, LocalsOK, OrderInv, Saving, Main, Startup
  <2>2. KeptInv' /\ ReadInv' /\ BackupInv' /\ ScreenInv'
    BY DEF Inv, KeptInv, KeptBy, ReadInv, Alone, BackupInv, ScreenInv, Saving, Main, Spared
  <2>3. MigrationInv' /\ AgentInv' /\ EvidenceInv' /\ FutureInv'
    BY DEF Inv, MigrationInv, AgentInv, EvidenceInv, FutureInv, Main, Spared
  <2>4. QED
    BY <2>1, <2>2, <2>3 DEF Inv
<1>3. QED
  BY <1>1, <1>2

\* It holds of every behaviour.
LEMMA Invariant == Spec => []Inv
BY InvInit, InvStep, PTL DEF Spec

\* Type correctness.
THEOREM TypeCorrect == Spec => []TypeOK
<1>1. Inv => TypeOK
  BY DEF Inv
<1>2. QED
  BY <1>1, Invariant, PTL

\* The newest settings of the user in the files are what a load finds, whatever fails and
\* wherever the process ends, and a save has put what it replaces into the backup (config.rs
\* ConfigStore::save, load_recovering; src-tauri config.rs load_or_create_config): each thread
\* has what is kept in hand.
THEOREM SettingsSurvive == Spec => SavedSettingsSurvive
<1> DEFINE Found == Spared({"misread", "rewrite", "late"}) /\ kept # NoSettings => Newest = kept
           Preserved == running /\ kept' # kept /\ Loadable(primary) /\ Spared({"misread", "late"}) =>
                          backup.settings = primary.settings
<1>1. Inv => Found
  BY DEF Inv, KeptInv, Newest, Holds
<1>2. Inv /\ [Next]_vars => [Preserved]_vars
  <2> SUFFICES ASSUME Inv, Next, running, kept' # kept, Loadable(primary),
                      Spared({"misread", "late"})
               PROVE  backup.settings = primary.settings
    OBVIOUS
  <2> USE DEF files, process, reader, history
  <2>1. PICK t \in Threads : LoadOrCreate(t) \/ Save(t)
    <3>1. ~(GetAppConfig \/ SaveAppConfig \/ TakeNotice \/ Start \/ Stop)
      BY DEF GetAppConfig, SaveAppConfig, Command, TakeNotice, Start, Stop
    <3>2. ~Agent
      BY DEF Agent, AgentReads, AgentRestarts, AgentLoads, AgentFallsBack
    <3>3. ~(Damage \/ Upgrade)
      BY DEF Damage, Upgrade
    <3>4. QED
      BY <3>1, <3>2, <3>3 DEF Next
  <2>2. Replace(t)
    BY <2>1 DEF LoadOrCreate, Save, Exists, Schema, LoadPrimary, LoadBackup, Rewrite, Schemas,
       BackupSchema, Unquarantine, Quarantine, WriteNotice, Reread, Preserve, WriteBackup, Wake
  <2>3. thread[t].at = "replace" /\ thread[t].then = "saved" /\ thread[t].job = "save"
    BY <2>2 DEF Replace, Replaced, At, Inv, ThreadInv, LocalsOK, SaveSteps
  <2>4. t = "main"
    BY <2>3, TwoThreads DEF Inv, ThreadInv, Startup
  <2>5. QED
    BY <2>3, <2>4 DEF Inv, BackupInv, Main
<1> HIDE DEF Found, Preserved
<1>3. Spec => []Found /\ [][Preserved]_vars
  BY <1>1, <1>2, Invariant, PTL DEF Spec
<1>4. QED
  BY <1>3 DEF SavedSettingsSurvive, Found, Preserved

\* What the window shows is what the file says while no command runs (App.vue currentConfig,
\* commands.rs save_app_config).
THEOREM WindowShowsTheFile == Spec => []ScreenMatchesDisk
<1>1. Inv => ScreenMatchesDisk
  BY DEF Inv, ScreenInv, ScreenMatchesDisk, Spared, Main, Holds
<1>2. QED
  BY <1>1, Invariant, PTL

\* The agent acts on what the file says once everybody has finished (commands.rs
\* should_request_agent_rescan, runtime_reconcile.rs load_agent_config).
THEOREM AgentFollowsTheFile == Spec => []AgentInStep
<1>1. Inv => AgentInStep
  <2>1. Main.at = "wake" => ~\A t \in Threads : thread[t].at = "idle"
    BY TwoThreads DEF Main
  <2>2. QED
    BY <2>1 DEF Inv, AgentInv, AgentInStep
<1>2. QED
  BY <1>1, Invariant, PTL

\* A file the program cannot load is never lost (src-tauri config.rs config_uses_future_schema,
\* quarantine_corrupt_config): a damaged one is in its place or quarantined, and no step writes
\* over one of a future version.
THEOREM UnloadableKept == Spec => UnloadableFilesKept
<1> DEFINE Kept == /\ evidence' /\ mishaps' \cap {"misread", "overlap"} = {} =>
                        \E f \in {primary', corrupt'} : f.form = "damaged"
                   /\ running /\ "misread" \notin mishaps' =>
                        /\ Future(primary) => UNCHANGED primary
                        /\ Future(backup) /\ ~Loadable(primary) /\ primary.form # "missing" =>
                             UNCHANGED backup
<1>1. Inv /\ Inv' /\ [Next]_vars => [Kept]_vars
  <2> SUFFICES ASSUME Inv, Inv', Next PROVE Kept
    OBVIOUS
  <2> USE DEF files, process, reader, history
  <2>1. evidence' /\ mishaps' \cap {"misread", "overlap"} = {} =>
          \E f \in {primary', corrupt'} : f.form = "damaged"
    BY DEF Inv, EvidenceInv, Spared
  <2>2. ASSUME running, "misread" \notin mishaps', Future(primary) PROVE primary' = primary
    <3>1. CASE \E t \in Threads : LoadOrCreate(t) \/ Save(t)
      <4>1. PICK t \in Threads : LoadOrCreate(t) \/ Save(t)
        BY <3>1
      <4>2. "misread" \notin mishaps
        BY <2>2, <4>1, ThreadMoves DEF Inv
      <4>3. thread[t].at \in {"idle", "exists", "schema"}
        BY <2>2, <4>2 DEF Inv, FutureInv
      <4>4. Exists(t) \/ Schema(t)
        BY <4>1, <4>3 DEF At, LoadOrCreate, Save, LoadPrimary, LoadBackup, Rewrite, Schemas,
           BackupSchema, Unquarantine, Quarantine, WriteNotice, Reread, Preserve, WriteBackup,
           Replace, Wake
      <4>5. QED
        BY <4>4 DEF Exists, Schema
    <3>2. CASE ~\E t \in Threads : LoadOrCreate(t) \/ Save(t)
      BY <2>2, <3>2 DEF Next, GetAppConfig, SaveAppConfig, Command, TakeNotice, Start, Stop,
         Agent, AgentReads, AgentRestarts, AgentLoads, AgentFallsBack, Damage, Upgrade
    <3>3. QED
      BY <3>1, <3>2
  <2>3. ASSUME running, ~Loadable(primary), primary.form # "missing" PROVE backup' = backup
    <3>1. CASE \E t \in Threads : LoadOrCreate(t) \/ Save(t)
      <4>1. PICK t \in Threads : LoadOrCreate(t) \/ Save(t)
        BY <3>1
      \* A file is kept as the backup only when it can be loaded.
      <4>2. ~WriteBackup(t)
        BY <2>3 DEF Inv, ThreadInv, LocalsOK, Usable, WriteBackup, At
      <4>3. QED
        BY <4>1, <4>2 DEF LoadOrCreate, Save, Exists, Schema, LoadPrimary, LoadBackup, Rewrite,
           Schemas, BackupSchema, Unquarantine, Quarantine, WriteNotice, Reread, Preserve,
           Replace, Wake
    <3>2. CASE ~\E t \in Threads : LoadOrCreate(t) \/ Save(t)
      BY <2>3, <3>2 DEF Next, GetAppConfig, SaveAppConfig, Command, TakeNotice, Start, Stop,
         Agent, AgentReads, AgentRestarts, AgentLoads, AgentFallsBack, Damage, Upgrade
    <3>3. QED
      BY <3>1, <3>2
  <2>4. QED
    BY <2>1, <2>2, <2>3
<1>2. QED
  BY <1>1, Invariant, PTL DEF Spec, UnloadableFilesKept

=============================================================================
