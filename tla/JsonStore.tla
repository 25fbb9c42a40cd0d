----------------------------- MODULE JsonStore -----------------------------
(***************************************************************************)
(* One state file under src/src/shared/atomic_json.py: threads of several  *)
(* processes each make a locked read-modify-write, readers read without    *)
(* the lock.  The temporary file is named by the process, so the threads   *)
(* of one process share it; a handle follows its file through a rename.    *)
(* A read that fails answers the default, here no updates at all.          *)
(***************************************************************************)
CONSTANTS Writers,       \* threads; each makes one update, named after it
          StoreReaders,
          Processes,
          ProcessOf,     \* the process of each writer
          Nobody,        \* no lock holder
          Torn,          \* a file that is not JSON
          NoFile         \* no temporary file

ASSUME StoreAssumption == /\ ProcessOf \in [Writers -> Processes]
                          /\ Nobody \notin Writers
                          /\ NoFile # Torn
                          /\ \A c \in SUBSET Writers : c # Torn /\ c # NoFile

VARIABLES content,  \* the file: a set of updates, or Torn
          tmpfile,  \* each process's temporary file: also NoFile
          handle,   \* where each writer's open file is now
          holder,   \* who has the lock
          loaded,   \* what each writer read in the update it is in
          writing,  \* where each writer stands
          acked,    \* writers that have returned
          seen,     \* what each reader saw last
          misread,  \* history: the writers in an update whose read failed,
          blind     \* and the readers whose last read failed

readFailures == <<misread, blind>>
storeVars == <<content, tmpfile, handle, holder, loaded, writing, acked, seen, readFailures>>

Whole(c) == IF c = Torn THEN {} ELSE c

ReadJson == Whole(content)

(* read_json catches an OSError of a file that is there. *)
Default == {}

StoreInit == /\ content = {}
             /\ tmpfile = [p \in Processes |-> NoFile]
             /\ handle = [t \in Writers |-> "none"]
             /\ holder = Nobody
             /\ loaded = [t \in Writers |-> {}]
             /\ writing = [t \in Writers |-> "idle"]
             /\ acked = {}
             /\ seen = [r \in StoreReaders |-> {}]
             /\ misread = {} /\ blind = {}

StoreAt(t, label) == writing[t] = label

StoreGoto(t, label) == writing' = [writing EXCEPT ![t] = label]

(* What a writer read ends with its locked block. *)
ReadEnds(ts) == /\ loaded' = [t \in Writers |-> IF t \in ts THEN {} ELSE loaded[t]]
                /\ misread' = misread \ ts

EnterLocked(t) == /\ StoreAt(t, "idle") /\ t \notin acked
                  /\ holder = Nobody
                  /\ holder' = t
                  /\ StoreGoto(t, "locked")
                  /\ UNCHANGED <<content, tmpfile, handle, loaded, acked, seen, readFailures>>

LoadJson(t) == /\ StoreAt(t, "locked")
               /\ \/ /\ loaded' = [loaded EXCEPT ![t] = ReadJson]
                     /\ misread' = misread \ {t}
                  \/ /\ loaded' = [loaded EXCEPT ![t] = Default]
                     /\ misread' = misread \cup {t}
               /\ StoreGoto(t, "loaded")
               /\ UNCHANGED <<content, tmpfile, handle, holder, acked, seen, blind>>

\* Mutant: the target itself is opened for writing.
OpenTarget(t) == /\ StoreAt(t, "loaded")
                 /\ content' = Torn
                 /\ handle' = [handle EXCEPT ![t] = "file"]
                 /\ StoreGoto(t, "opened")
                 /\ UNCHANGED <<tmpfile, holder, loaded, acked, seen, readFailures>>

(* open(tmp, "w") creates or truncates the process's temporary file. *)
OpenTmp(t) == /\ StoreAt(t, "loaded")
              /\ tmpfile' = [tmpfile EXCEPT ![ProcessOf[t]] = Torn]
              /\ handle' = [handle EXCEPT ![t] = "tmp"]
              /\ StoreGoto(t, "opened")
              /\ UNCHANGED <<content, holder, loaded, acked, seen, readFailures>>

Updated(t) == loaded[t] \cup {t}

(* json.dump, fsync and close: the bytes go where the handle is by now. *)
DumpJson(t) ==
  /\ StoreAt(t, "opened")
  /\ tmpfile' = [tmpfile EXCEPT ![ProcessOf[t]] =
                   IF handle[t] = "tmp" THEN Updated(t) ELSE @]
  /\ content' = IF handle[t] = "file" THEN Updated(t) ELSE content
  /\ handle' = [handle EXCEPT ![t] = "none"]
  /\ StoreGoto(t, "dumped")
  /\ UNCHANGED <<holder, loaded, acked, seen, readFailures>>

(* Renaming p's temporary file over the target: handles follow their file. *)
AfterRename(p) ==
  [u \in Writers |-> CASE handle[u] = "tmp" /\ ProcessOf[u] = p -> "file"
                       [] handle[u] = "file" -> "gone"
                       [] OTHER -> handle[u]]

ReplaceFile(t) ==
  LET p == ProcessOf[t]
  IN  /\ StoreAt(t, "dumped")
      /\ tmpfile[p] # NoFile
      /\ content' = tmpfile[p]
      /\ tmpfile' = [tmpfile EXCEPT ![p] = NoFile]
      /\ handle' = AfterRename(p)
      /\ StoreGoto(t, "replaced")
      /\ UNCHANGED <<holder, loaded, acked, seen, readFailures>>

(* An OSError anywhere in write_json (also of os.replace, when the temporary
   file is gone): the temporary file is removed and the caller gets the
   error, through the end of the locked block. *)
WriteFails(t) ==
  LET p == ProcessOf[t]
  IN  /\ writing[t] \in {"loaded", "opened", "dumped"}
      /\ tmpfile' = [tmpfile EXCEPT ![p] = NoFile]
      /\ handle' = [u \in Writers |->
                      IF u = t THEN "none"
                      ELSE IF handle[u] = "tmp" /\ ProcessOf[u] = p THEN "gone"
                      ELSE handle[u]]
      /\ holder' = Nobody
      /\ StoreGoto(t, "idle")
      /\ ReadEnds({t})
      /\ UNCHANGED <<content, acked, seen, blind>>

LeaveLocked(t) == /\ StoreAt(t, "replaced")
                  /\ holder' = Nobody
                  /\ acked' = acked \cup {t}
                  /\ StoreGoto(t, "idle")
                  /\ ReadEnds({t})
                  /\ UNCHANGED <<content, tmpfile, handle, seen, blind>>

(* The process is killed: its locks go with it, its temporary file stays. *)
StoreCrash(p) ==
  /\ \E t \in Writers : ProcessOf[t] = p /\ ~ StoreAt(t, "idle")
  /\ holder' = IF holder # Nobody /\ ProcessOf[holder] = p THEN Nobody ELSE holder
  /\ writing' = [t \in Writers |-> IF ProcessOf[t] = p THEN "idle" ELSE writing[t]]
  /\ handle' = [t \in Writers |-> IF ProcessOf[t] = p THEN "none" ELSE handle[t]]
  /\ ReadEnds({t \in Writers : ProcessOf[t] = p})
  /\ UNCHANGED <<content, tmpfile, acked, seen, blind>>

ReadUnlocked(r) == /\ \/ /\ seen' = [seen EXCEPT ![r] = ReadJson]
                         /\ blind' = blind \ {r}
                      \/ /\ seen' = [seen EXCEPT ![r] = Default]
                         /\ blind' = blind \cup {r}
                   /\ UNCHANGED <<content, tmpfile, handle, holder, loaded, writing, acked,
                                  misread>>

WriteJson(t) == OpenTmp(t) \/ DumpJson(t) \/ ReplaceFile(t) \/ WriteFails(t)

LockedUpdate(t) == EnterLocked(t) \/ LoadJson(t) \/ WriteJson(t) \/ LeaveLocked(t)

StoreNext == \/ \E t \in Writers : LockedUpdate(t)
             \/ \E p \in Processes : StoreCrash(p)
             \/ \E r \in StoreReaders : ReadUnlocked(r)

StoreSpec == StoreInit /\ [][StoreNext]_storeVars

-----------------------------------------------------------------------------
Contents == {Torn} \cup SUBSET Writers

StoreTypeOK ==
  /\ content \in Contents
  /\ tmpfile \in [Processes -> {NoFile} \cup Contents]
  /\ handle \in [Writers -> {"none", "tmp", "file", "gone"}]
  /\ holder \in Writers \cup {Nobody}
  /\ loaded \in [Writers -> SUBSET Writers]
  /\ writing \in [Writers -> {"idle", "locked", "loaded", "opened", "dumped", "replaced"}]
  /\ acked \subseteq Writers
  /\ seen \in [StoreReaders -> SUBSET Writers]
  /\ misread \subseteq Writers /\ blind \subseteq StoreReaders

(* The file is a register that locked updates change at once, through crashes
   and failing writes: none is torn, and none is lost but to an update whose own
   read failed and which then replaced the file; a reader without the lock sees
   the file of that moment, or nothing when its read failed (atomic_json.py:
   locked, write_json, read_json). *)
Register == INSTANCE AtomicStore WITH Updates <- Writers, stored <- ReadJson

StoreRefinesRegister == Register!RegisterSpec

(* False of the code: what the module is there for ("that silently erases the
   trade"), and "a reader ever sees either the old file or the new one". *)
AckedUpdatesStay == acked \subseteq ReadJson

ReadersNeverGoBack == [][\A r \in StoreReaders : seen[r] \cap acked \subseteq seen'[r]]_storeVars
=============================================================================
