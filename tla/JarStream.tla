----------------------------- MODULE JarStream -----------------------------
(***************************************************************************)
(* Decompiling a .jar (decompileAndGenerateJVM in internal/pipeline, over  *)
(* DecompileJARStreaming in internal/jvm): the main goroutine takes one    *)
(* class entry at a time through reading, parsing, decompiling and writing *)
(* its .java file, skipping the entries that fail or panic at any of them; *)
(* a watchdog goroutine wakes on a ticker, reads the class announced last  *)
(* and warns when it has been current for too long.                        *)
(***************************************************************************)
EXTENDS Integers, Sequences, FiniteSets

CONSTANTS
  Class,      \* the simple names of classes
  File,       \* the paths .java files are written to
  Jars,       \* archives: sequences of entries [class, file]
  NoClass,    \* currentName before the first class
  Threshold,  \* units of time after which a class is warned about
  MaxElapsed  \* bound on the time counted since the last announcement

ASSUME JarAssumption ==
  /\ Jars \subseteq Seq([class : Class, file : File])
  /\ NoClass \notin Class
  /\ Threshold \in Nat /\ MaxElapsed \in Nat /\ Threshold < MaxElapsed

VARIABLES
  jar,        \* the entries CountClassEntries counted
  entry,      \* the index of the entry being processed, 0 at first
  stage,      \* where the main goroutine is
  current,    \* currentName
  announced,  \* history: the entry that announced it, 0 at first
  elapsed,    \* time since currentStart
  files,      \* what every .java file holds: an entry, Partial or Absent
  count,      \* classes written
  skipped,    \* calls of onSkip
  opened,     \* DecompileJARStreaming could open the archive
  watch,      \* "select", "print" or "ended": the watchdog
  seen,       \* what it read under the lock
  lastWarned, \* the class it last printed
  tick,       \* a tick waits in ticker.C
  stopped,    \* watchdogStop is closed
  warned      \* history: the entries whose announcement led to a warning

naming == <<current, announced>>
main   == <<jar, entry, stage, naming, files, count, skipped, opened, stopped>>
guard  == <<watch, seen, lastWarned, warned>>
vars   == <<main, guard, elapsed, tick>>

Absent  == 0
Partial == -1

Working == {"read", "parse", "decompile", "announce", "create", "write"}

-----------------------------------------------------------------------------
(* The main goroutine. *)

OpenJar ==
  /\ stage = "opening"
  /\ \/ opened' = TRUE /\ stage' = "next"
     \/ opened' = FALSE /\ stage' = "closing"
  /\ UNCHANGED <<jar, entry, naming, files, count, skipped, stopped, guard, elapsed, tick>>

(* A mutant of NextEntry: one entry too many. *)
MutNextEntryPast ==
  /\ stage = "next"
  /\ IF entry <= Len(jar)
     THEN entry' = entry + 1 /\ stage' = "read"
     ELSE stage' = "closing" /\ UNCHANGED entry
  /\ UNCHANGED <<jar, naming, files, count, skipped, opened, stopped, guard, elapsed, tick>>

NextEntry ==
  /\ stage = "next"
  /\ IF entry < Len(jar)
     THEN entry' = entry + 1 /\ stage' = "read"
     ELSE stage' = "closing" /\ UNCHANGED entry
  /\ UNCHANGED <<jar, naming, files, count, skipped, opened, stopped, guard, elapsed, tick>>

(* skip: an error return, or a panic recovered by the deferred function. *)
Skip == stage' = "next" /\ skipped' = skipped + 1

(* One of the steps before onClass. *)
Prepare(from, to) ==
  /\ stage = from
  /\ \/ stage' = to /\ UNCHANGED skipped
     \/ Skip
  /\ UNCHANGED <<jar, entry, naming, files, count, opened, stopped, guard, elapsed, tick>>

ReadEntry      == Prepare("read", "parse")
ParseEntry     == Prepare("parse", "decompile")
DecompileEntry == Prepare("decompile", "announce")

(* onClass, up to GenerateClass. *)
Announce ==
  /\ stage = "announce"
  /\ current' = jar[entry].class
  /\ announced' = entry
  /\ elapsed' = 0
  /\ stage' = "create"
  /\ UNCHANGED <<jar, entry, files, count, skipped, opened, stopped, guard, tick>>

(* generateClass up to os.Create, which empties the file. *)
CreateFile ==
  /\ stage = "create"
  /\ \/ /\ files' = [files EXCEPT ![jar[entry].file] = Partial]
        /\ stage' = "write"
        /\ UNCHANGED skipped
     \/ Skip /\ UNCHANGED files
  /\ UNCHANGED <<jar, entry, naming, count, opened, stopped, guard, elapsed, tick>>

(* A mutant of WriteFile: the class is counted before it is generated. *)
MutWriteFileCounted ==
  /\ stage = "write"
  /\ \/ /\ files' = [files EXCEPT ![jar[entry].file] = entry]
        /\ stage' = "next"
        /\ UNCHANGED skipped
     \/ Skip /\ UNCHANGED files
  /\ count' = count + 1
  /\ UNCHANGED <<jar, entry, current, announced, opened, stopped, guard, elapsed, tick>>

(* The template is executed into the file, and the class is counted. *)
WriteFile ==
  /\ stage = "write"
  /\ \/ /\ files' = [files EXCEPT ![jar[entry].file] = entry]
        /\ count' = count + 1
        /\ stage' = "next"
        /\ UNCHANGED skipped
     \/ Skip /\ UNCHANGED <<files, count>>
  /\ UNCHANGED <<jar, entry, current, announced, opened, stopped, guard, elapsed, tick>>

(* A mutant of CloseStop: the error of the streaming call returns first. *)
MutCloseStopOnSuccess ==
  /\ stage = "closing"
  /\ stopped' = opened
  /\ stage' = "waiting"
  /\ UNCHANGED <<jar, entry, naming, files, count, skipped, opened, guard, elapsed, tick>>

CloseStop ==
  /\ stage = "closing"
  /\ stopped' = TRUE
  /\ stage' = "waiting"
  /\ UNCHANGED <<jar, entry, naming, files, count, skipped, opened, guard, elapsed, tick>>

(* A mutant of Summarize: watchdogDone is not waited for. *)
MutSummarizeAtOnce ==
  /\ stage = "waiting"
  /\ stage' = "returned"
  /\ UNCHANGED <<jar, entry, naming, files, count, skipped, opened, stopped, guard, elapsed, tick>>

(* watchdogDone is closed: the totals, or the error, are reported. *)
Summarize ==
  /\ stage = "waiting"
  /\ watch = "ended"
  /\ stage' = "returned"
  /\ UNCHANGED <<jar, entry, naming, files, count, skipped, opened, stopped, guard, elapsed, tick>>

-----------------------------------------------------------------------------
(* Time and the watchdog. *)

(* The ticker's period passes: ticks that are not taken are dropped. *)
Time ==
  /\ elapsed' = IF elapsed < MaxElapsed THEN elapsed + 1 ELSE elapsed
  /\ tick' = TRUE
  /\ UNCHANGED <<main, guard>>

(* A mutant of OnTick: a class is taken for warned about when first seen. *)
MutOnTickRemember ==
  /\ watch = "select"
  /\ tick
  /\ tick' = FALSE
  /\ seen' = [class |-> current, announced |-> announced, entry |-> entry]
  /\ lastWarned' = current
  /\ watch' = IF current \notin {NoClass, lastWarned} /\ elapsed > Threshold
              THEN "print" ELSE "select"
  /\ UNCHANGED <<main, elapsed, warned>>

(* The tick is chosen: name and age are read together under the lock. *)
OnTick ==
  /\ watch = "select"
  /\ tick
  /\ tick' = FALSE
  /\ seen' = [class |-> current, announced |-> announced, entry |-> entry]
  /\ watch' = IF current \notin {NoClass, lastWarned} /\ elapsed > Threshold
              THEN "print" ELSE "select"
  /\ UNCHANGED <<main, elapsed, lastWarned, warned>>

Warn ==
  /\ watch = "print"
  /\ lastWarned' = seen.class
  /\ warned' = warned \cup {seen.announced}
  /\ watch' = "select"
  /\ UNCHANGED <<main, elapsed, tick, seen>>

OnStop ==
  /\ watch = "select"
  /\ stopped
  /\ watch' = "ended"
  /\ UNCHANGED <<main, elapsed, tick, seen, lastWarned, warned>>

-----------------------------------------------------------------------------
Init ==
  /\ jar \in Jars
  /\ entry = 0
  /\ stage = "opening"
  /\ current = NoClass /\ announced = 0
  /\ elapsed = 0
  /\ files = [f \in File |-> Absent]
  /\ count = 0 /\ skipped = 0
  /\ opened = FALSE
  /\ watch = "select"
  /\ seen = [class |-> NoClass, announced |-> 0, entry |-> 0]
  /\ lastWarned = NoClass
  /\ tick = FALSE
  /\ stopped = FALSE
  /\ warned = {}

Next ==
  \/ OpenJar \/ NextEntry
  \/ ReadEntry \/ ParseEntry \/ DecompileEntry
  \/ Announce \/ CreateFile \/ WriteFile
  \/ CloseStop \/ Summarize
  \/ Time \/ OnTick \/ Warn \/ OnStop

(***************************************************************************)
(* Time passes and the watchdog's goroutine is scheduled.  A select with   *)
(* both channels ready picks one at random, so closing watchdogStop is not *)
(* overlooked forever.  Nothing forces the main goroutine through a stage: *)
(* a class may take forever, which is what the watchdog is for; closing    *)
(* the channel and returning take no time.                                 *)
(***************************************************************************)
Fairness ==
  /\ WF_vars(Time) /\ WF_vars(OnTick) /\ WF_vars(Warn) /\ SF_vars(OnStop)
  /\ WF_vars(CloseStop) /\ WF_vars(Summarize)

Spec == Init /\ [][Next]_vars /\ Fairness

-----------------------------------------------------------------------------
(***************************************************************************)
(* The type invariant: the watchdog never has an entry beyond the archive, *)
(* and it only prints the name of a class.                                 *)
(***************************************************************************)
TypeOK ==
  /\ jar \in Jars
  /\ entry \in 0 .. Len(jar)
  /\ count \in Nat /\ skipped \in Nat
  /\ stage \in Working \cup {"opening", "next", "closing", "waiting", "returned"}
  /\ current \in Class \cup {NoClass} /\ announced \in 0 .. Len(jar)
  /\ current \in Class => announced # 0
  /\ elapsed \in 0 .. MaxElapsed
  /\ files \in [File -> DOMAIN jar \cup {Partial, Absent}]
  /\ stage \in Working => entry # 0
  /\ watch \in {"select", "print", "ended"}
  /\ seen \in [class : Class \cup {NoClass}, announced : 0 .. Len(jar), entry : 0 .. Len(jar)]
  /\ watch = "print" => seen.class \in Class /\ seen.announced # 0
  /\ lastWarned \in Class \cup {NoClass}
  /\ warned \subseteq DOMAIN jar
  /\ {opened, tick, stopped} \subseteq BOOLEAN

(***************************************************************************)
(* The numbers of the summary account for every class entry once: each is  *)
(* decompiled or skipped, wherever it failed or panicked.                  *)
(***************************************************************************)
CountsAddUp ==
  count + skipped = IF stage \in Working THEN entry - 1 ELSE entry

(***************************************************************************)
(* "Decompiled n classes" is the number of complete .java files, when no   *)
(* two entries are written to one path.                                    *)
(***************************************************************************)
FilesMatchCount ==
  (\A i, j \in DOMAIN jar : jar[i].file = jar[j].file => i = j) =>
    count = Cardinality({f \in File : files[f] \in DOMAIN jar})

(***************************************************************************)
(* The watchdog prints nothing after the totals: it has ended by then.     *)
(***************************************************************************)
NoWarningAfterSummary == [][stage = "returned" => UNCHANGED <<watch, warned>>]_vars

(* onClass has announced entry i and has not returned. *)
Generating(i) == stage \in {"create", "write"} /\ entry = i

(* The entry warned about last has the simple name of i. *)
SameNameWarnedLast(i) ==
  /\ i \in DOMAIN jar
  /\ \E j \in warned : jar[j].class = jar[i].class /\ \A k \in warned : k <= j

(***************************************************************************)
(* A class whose generation never ends is warned about while it is         *)
(* current: a warning about another entry of the same simple name does not *)
(* count, except where no other name was printed in between.  There        *)
(* lastWarned keeps the watchdog silent, against the comment above it:     *)
(* "the person sees which class it's stuck on".                            *)
(***************************************************************************)
StallReported ==
  \A i \in UNION {DOMAIN j : j \in Jars} :
    <>[]Generating(i) => <>[](i \in warned \/ SameNameWarnedLast(i))

(***************************************************************************)
(* Once the archive has been gone through, or could not be opened, the     *)
(* call returns: neither goroutine waits for the other forever.            *)
(***************************************************************************)
Returns == stage = "closing" ~> stage = "returned"

(***************************************************************************)
(* "If any single class's parse/decompile/generate ever takes an unusually *)
(* long time", "the person sees which class it's stuck on": the class a    *)
(* warning names is that of the entry being processed when it was read.    *)
(***************************************************************************)
WarningNamesCulprit == watch = "print" => jar[seen.entry].class = seen.class
=============================================================================
