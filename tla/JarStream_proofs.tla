-------------------------- MODULE JarStream_proofs --------------------------
(***************************************************************************)
(* The totals of the summary are right, for every archive and whatever     *)
(* fails, and the watchdog is silent once they are printed.                *)
(*                                                                         *)
(* FilesMatchCount is not inductive: writing an entry adds a complete file *)
(* only if its path held none, and that is so because complete files       *)
(* belong to entries already gone through (WrittenBehind), which with      *)
(* distinct paths is none of this entry.                                   *)
(***************************************************************************)
EXTENDS JarStream, FiniteSetTheorems, SequenceTheorems, TLAPS

Complete == {f \in File : files[f] \in DOMAIN jar}

(* A complete file is that of an entry gone through. *)
WrittenBehind ==
  \A f \in Complete :
    /\ jar[files[f]].file = f
    /\ files[f] <= entry
    /\ stage \in Working => files[f] # entry

(* Summarize waits for watchdogDone. *)
EndedFirst == stage = "returned" => watch = "ended"

Inv ==
  /\ TypeOK
  /\ CountsAddUp
  /\ WrittenBehind
  /\ IsFiniteSet(Complete)
  /\ FilesMatchCount
  /\ EndedFirst

-----------------------------------------------------------------------------
(* The entry being processed is one of the archive. *)
LEMMA CurrentEntry ==
  ASSUME TypeOK
  PROVE  /\ Len(jar) \in Nat
         /\ DOMAIN jar = 1 .. Len(jar)
         /\ entry # 0 => /\ entry \in DOMAIN jar
                         /\ jar[entry].class \in Class
                         /\ jar[entry].file \in File
<1>1. jar \in Seq([class : Class, file : File])
  BY JarAssumption DEF TypeOK
<1>2. Len(jar) \in Nat /\ DOMAIN jar = 1 .. Len(jar)
  BY <1>1
<1>3. ASSUME entry # 0 PROVE entry \in DOMAIN jar
  BY <1>2, <1>3 DEF TypeOK
<1>4. ASSUME entry # 0
      PROVE  jar[entry].class \in Class /\ jar[entry].file \in File
  <2>1. entry \in 1 .. Len(jar)
    BY <1>2, <1>3, <1>4
  <2>2. jar[entry] \in [class : Class, file : File]
    BY <1>1, <2>1, ElementOfSeq
  <2> QED
    BY <2>2
<1> QED
  BY <1>2, <1>3, <1>4

(* Every step keeps the types. *)
LEMMA TypeStep ==
  ASSUME TypeOK, [Next]_vars
  PROVE  TypeOK'
<1> USE DEF TypeOK, Working
<1>1. CASE OpenJar
  BY <1>1 DEF OpenJar, guard, naming
<1>2. CASE NextEntry
  BY <1>2, CurrentEntry DEF NextEntry, guard, naming
<1>3. CASE ReadEntry
  BY <1>3 DEF ReadEntry, Prepare, Skip, guard, naming
<1>4. CASE ParseEntry
  BY <1>4 DEF ParseEntry, Prepare, Skip, guard, naming
<1>5. CASE DecompileEntry
  BY <1>5 DEF DecompileEntry, Prepare, Skip, guard, naming
<1>6. CASE Announce
  BY <1>6, CurrentEntry, JarAssumption DEF Announce, guard, naming
<1>7. CASE CreateFile
  BY <1>7, CurrentEntry DEF CreateFile, Skip, guard, naming
<1>8. CASE WriteFile
  BY <1>8, CurrentEntry DEF WriteFile, Skip, guard, naming
<1>9. CASE CloseStop
  BY <1>9 DEF CloseStop, guard, naming
<1>10. CASE Summarize
  BY <1>10 DEF Summarize, guard, naming
<1>11. CASE Time
  BY <1>11, JarAssumption DEF Time, main, guard, naming
<1>12. CASE OnTick
  BY <1>12 DEF OnTick, main, naming
<1>13. CASE Warn
  BY <1>13 DEF Warn, main, naming
<1>14. CASE OnStop
  BY <1>14 DEF OnStop, main, naming
<1>15. CASE UNCHANGED vars
  BY <1>15 DEF vars, main, guard, naming
<1> QED
  BY <1>1, <1>2, <1>3, <1>4, <1>5, <1>6, <1>7, <1>8, <1>9, <1>10, <1>11,
     <1>12, <1>13, <1>14, <1>15 DEF Next

(* Each entry is counted or skipped on the step that leaves its last stage. *)
LEMMA CountsStep ==
  ASSUME TypeOK, CountsAddUp, [Next]_vars
  PROVE  CountsAddUp'
<1> USE DEF CountsAddUp, Working
<1>0. count \in Nat /\ skipped \in Nat /\ entry \in Int
  BY CurrentEntry DEF TypeOK
<1>1. CASE OpenJar
  BY <1>1 DEF OpenJar
<1>2. CASE NextEntry
  BY <1>0, <1>2 DEF NextEntry
<1>3. CASE ReadEntry \/ ParseEntry \/ DecompileEntry
  BY <1>0, <1>3 DEF ReadEntry, ParseEntry, DecompileEntry, Prepare, Skip
<1>4. CASE Announce
  BY <1>4 DEF Announce
<1>5. CASE CreateFile
  BY <1>0, <1>5 DEF CreateFile, Skip
<1>6. CASE WriteFile
  BY <1>0, <1>6 DEF WriteFile, Skip
<1>7. CASE CloseStop \/ Summarize
  BY <1>7 DEF CloseStop, Summarize
<1>8. CASE Time \/ OnTick \/ Warn \/ OnStop \/ UNCHANGED vars
  BY <1>8 DEF Time, OnTick, Warn, OnStop, vars, main
<1> QED
  BY <1>1, <1>2, <1>3, <1>4, <1>5, <1>6, <1>7, <1>8 DEF Next

-----------------------------------------------------------------------------
(* The steps that touch no file only move on. *)
LEMMA OtherSteps ==
  ASSUME [Next]_vars, ~CreateFile, ~WriteFile
  PROVE  /\ UNCHANGED <<jar, files, count>>
         /\ \/ entry' = entry /\ (stage' \in Working => stage \in Working)
            \/ entry' = entry + 1
<1> USE DEF Working
<1>1. CASE OpenJar
  BY <1>1 DEF OpenJar
<1>2. CASE NextEntry
  BY <1>2 DEF NextEntry
<1>3. CASE ReadEntry \/ ParseEntry \/ DecompileEntry
  BY <1>3 DEF ReadEntry, ParseEntry, DecompileEntry, Prepare, Skip
<1>4. CASE Announce
  BY <1>4 DEF Announce
<1>5. CASE CloseStop \/ Summarize
  BY <1>5 DEF CloseStop, Summarize
<1>6. CASE Time \/ OnTick \/ Warn \/ OnStop \/ UNCHANGED vars
  BY <1>6 DEF Time, OnTick, Warn, OnStop, vars, main
<1> QED
  BY <1>1, <1>2, <1>3, <1>4, <1>5, <1>6 DEF Next

(* What the two steps that touch a file do. *)
LEMMA FileSteps ==
  ASSUME TypeOK, CreateFile \/ WriteFile
  PROVE  /\ entry \in DOMAIN jar
         /\ stage \in Working
         /\ UNCHANGED <<jar, entry>>
         /\ LET f == jar[entry].file
            IN  /\ f \in File
                /\ \/ UNCHANGED <<files, count>>
                   \/ files' = [files EXCEPT ![f] = Partial] /\ count' = count
                   \/ /\ files' = [files EXCEPT ![f] = entry]
                      /\ count' = count + 1
                      /\ stage' = "next"
<1>1. stage \in Working
  BY DEF CreateFile, WriteFile, Working
<1>2. entry # 0
  BY <1>1 DEF TypeOK
<1>3. CASE CreateFile
  BY <1>1, <1>2, <1>3, CurrentEntry DEF CreateFile
<1>4. CASE WriteFile
  BY <1>1, <1>2, <1>4, CurrentEntry DEF WriteFile
<1> QED
  BY <1>3, <1>4

(* How the set of complete files changes. *)
LEMMA CompleteSteps ==
  ASSUME TypeOK, CreateFile \/ WriteFile
  PROVE  LET f == jar[entry].file
         IN  \/ Complete' = Complete /\ UNCHANGED <<files, count>>
             \/ Complete' = Complete \ {f} /\ count' = count
             \/ /\ Complete' = Complete \cup {f}
                /\ count' = count + 1
                /\ stage' = "next"
<1> DEFINE f == jar[entry].file
<1>1. /\ entry \in DOMAIN jar /\ jar' = jar /\ f \in File
      /\ \A g \in File : files[g] \in DOMAIN jar \cup {Partial, Absent}
      /\ DOMAIN files = File
      /\ Partial \notin DOMAIN jar
  BY FileSteps, CurrentEntry DEF TypeOK, Partial
<1>2. CASE UNCHANGED <<files, count>>
  BY <1>1, <1>2 DEF Complete
<1>3. CASE files' = [files EXCEPT ![f] = Partial] /\ count' = count
  BY <1>1, <1>3 DEF Complete
<1>4. CASE /\ files' = [files EXCEPT ![f] = entry]
           /\ count' = count + 1
           /\ stage' = "next"
  BY <1>1, <1>4 DEF Complete
<1> QED
  BY <1>2, <1>3, <1>4, FileSteps

(* Complete files belong to entries gone through. *)
LEMMA BehindStep ==
  ASSUME TypeOK, WrittenBehind, [Next]_vars
  PROVE  WrittenBehind'
<1>1. entry \in Nat /\ (\A g \in Complete : files[g] \in Nat)
  BY CurrentEntry DEF TypeOK, Complete
<1>2. CASE ~CreateFile /\ ~WriteFile
  <2>1. Complete' = Complete /\ jar' = jar /\ files' = files
    BY <1>2, OtherSteps DEF Complete
  <2>2. CASE entry' = entry /\ (stage' \in Working => stage \in Working)
    BY <2>1, <2>2 DEF WrittenBehind
  <2>3. CASE entry' = entry + 1
    BY <1>1, <2>1, <2>3 DEF WrittenBehind
  <2> QED
    BY <1>2, <2>2, <2>3, OtherSteps
<1>3. CASE CreateFile \/ WriteFile
  <2> DEFINE f == jar[entry].file
  <2>1. /\ stage \in Working /\ entry \in DOMAIN jar /\ f \in File
        /\ jar' = jar /\ entry' = entry
        /\ DOMAIN files = File
    BY <1>3, FileSteps DEF TypeOK
  <2>2. SUFFICES ASSUME NEW g \in Complete'
                 PROVE  /\ jar[files'[g]].file = g
                        /\ files'[g] <= entry
                        /\ stage' \in Working => files'[g] # entry
    BY <2>1 DEF WrittenBehind
  <2>3. g \in File /\ files'[g] \in DOMAIN jar
    BY <2>1, <2>2 DEF Complete
  <2>4. CASE g # f \/ UNCHANGED files
    <3>1. files'[g] = files[g]
      BY <1>3, <2>1, <2>3, <2>4, FileSteps
    <3>2. g \in Complete
      BY <2>3, <3>1 DEF Complete
    <3> QED
      BY <2>1, <3>1, <3>2 DEF WrittenBehind
  <2>5. CASE g = f /\ files' = [files EXCEPT ![f] = Partial]
    BY <2>1, <2>3, <2>5, CurrentEntry DEF Partial
  <2>6. CASE g = f /\ files' = [files EXCEPT ![f] = entry] /\ stage' = "next"
    BY <1>1, <2>1, <2>6 DEF Working
  <2> QED
    BY <1>3, <2>4, <2>5, <2>6, FileSteps
<1> QED
  BY <1>2, <1>3

(* With distinct paths, the path of this entry holds no complete file. *)
LEMMA FreshPath ==
  ASSUME TypeOK, WrittenBehind, CreateFile \/ WriteFile,
         \A i, j \in DOMAIN jar : jar[i].file = jar[j].file => i = j
  PROVE  jar[entry].file \notin Complete
<1>1. entry \in DOMAIN jar /\ stage \in Working
  BY FileSteps
<1> SUFFICES ASSUME jar[entry].file \in Complete
             PROVE  FALSE
  OBVIOUS
<1> DEFINE f == jar[entry].file
<1>2. files[f] \in DOMAIN jar /\ jar[files[f]].file = f /\ files[f] # entry
  BY <1>1 DEF WrittenBehind, Complete
<1> QED
  BY <1>1, <1>2

(* Writing an entry adds one complete file, and nothing else does. *)
LEMMA FilesStep ==
  ASSUME TypeOK, WrittenBehind, IsFiniteSet(Complete), FilesMatchCount, [Next]_vars
  PROVE  IsFiniteSet(Complete)' /\ FilesMatchCount'
<1>1. count \in Nat
  BY DEF TypeOK
<1>2. CASE ~CreateFile /\ ~WriteFile
  BY <1>2, OtherSteps DEF Complete, FilesMatchCount
<1>3. CASE CreateFile \/ WriteFile
  <2> DEFINE f == jar[entry].file
             Distinct == \A i, j \in DOMAIN jar : jar[i].file = jar[j].file => i = j
  <2>1. jar' = jar
    BY <1>3, FileSteps
  <2>2. Distinct => f \notin Complete
    BY <1>3, FreshPath
  <2>3. IsFiniteSet(Complete \cup {f}) /\ IsFiniteSet(Complete \ {f})
    BY FS_AddElement, FS_RemoveElement
  <2>4. f \notin Complete => /\ Cardinality(Complete \cup {f}) = Cardinality(Complete) + 1
                             /\ Complete \ {f} = Complete
    BY FS_AddElement
  <2>5. Distinct => count = Cardinality(Complete)
    BY DEF FilesMatchCount, Complete
  <2>6. IsFiniteSet(Complete)' /\ (Distinct => count' = Cardinality(Complete'))
    <3> HIDE DEF f, Distinct
    <3>1. CASE Complete' = Complete /\ UNCHANGED <<files, count>>
      BY <2>5, <3>1
    <3>2. CASE Complete' = Complete \ {f} /\ count' = count
      BY <2>2, <2>3, <2>4, <2>5, <3>2
    <3>3. CASE Complete' = Complete \cup {f} /\ count' = count + 1
      BY <2>2, <2>3, <2>4, <2>5, <3>3
    <3> QED
      BY <1>3, <3>1, <3>2, <3>3, CompleteSteps DEF f
  <2> QED
    BY <2>1, <2>6 DEF FilesMatchCount, Complete
<1> QED
  BY <1>2, <1>3

(* The totals are printed after the watchdog has ended. *)
LEMMA EndedStep ==
  ASSUME EndedFirst, [Next]_vars
  PROVE  EndedFirst'
BY DEF EndedFirst, Next, OpenJar, NextEntry, ReadEntry, ParseEntry, DecompileEntry,
       Prepare, Skip, Announce, CreateFile, WriteFile, CloseStop, Summarize,
       Time, OnTick, Warn, OnStop, vars, main, guard, naming

-----------------------------------------------------------------------------
(***************************************************************************)
(* Inv holds of every archive: each step keeps each of its parts.          *)
(***************************************************************************)
THEOREM InvHolds == Spec => []Inv
<1>1. Init => Inv
  <2> SUFFICES ASSUME Init
               PROVE  Inv
    OBVIOUS
  <2>1. jar \in Seq([class : Class, file : File])
    BY JarAssumption DEF Init
  <2>2. Len(jar) \in Nat /\ DOMAIN jar = 1 .. Len(jar)
    BY <2>1
  <2>3. TypeOK
    <3>1. /\ jar \in Jars /\ entry \in 0 .. Len(jar)
          /\ count \in Nat /\ skipped \in Nat /\ elapsed \in 0 .. MaxElapsed
      BY <2>2, JarAssumption DEF Init
    <3>2. files \in [File -> DOMAIN jar \cup {Partial, Absent}]
      BY DEF Init
    <3>3. seen \in [class : Class \cup {NoClass}, announced : 0 .. Len(jar),
                     entry : 0 .. Len(jar)]
      BY <2>2 DEF Init
    <3>4. /\ stage = "opening" /\ watch = "select" /\ current = NoClass /\ announced = 0
          /\ announced \in 0 .. Len(jar) /\ NoClass \notin Class
          /\ lastWarned = NoClass /\ warned = {}
          /\ opened = FALSE /\ tick = FALSE /\ stopped = FALSE
      BY <2>2, JarAssumption DEF Init
    <3> QED
      BY <3>1, <3>2, <3>3, <3>4 DEF TypeOK, Working
  <2>4. Complete = {}
    BY <2>2 DEF Complete, Init, Absent
  <2>5. CountsAddUp /\ EndedFirst
    BY DEF Init, CountsAddUp, EndedFirst, Working
  <2>6. WrittenBehind
    BY <2>4 DEF WrittenBehind
  <2>7. IsFiniteSet(Complete) /\ Cardinality(Complete) = 0
    BY <2>4, FS_EmptySet
  <2>8. FilesMatchCount
    BY <2>7 DEF FilesMatchCount, Complete, Init
  <2> QED
    BY <2>3, <2>5, <2>6, <2>7, <2>8 DEF Inv
<1>2. Inv /\ [Next]_vars => Inv'
  BY TypeStep, CountsStep, BehindStep, FilesStep, EndedStep DEF Inv
<1> QED
  BY <1>1, <1>2, PTL DEF Spec

(***************************************************************************)
(* The totals, the output directory and what the two goroutines share keep *)
(* their types, for archives of any length and clocks of any speed.        *)
(***************************************************************************)
THEOREM TypeCorrect == Spec => []TypeOK
<1>1. Inv => TypeOK
  BY DEF Inv
<1> QED
  BY <1>1, InvHolds, PTL

(***************************************************************************)
(* Every class entry is decompiled or skipped once, however many there are *)
(* and wherever each of them fails.                                        *)
(***************************************************************************)
THEOREM CountsCorrect == Spec => []CountsAddUp
<1>1. Inv => CountsAddUp
  BY DEF Inv
<1> QED
  BY <1>1, InvHolds, PTL

(***************************************************************************)
(* The number of classes reported is the number of complete .java files,   *)
(* for every archive whose entries have paths of their own.                *)
(***************************************************************************)
THEOREM FilesCorrect == Spec => []FilesMatchCount
<1>1. Inv => FilesMatchCount
  BY DEF Inv
<1> QED
  BY <1>1, InvHolds, PTL

(***************************************************************************)
(* Whatever the interleaving of the goroutines, the watchdog prints        *)
(* nothing once the totals are out.                                        *)
(***************************************************************************)
THEOREM SummaryIsLast == Spec => NoWarningAfterSummary
<1>1. Inv /\ [Next]_vars => [stage = "returned" => UNCHANGED <<watch, warned>>]_vars
  BY DEF Inv, EndedFirst, Next, OpenJar, NextEntry, ReadEntry, ParseEntry,
         DecompileEntry, Prepare, Skip, Announce, CreateFile, WriteFile, CloseStop,
         Summarize, Time, OnTick, Warn, OnStop, vars, main, guard, naming
<1> QED
  BY <1>1, InvHolds, PTL DEF Spec, NoWarningAfterSummary
=============================================================================
