---------------------------- MODULE ConfigProofs ----------------------------
(***************************************************************************)
(* Proofs about Config for every number of bands and everything a user may *)
(* write: the program never runs with a part of a file or with a mixture   *)
(* of two, and it refuses no file that is valid.                           *)
(***************************************************************************)
EXTENDS Config, TLAPS

-----------------------------------------------------------------------------
(* Files.                                                                  *)

\* The numbers of slots are numbers.
LEMMA BandTypes == /\ Total = 6 /\ MaxBands \in Nat \ {0} /\ DefaultBands \in 0 .. MaxBands
                   /\ Slots = 0 .. 6 + MaxBands
  BY ContentAssumption DEF Total, Slots

\* A file without keys, and the default, are files with all slots.
LEMMA OwnFiles ==
  /\ Empty \in File \ {NoFile} /\ DOMAIN Empty = Slots
  /\ Default \in File \ {NoFile} /\ DOMAIN Default = Slots
<1>1. Empty # NoFile /\ Default # NoFile
  BY FileAssumption
<1>2. Empty \in File /\ Default \in File
  BY DEF File
<1> QED
  BY <1>1, <1>2 DEF Empty, Default

\* A configuration with at most MaxBands bands is read to an end that is there.
LEMMA EndBound ==
  ASSUME TypeOK, Taking, pc = "read"
  PROVE  /\ End \in 0 .. Total + 1 + MaxBands
         /\ step > Total => /\ config[Total] = data[Total] /\ data[Total] \in Int
                            /\ data[Total] <= MaxBands
<1>1. step \in Nat
  BY BandTypes DEF TypeOK
<1>2. CASE step <= Total
  BY <1>1, <1>2, BandTypes DEF End
<1>3. CASE step > Total
  <2>1. config[Total] = data[Total] /\ data[Total] \in Int /\ data[Total] <= MaxBands
    <3>1. Total \in 0 .. step - 1
      BY <1>1, <1>3, BandTypes
    <3> QED
      BY <1>3, <3>1 DEF Taking
  <2>2. End = Total + 1 + (IF data[Total] > 0 THEN data[Total] ELSE 0)
    BY <1>1, <1>3, <2>1, BandTypes DEF End
  <2> QED
    BY <1>3, <2>1, <2>2, BandTypes
<1> QED
  BY <1>1, <1>2, <1>3, BandTypes

-----------------------------------------------------------------------------
(* The invariant.                                                          *)

\* The machine starts with the program off.
LEMMA InitInv == Init => ConfigInv
<1> SUFFICES ASSUME Init PROVE ConfigInv
  OBVIOUS
<1>1. TypeOK
  <2>1. files \in [{Conf, Cfg} -> File]
    BY DEF Init, File
  <2>2. /\ pc \in {"off", "failed", "open", "write", "reopen", "read", "run"}
        /\ filename \in {Conf, Cfg} /\ created \in BOOLEAN
    BY DEF Init
  <2>3. /\ data \in File \ {NoFile} /\ DOMAIN config = Slots
        /\ step \in 0 .. Total + 1 + MaxBands
    BY OwnFiles, BandTypes DEF Init
  <2> QED
    BY <2>1, <2>2, <2>3 DEF TypeOK
<1>2. Origin /\ Taking
  BY DEF Init, Origin, Taking
<1> QED
  BY <1>1, <1>2 DEF ConfigInv

\* No step disturbs the types.
LEMMA TypeStep == ASSUME ConfigInv, [Next]_vars PROVE TypeOK'
<1> USE BandTypes, FileAssumption DEF TypeOK, readVars
<1>0. TypeOK /\ Origin /\ Taking
  BY DEF ConfigInv
<1>1. CASE Start
  <2>1. files' \in [{Conf, Cfg} -> File]
    BY <1>0, <1>1 DEF Start
  <2>2. /\ pc' \in {"off", "failed", "open", "write", "reopen", "read", "run"}
        /\ filename' \in {Conf, Cfg} /\ created' \in BOOLEAN
    BY <1>1 DEF Start
  <2>3. data' \in File \ {NoFile} /\ DOMAIN config' = Slots
    BY <1>1, OwnFiles DEF Start
  <2>4. step' \in 0 .. Total + 1 + MaxBands
    BY <1>1 DEF Start
  <2> QED
    BY <2>1, <2>2, <2>3, <2>4
<1>2. CASE Open
  BY <1>0, <1>2 DEF Open
<1>3. CASE Create
  BY <1>0, <1>3 DEF Create, File
<1>4. CASE CreateFails
  BY <1>0, <1>4 DEF CreateFails
<1>5. CASE Write
  BY <1>0, <1>5 DEF Write, File
<1>6. CASE Reopen
  <2>1. data' = Default
    BY <1>0, <1>6 DEF Reopen, Created, Origin
  <2> QED
    BY <1>0, <1>6, <2>1 DEF Reopen, File
<1>7. CASE Take
  <2>1. End \in 0 .. Total + 1 + MaxBands /\ step \in Nat /\ step < End
    BY <1>0, <1>7, EndBound DEF Take
  <2>2. step' = step + 1 /\ step' \in 0 .. Total + 1 + MaxBands
    BY <1>7, <2>1 DEF Take
  <2>3. DOMAIN config' = Slots
    BY <1>0, <1>7 DEF Take
  <2> QED
    BY <1>0, <1>7, <2>2, <2>3 DEF Take
<1>8. CASE Refuse \/ Finish \/ Kill
  BY <1>0, <1>8 DEF Refuse, Finish, Kill
<1>9. CASE Edit
  BY <1>0, <1>9 DEF Edit, File
<1>10. CASE UNCHANGED vars
  BY <1>0, <1>10 DEF vars
<1> QED
  BY <1>1, <1>2, <1>3, <1>4, <1>5, <1>6, <1>7, <1>8, <1>9, <1>10 DEF Next

\* No step disturbs where the data come from: nobody writes the file between
\* its creation and its reading but the program.
LEMMA OriginStep == ASSUME ConfigInv, [Next]_vars PROVE Origin'
<1> USE DEF Origin, readVars
<1>0. TypeOK /\ Origin
  BY DEF ConfigInv
<1>1. CASE Start \/ Open \/ Create \/ CreateFails
  BY <1>0, <1>1 DEF Start, Open, Create, CreateFails
<1>2. CASE Write
  BY <1>0, <1>2 DEF Write, TypeOK
<1>3. CASE Reopen
  BY <1>0, <1>3 DEF Reopen, Created
<1>4. CASE Take \/ Refuse \/ Finish \/ Kill \/ Edit
  BY <1>0, <1>4 DEF Take, Refuse, Finish, Kill, Edit
<1>5. CASE UNCHANGED vars
  BY <1>0, <1>5 DEF vars
<1> QED
  BY <1>1, <1>2, <1>3, <1>4, <1>5 DEF Next

\* No step disturbs what has been taken.
LEMMA TakingStep == ASSUME ConfigInv, [Next]_vars PROVE Taking'
<1> USE DEF readVars
<1>0. TypeOK /\ Origin /\ Taking /\ step \in Nat
  BY BandTypes DEF ConfigInv, TypeOK
<1>1. CASE Start \/ Create \/ CreateFails \/ Write
  BY <1>0, <1>1 DEF Start, Create, CreateFails, Write, Taking
<1>2. CASE Open \/ Reopen
  <2>1. pc' = "read" /\ step' = 0 /\ config' = Empty
    BY <1>0, <1>2 DEF Open, Reopen, Taking
  <2>2. End' = Total + 1
    BY <2>1, BandTypes DEF End
  <2> QED
    BY <2>1, <2>2, BandTypes DEF Taking
<1>3. CASE Take
  <2>1. /\ pc = "read" /\ pc' = "read" /\ data' = data /\ step' = step + 1
        /\ config' = [config EXCEPT ![step] = data[step]]
        /\ step < End /\ data[step] \in Int
        /\ step = Total => data[step] <= MaxBands
    BY <1>3, <1>0, BandTypes, ContentAssumption DEF Take, Accepted, TooMany
  <2>2. step \in Slots
    BY <1>0, <2>1, EndBound, BandTypes
  <2>3. \A i \in 0 .. step' - 1 : config'[i] = data'[i] /\ data'[i] \in Int
    <3> SUFFICES ASSUME NEW i \in 0 .. step' - 1
                 PROVE  config'[i] = data[i] /\ data[i] \in Int
      BY <2>1
    <3>1. i \in 0 .. step - 1 \/ i = step
      BY <1>0, <2>1
    <3>2. i \in Slots
      BY <1>0, <2>2, <3>1, BandTypes
    <3> QED
      BY <1>0, <2>1, <2>2, <3>1, <3>2 DEF TypeOK, Taking
  <2>4. step' > Total => data'[Total] <= MaxBands
    BY <1>0, <2>1, EndBound, BandTypes
  <2>5. step' <= End'
    <3>1. CASE step < Total
      <4>1. End' = Total + 1
        BY <1>0, <2>1, <3>1, BandTypes DEF End
      <4> QED
        BY <1>0, <2>1, <3>1, <4>1, BandTypes
    <3>2. CASE step = Total
      <4>1. step' = Total + 1 /\ config'[Total] = data[Total] /\ data[Total] \in Int
        BY <2>1, <2>2, <3>2 DEF TypeOK, ConfigInv
      <4>2. End' = Total + 1 + (IF data[Total] > 0 THEN data[Total] ELSE 0)
        BY <4>1, BandTypes DEF End
      <4> QED
        BY <4>1, <4>2, BandTypes
    <3>3. CASE step > Total
      <4>1. config'[Total] = config[Total]
        BY <1>0, <2>1, <3>3, BandTypes DEF TypeOK
      <4>2. config[Total] \in Int
        BY <1>0, <2>1, <3>3, EndBound
      <4>3. End' = End
        BY <1>0, <2>1, <3>3, <4>1, BandTypes DEF End
      <4> QED
        BY <1>0, <2>1, <4>3, EndBound, BandTypes
    <3> QED
      BY <1>0, <3>1, <3>2, <3>3, BandTypes
  <2> QED
    BY <2>1, <2>3, <2>4, <2>5 DEF Taking
<1>4. CASE Finish
  BY <1>0, <1>4 DEF Finish, Taking, End
<1>5. CASE Refuse \/ Kill
  BY <1>5 DEF Refuse, Kill, Taking
<1>6. CASE Edit
  BY <1>0, <1>6 DEF Edit, Taking, End
<1>7. CASE UNCHANGED vars
  BY <1>0, <1>7 DEF vars, Taking, End
<1> QED
  BY <1>1, <1>2, <1>3, <1>4, <1>5, <1>6, <1>7 DEF Next

\* The inductive invariant.
THEOREM ConfigInvariance == Spec => []ConfigInv
<1>1. ConfigInv /\ [Next]_vars => ConfigInv'
  BY TypeStep, OriginStep, TakingStep DEF ConfigInv
<1> QED
  BY InitInv, <1>1, PTL DEF Spec

-----------------------------------------------------------------------------
(* What follows from it.                                                   *)

\* Files, counters and the configuration keep their types.
THEOREM ConfigTypeCorrect == Spec => []TypeOK
<1>1. ConfigInv => TypeOK
  BY DEF ConfigInv
<1> QED
  BY ConfigInvariance, <1>1, PTL

\* What has been taken when the end is reached is a whole valid file.
LEMMA TakenIsWhole == ConfigInv => RunsWithWholeFile
<1> SUFFICES ASSUME ConfigInv, pc = "run"
             PROVE  /\ created => data = Default
                    /\ Valid(data)
                    /\ \A i \in (0 .. Total) \cup (0 .. Total + data[Total]) :
                           config[i] = data[i]
  BY DEF RunsWithWholeFile
<1>1. created => data = Default
  BY DEF ConfigInv, Origin
<1>2. /\ step \in Nat /\ step = End
      /\ \A i \in 0 .. step - 1 : config[i] = data[i] /\ data[i] \in Int
      /\ step > Total => data[Total] <= MaxBands
  BY BandTypes DEF ConfigInv, TypeOK, Taking
<1>3. step > Total
  BY <1>2, BandTypes DEF End
<1>4. config[Total] = data[Total] /\ data[Total] \in Int
  BY <1>2, <1>3, BandTypes
<1>5. step = Total + 1 + (IF data[Total] > 0 THEN data[Total] ELSE 0)
  BY <1>2, <1>3, <1>4, BandTypes DEF End
<1>6. (0 .. Total) \cup (0 .. Total + data[Total]) \subseteq 0 .. step - 1
  BY <1>4, <1>5, BandTypes
<1>7. Valid(data)
  <2>1. \A i \in 0 .. Total : data[i] \in Int
    BY <1>2, <1>6
  <2>2. data[Total] <= MaxBands
    BY <1>2, <1>3
  <2>3. \A i \in Total + 1 .. Total + data[Total] : data[i] \in Int
    <3>1. Total + 1 .. Total + data[Total] \subseteq 0 .. Total + data[Total]
      BY <1>4, BandTypes
    <3> QED
      BY <1>2, <1>6, <3>1
  <2> QED
    BY <2>1, <2>2, <2>3 DEF Valid
<1> QED
  BY <1>1, <1>2, <1>6, <1>7

\* The program runs only with all of one valid file, with the whole default once
\* it has created it.
THEOREM AlwaysWholeFile == Spec => []RunsWithWholeFile
  BY ConfigInvariance, TakenIsWhole, PTL

\* What is refused is the value of a slot that a valid file has.
LEMMA RefusedIsInvalid ==
  ASSUME ConfigInv, [Next]_vars, pc = "read", pc' = "failed" PROVE ~Valid(data)
<1>1. Refuse
  BY DEF Next, Start, Open, Create, CreateFails, Write, Reopen, Take, Finish, Kill, Edit,
         vars
<1>2. step \in Nat /\ step < End /\ ~Accepted(data[step])
  BY <1>1, BandTypes DEF Refuse, ConfigInv, TypeOK
<1>3. CASE step <= Total
  <2>1. step \in 0 .. Total
    BY <1>2, <1>3, BandTypes
  <2>2. data[step] \notin Int \/ (step = Total /\ data[Total] > MaxBands)
    BY <1>2 DEF Accepted, TooMany
  <2>3. SUFFICES ASSUME Valid(data) PROVE FALSE
    OBVIOUS
  <2>4. data[step] \in Int /\ data[Total] <= MaxBands /\ data[Total] \in Int
    BY <2>1, <2>3, BandTypes DEF Valid
  <2> QED
    BY <2>2, <2>4, BandTypes
<1>4. CASE step > Total
  <2>1. config[Total] = data[Total] /\ data[Total] \in Int
    BY <1>4, EndBound DEF ConfigInv
  <2>2. step \in Total + 1 .. Total + data[Total]
    BY <1>2, <1>4, <2>1, BandTypes DEF End
  <2>3. data[step] \notin Int
    BY <1>2, <1>4, BandTypes DEF Accepted
  <2> QED
    BY <2>2, <2>3 DEF Valid
<1> QED
  BY <1>2, <1>3, <1>4, BandTypes

\* A valid file is never refused.
THEOREM AlwaysValidAccepted == Spec => ValidAccepted
<1>1. ConfigInv /\ [Next]_vars => [pc = "read" /\ pc' = "failed" => ~Valid(data)]_vars
  BY RefusedIsInvalid
<1> QED
  BY ConfigInvariance, <1>1, PTL DEF Spec, ValidAccepted
=============================================================================
