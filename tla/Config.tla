------------------------------- MODULE Config -------------------------------
(***************************************************************************)
(* The start of the program: hpsdr_config_init opens the file that main    *)
(* names, or creates the default one, and reads it key by key.  The        *)
(* process may be killed at any moment and is started again; while it does *)
(* not read them the user may write either file.                           *)
(***************************************************************************)
EXTENDS Integers

CONSTANTS
    Conf, Cfg,      \* hpsdr_p1_rpitx.conf, main's file; hpsdr_p1_rpitx.cfg
    NoFile,         \* a file that is not there
    Missing, Bad,   \* a key that is not in the file; a value not understood
    MaxBands,       \* MAXBANDS (30)
    DefaultBands,   \* bands in default_cfg (16)
    UserContents    \* what users write into files

\* What is read, in this order: debug, iqburst, emulation, enabled, delay,
\* type, the number of bands, then band after band.  A number stands for any
\* value that is understood; only that of bands matters.
Total == 6
Slots == 0 .. Total + MaxBands
Empty == [i \in Slots |-> Missing]

\* default_cfg: every key understood, that many bands and no more.
Default == [i \in Slots |-> CASE i < Total -> 1
                              [] i = Total -> DefaultBands
                              [] i \in Total + 1 .. Total + DefaultBands -> 1
                              [] OTHER -> Missing]

ASSUME ContentAssumption ==
    /\ MaxBands \in Nat \ {0} /\ DefaultBands \in 0 .. MaxBands
    /\ Missing \notin Int /\ Bad \notin Int
    /\ \A c \in UserContents :
           /\ DOMAIN c = Slots
           /\ \A i \in Slots : c[i] \in Int \/ c[i] \in {Missing, Bad}
ASSUME FileAssumption ==
    Conf # Cfg /\ NoFile \notin UserContents \cup {Default, Empty}

VARIABLES
    files,      \* what Conf and Cfg hold
    pc,         \* where the program is
    filename,   \* the file main names: Conf, or another after -config
    created,    \* has this start created the default?
    data,       \* the contents that were read from the file
    step,       \* slots taken from them so far
    config      \* config.global, config.filters, config.bands

vars == <<files, pc, filename, created, data, step, config>>
readVars == <<data, step, config>>

Init ==
    /\ files \in [{Conf, Cfg} -> {NoFile} \cup UserContents]
    /\ pc = "off" /\ filename = Conf /\ created = FALSE
    /\ data = Empty /\ step = 0 /\ config = Empty

-----------------------------------------------------------------------------
(* The opening of the file.                                                *)

Start ==
    /\ pc \in {"off", "failed"}
    /\ filename' \in {Conf, Cfg}
    /\ pc' = "open" /\ created' = FALSE
    /\ data' = Empty /\ step' = 0 /\ config' = Empty
    /\ UNCHANGED files

Open ==
    /\ pc = "open" /\ files[filename] # NoFile
    /\ data' = files[filename]
    /\ pc' = "read"
    /\ UNCHANGED <<files, filename, created, step, config>>

\* fopen with "w+": what Cfg held is lost.
Create ==
    /\ pc = "open" /\ files[filename] = NoFile
    /\ files' = [files EXCEPT ![Cfg] = Empty]
    /\ created' = TRUE
    /\ pc' = "write"
    /\ UNCHANGED <<filename, readVars>>

\* Cfg cannot be written: fprintf gets NULL and SIGSEGV ends the program.
CreateFails ==
    /\ pc = "open" /\ files[filename] = NoFile
    /\ pc' = "failed"
    /\ UNCHANGED <<files, filename, created, readVars>>

\* default_cfg is shorter than a stdio buffer: fclose writes it at once.
Write ==
    /\ pc = "write"
    /\ files' = [files EXCEPT ![Cfg] = Default]
    /\ pc' = "reopen"
    /\ UNCHANGED <<filename, created, readVars>>

\* Mutant of Created: the file main named is opened again.
Created_Named == files[filename]
Created == files[Cfg]

Reopen ==
    /\ pc = "reopen"
    /\ data' = Created
    /\ pc' = "read"
    /\ UNCHANGED <<files, filename, created, step, config>>

-----------------------------------------------------------------------------
(* The reading of the keys: GET_BOOL, GET_INT, get_device, get_filter_type.*)

\* Mutant of TooMany: a limit one too low.
TooMany_AtLimit(v) == v >= MaxBands
TooMany(v) == v > MaxBands

\* Slots to read; a negative number of bands is none.
\* Mutant of End: the last band is left out.
End_Short == IF step <= Total THEN Total + 1 ELSE Total + config[Total]
End == IF step <= Total THEN Total + 1
       ELSE Total + 1 + (IF config[Total] > 0 THEN config[Total] ELSE 0)

\* A missing key ends the program in trim(NULL), a bad value by return 1.
Accepted(v) == v \in Int /\ (step = Total => ~TooMany(v))

Take ==
    /\ pc = "read" /\ step < End /\ Accepted(data[step])
    /\ config' = [config EXCEPT ![step] = data[step]]
    /\ step' = step + 1
    /\ UNCHANGED <<files, pc, filename, created, data>>

Refuse ==
    /\ pc = "read" /\ step < End /\ ~Accepted(data[step])
    /\ pc' = "failed"
    /\ UNCHANGED <<files, filename, created, readVars>>

Finish ==
    /\ pc = "read" /\ step = End
    /\ pc' = "run"
    /\ UNCHANGED <<files, filename, created, readVars>>

-----------------------------------------------------------------------------
(* The rest of the world.                                                  *)

Kill ==
    /\ pc \notin {"off", "failed"}
    /\ pc' = "off"
    /\ UNCHANGED <<files, filename, created, readVars>>

Edit ==
    /\ pc \in {"off", "failed", "run"}
    /\ \E f \in {Conf, Cfg}, c \in {NoFile} \cup UserContents :
           files' = [files EXCEPT ![f] = c]
    /\ UNCHANGED <<pc, filename, created, readVars>>

Next ==
    \/ Start \/ Open \/ Create \/ CreateFails \/ Write \/ Reopen
    \/ Take \/ Refuse \/ Finish
    \/ Kill \/ Edit

Spec == Init /\ [][Next]_vars

-----------------------------------------------------------------------------
File == UserContents \cup {NoFile, Empty, Default}

TypeOK ==
    /\ files \in [{Conf, Cfg} -> File]
    /\ pc \in {"off", "failed", "open", "write", "reopen", "read", "run"}
    /\ filename \in {Conf, Cfg} /\ created \in BOOLEAN
    /\ data \in File \ {NoFile}
    /\ step \in 0 .. Total + 1 + MaxBands
    /\ DOMAIN config = Slots

\* What a file must hold for the program to run with it.
Valid(c) ==
    /\ \A i \in 0 .. Total : c[i] \in Int
    /\ c[Total] <= MaxBands
    /\ \A i \in Total + 1 .. Total + c[Total] : c[i] \in Int

\* The program runs only with a configuration that is all of one valid file:
\* nothing of an earlier start, nothing left unset, no band missing and none
\* beyond config.bands.  A start that had to create the file runs with the whole
\* default, whatever either file held and wherever earlier starts were killed.
RunsWithWholeFile ==
    pc = "run" =>
        /\ created => data = Default
        /\ Valid(data)
        /\ \A i \in (0 .. Total) \cup (0 .. Total + data[Total]) :
               config[i] = data[i]

(***************************************************************************)
(* The inductive invariant behind it: where the data come from, and what   *)
(* has been taken from them.                                               *)
(***************************************************************************)
\* A start creates the default before it reads anything, and reads it then.
Origin ==
    /\ pc = "open" => ~created
    /\ pc \in {"write", "reopen"} => created
    /\ pc = "reopen" => files[Cfg] = Default
    /\ pc \in {"read", "run"} /\ created => data = Default

\* The slots that were taken hold what the file says, every one accepted.
Taking ==
    /\ pc \in {"open", "write", "reopen"} => step = 0 /\ config = Empty
    /\ pc \in {"read", "run"} =>
          /\ \A i \in 0 .. step - 1 : config[i] = data[i] /\ data[i] \in Int
          /\ step > Total => data[Total] <= MaxBands
          /\ step <= End
    /\ pc = "run" => step = End

ConfigInv == TypeOK /\ Origin /\ Taking

\* A valid file is never refused.
ValidAccepted == [][pc = "read" /\ pc' = "failed" => ~Valid(data)]_vars
=============================================================================
