------------------------------ MODULE RfSender ------------------------------
(***************************************************************************)
(* The life of the librpitx sender (hpsdr_iq_tx.c).  The network thread    *)
(* (ep2_txfreq) and each new ep6 thread call iqsender_set, the signal      *)
(* handler terminate calls iqsender_deinit, and the thread iqsender_tx     *)
(* hands bursts of samples to whatever sender there is.  None of them      *)
(* takes a lock.  Session says when an ep6 thread is created and which     *)
(* thread a SIGPIPE interrupts; here any thread may be interrupted.        *)
(***************************************************************************)
EXTENDS Integers, FiniteSets

CONSTANTS
    Handles,        \* senders librpitx can create
    None,           \* the NULL sender
    Freqs,          \* frequencies a PC may ask for, with the initial -1
    Lowest, Highest,\* 1000000 and 500000000 in C
    Overlap,        \* may two threads be inside iqsender_* at once?
    GraceEnough     \* do 50 ms last longer than a burst that has begun?

ASSUME FreqAssumption == /\ Freqs \subseteq Int /\ -1 \in Freqs
                         /\ Lowest \in Nat /\ Lowest >= 1000 /\ Highest \in Nat
ASSUME HandleAssumption == None \notin Handles
ASSUME FlagAssumption == Overlap \in BOOLEAN /\ GraceEnough \in BOOLEAN

Callers == {"net", "ep6", "sig"}
Set == {"net", "ep6"}               \* those that call iqsender_set
Victims == {"net", "ep6", "tx"}     \* threads a signal may interrupt

VARIABLES
    pc,             \* where each caller is in iqsender_set / iqsender_deinit
    tx_freq,        \* settings.tx_freq
    tx_init,
    iqsender,       \* tx_arg.iqsender
    last_freq,
    arg,            \* the caller's argument TuneFrequency
    tuned,          \* librpitx: the running senders and their frequencies
    burst,          \* the sender the tx thread is feeding, or None
    owed,           \* callers asleep since before that burst ended
    interrupted,    \* threads a signal handler has taken over
    gone            \* has the process ended?

globals == <<tx_freq, tx_init, iqsender, last_freq>>
feed    == <<burst, owed>>
vars == <<pc, globals, arg, tuned, feed, interrupted, gone>>

Live == DOMAIN tuned
InRange(f) == Lowest <= f /\ f <= Highest
Pcs == {"idle", "test", "range", "compare", "rechange", "deinit", "sleep",
        "arg", "init", "mark", "last", "exit"}

Init ==
    /\ pc = [k \in Callers |-> "idle"]
    /\ tx_freq = -1 /\ tx_init = FALSE /\ iqsender = None /\ last_freq = 0
    /\ arg = [k \in Set |-> 0]
    /\ tuned = [h \in {} |-> 0]
    /\ burst = None /\ owed = {}
    /\ interrupted = {}
    /\ gone = FALSE

Runs(k) == ~gone /\ k \notin interrupted
At(k, from, to) == Runs(k) /\ pc[k] = from /\ pc' = [pc EXCEPT ![k] = to]
Alone(k) == Overlap \/ \A j \in Callers \ {k} : pc[j] = "idle"

-----------------------------------------------------------------------------
(* iqsender_set                                                            *)

\* Mutant of Requested: the value is taken for a number of kHz.
Requested_kHz(f) == f * 1000
Requested(f) == f

\* ep2_txfreq: *reg = val; iqsender_set().
Ep2TxFreq(f) ==
    /\ Alone("net")
    /\ At("net", "idle", "test")
    /\ tx_freq' = Requested(f)
    /\ UNCHANGED <<tx_init, iqsender, last_freq, arg, tuned, feed, interrupted, gone>>

\* ep6_handler calls iqsender_set once when it starts.
Ep6Start ==
    /\ Alone("ep6")
    /\ At("ep6", "idle", "test")
    /\ UNCHANGED <<globals, arg, tuned, feed, interrupted, gone>>

TestInit(k) ==
    /\ At(k, "test", IF tx_init THEN "compare" ELSE "range")
    /\ UNCHANGED <<globals, arg, tuned, feed, interrupted, gone>>

\* Mutant of Changed: an unset last_freq counts as no change.
Changed_NotFromZero == tx_freq # last_freq /\ last_freq < tx_freq
Changed == tx_freq # last_freq

Compare(k) ==
    /\ At(k, "compare", IF Changed THEN "rechange" ELSE "idle")
    /\ UNCHANGED <<globals, arg, tuned, feed, interrupted, gone>>

\* Mutant of Accepted: the upper limit is forgotten.
Accepted_NoUpperLimit(f) == f >= Lowest
Accepted(f) == InRange(f)

Range(k) ==
    /\ \/ At(k, "range", IF Accepted(tx_freq) THEN "arg" ELSE "idle")
       \/ At(k, "rechange", IF Accepted(tx_freq) THEN "deinit" ELSE "idle")
    /\ UNCHANGED <<globals, arg, tuned, feed, interrupted, gone>>

\* iqsender_init(settings.tx_freq) reads the frequency again; its guard.
Arg(k) ==
    /\ At(k, "arg", IF tx_freq >= 0 /\ tx_freq < 1000 THEN "last" ELSE "init")
    /\ arg' = [arg EXCEPT ![k] = tx_freq]
    /\ UNCHANGED <<globals, tuned, feed, interrupted, gone>>

\* iqdmasync_init stores a new sender, which transmits from now on.
InitSender(k) ==
    /\ At(k, "init", "mark")
    /\ \E h \in Handles \ (Live \cup {burst}) :
         /\ iqsender' = h
         /\ tuned' = [g \in Live \cup {h} |-> IF g = h THEN arg[k] ELSE tuned[g]]
    /\ UNCHANGED <<tx_freq, tx_init, last_freq, arg, feed, interrupted, gone>>

\* Mutant of Marked: the tx thread is not told of the new sender.
Marked_Forgotten == tx_init
Marked == TRUE

Mark(k) ==
    /\ At(k, "mark", "last")
    /\ tx_init' = Marked
    /\ UNCHANGED <<tx_freq, iqsender, last_freq, arg, tuned, feed, interrupted, gone>>

Last(k) ==
    /\ At(k, "last", "idle")
    /\ last_freq' = tx_freq
    /\ UNCHANGED <<tx_freq, tx_init, iqsender, arg, tuned, feed, interrupted, gone>>

-----------------------------------------------------------------------------
(* iqsender_deinit, called by iqsender_set and by terminate                *)

After(k) == IF k = "sig" THEN "exit" ELSE "arg"

\* Mutant of Stopped: the tx thread is not told to stop before the sleep.
Stopped_Late == tx_init
Stopped == FALSE

Deinit(k) ==
    /\ At(k, "deinit", IF iqsender = None THEN After(k) ELSE "sleep")
    /\ IF iqsender = None
         THEN UNCHANGED <<tx_init, owed>>
         ELSE /\ tx_init' = Stopped
              /\ owed' = IF burst = None THEN owed ELSE owed \cup {k}
    /\ UNCHANGED <<tx_freq, iqsender, last_freq, arg, tuned, burst, interrupted, gone>>

\* Mutant of Freed: the old sender is left running.
Freed_Kept == tuned
Freed == [h \in Live \ {iqsender} |-> tuned[h]]

\* iqdmasync_deinit after the sleep; librpitx may or may not clear the pointer.
Free(k) ==
    /\ GraceEnough => k \notin owed \/ "tx" \in interrupted
    /\ At(k, "sleep", After(k))
    /\ tuned' = Freed
    /\ iqsender' \in {iqsender, None}
    /\ owed' = owed \ {k}
    /\ UNCHANGED <<tx_freq, tx_init, last_freq, arg, burst, interrupted, gone>>

-----------------------------------------------------------------------------
(* iqsender_tx                                                             *)

Feedable == iqsender # None /\ tx_init

BeginBurst ==
    /\ Runs("tx") /\ burst = None
    /\ Feedable
    /\ burst' = iqsender
    /\ UNCHANGED <<pc, globals, arg, tuned, owed, interrupted, gone>>

EndBurst ==
    /\ Runs("tx") /\ burst # None
    /\ burst' = None
    /\ owed' = {}
    /\ UNCHANGED <<pc, globals, arg, tuned, interrupted, gone>>

-----------------------------------------------------------------------------
(* terminate                                                               *)

\* A signal arrives while thread v runs, wherever it is, and takes it over.
Signal(v) ==
    /\ At("sig", "idle", "deinit")
    /\ v \in Victims
    /\ Overlap \/ \A j \in Set \ {v} : pc[j] = "idle"
    /\ interrupted' = {v}
    /\ UNCHANGED <<globals, arg, tuned, feed, gone>>

Exit ==
    /\ At("sig", "exit", "exit")
    /\ gone' = TRUE
    /\ UNCHANGED <<globals, arg, tuned, feed, interrupted>>

\* hpsdr_network_process failed: main returns and deinitialises no sender.
MainReturns ==
    /\ At("net", "idle", "idle")
    /\ gone' = TRUE
    /\ UNCHANGED <<globals, arg, tuned, feed, interrupted>>

Call(k) ==
    \/ TestInit(k) \/ Compare(k) \/ Range(k) \/ Arg(k) \/ InitSender(k)
    \/ Mark(k) \/ Last(k)

Next ==
    \/ \E f \in Freqs : Ep2TxFreq(f)
    \/ Ep6Start
    \/ \E k \in Set : Call(k)
    \/ \E k \in Callers : Deinit(k) \/ Free(k)
    \/ BeginBurst \/ EndBurst
    \/ \E v \in Victims : Signal(v)
    \/ Exit \/ MainReturns
    \/ gone /\ UNCHANGED vars

Spec == Init /\ [][Next]_vars

FairSpec ==
    /\ Spec
    /\ \A k \in Set : WF_vars(Call(k))
    /\ \A k \in Callers : WF_vars(Deinit(k) \/ Free(k))
    /\ WF_vars(BeginBurst) /\ WF_vars(EndBurst) /\ WF_vars(Exit)

-----------------------------------------------------------------------------
TypeOK ==
    /\ pc \in [Callers -> Pcs]
    /\ tx_freq \in Freqs /\ last_freq \in Freqs \cup {0}
    /\ tx_init \in BOOLEAN
    /\ iqsender \in Handles \cup {None}
    /\ arg \in [Set -> Freqs \cup {0}]
    /\ Live \subseteq Handles /\ \A h \in Live : tuned[h] \in Freqs \cup {0}
    /\ burst \in Handles \cup {None}
    /\ owed \subseteq Callers
    /\ interrupted \subseteq Victims
    /\ gone \in BOOLEAN

\* No sender is lost: the one that runs is the one tx_arg.iqsender names, so
\* that a later deinit can stop it.
NoSenderLost == Live \subseteq {iqsender}

\* The radio never transmits outside the limits iqsender_set checks, although
\* it reads settings.tx_freq again after the check.
TunedInRange == \A h \in Live : InRange(tuned[h])

\* Whenever no call is under way, the sender runs at the frequency the PC last
\* asked for, if that was one the code accepts.
CommandObeyed ==
    (\A k \in Callers : pc[k] = "idle") /\ InRange(tx_freq) =>
        iqsender \in Live /\ tuned[iqsender] = tx_freq

\* The tx thread never feeds a sender that deinit has freed.
NoUseAfterDeinit ==
    burst # None /\ Runs("tx") => burst \in Live

\* When terminate reaches exit(1), nothing transmits any more.
OffAtExit == pc["sig"] = "exit" => Live = {}

\* Once no more calls come, a frequency in range that was asked for last is
\* transmitted: bursts follow each other as long as the process runs.
SamplesFlow ==
    <>[]((\A k \in Callers : pc[k] = "idle") /\ InRange(tx_freq) /\ ~gone)
        => []<>(burst = None) /\ []<>(burst # None)

(***************************************************************************)
(* The inductive invariant behind the safety properties without overlap:   *)
(* what a call may rely on at each of its steps when it is the only one.   *)
(***************************************************************************)
Active(k) == k \notin interrupted

Exclusive ==
    /\ \A j, k \in Set : pc[j] # "idle" /\ pc[k] # "idle" => j = k
    /\ pc["sig"] = "idle" <=> interrupted = {}
    /\ pc["sig"] # "idle" => \A k \in Set : pc[k] = "idle" \/ ~Active(k)
    /\ \A k \in Set : pc[k] # "exit"
    /\ pc["sig"] \in {"idle", "deinit", "sleep", "exit"}

SenderState ==
    /\ NoSenderLost
    /\ tx_init => iqsender \in Live
    /\ ~tx_init /\ Live # {} => \E k \in Callers : pc[k] \in {"mark", "sleep"}
    /\ pc["sig"] = "sleep" => ~tx_init
    /\ pc["sig"] = "exit" => ~tx_init /\ Live = {}
    /\ \A k \in Set : Active(k) =>
         /\ pc[k] \in {"range", "arg", "init"} => ~tx_init /\ Live = {}
         /\ pc[k] \in {"compare", "rechange", "deinit", "last"} => tx_init
         /\ pc[k] = "sleep" => ~tx_init
         /\ pc[k] = "mark" => ~tx_init /\ iqsender \in Live

Tuning ==
    /\ TunedInRange
    /\ tx_init /\ pc["sig"] = "idle" /\ (\A k \in Set : pc[k] # "last")
         => tuned[iqsender] = last_freq
    /\ \A k \in Set : Active(k) =>
         /\ pc[k] \in {"arg", "deinit", "sleep", "init"} => InRange(tx_freq)
         /\ pc[k] = "init" => arg[k] = tx_freq
         /\ pc[k] \in {"mark", "last"} => tuned[iqsender] = tx_freq
    /\ CommandObeyed

Feeding ==
    GraceEnough =>
        /\ NoUseAfterDeinit
        /\ Runs("tx") /\ burst # None
             => \A k \in Callers : pc[k] = "sleep" /\ Active(k) => k \in owed

SenderInv == TypeOK /\ Exclusive /\ SenderState /\ Tuning /\ Feeding
=============================================================================
