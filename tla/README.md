# A TLA+ verification project for hpsdr-p1-rpitx

`hpsdr_p1_rpitx` makes a Raspberry Pi look like an HPSDR ("Metis", protocol 1)
radio.  A PC finds it by a discovery packet, starts it, sends it EP2 packets
(settings and transmit samples) and receives EP6 packets (silence, paced like
a real receiver) until it stops it.  The samples are handed to `librpitx`,
which modulates a GPIO pin.

This directory holds TLA+ models of that program, TLC configurations that check
them on small instances, and TLAPS proofs.  `tlc -config X.cfg M` checks a run,
`tlapm M.tla` a proof module (`XmlProofs`, by far the longest, in about ten
minutes); `PROJECT.json` lists the runs, what every
definition models, the hazards and the theorems.

## 1. Inventory

| component | source (under `src/`) | state | operations |
|---|---|---|---|
| network thread | `hpsdr/hpsdr_network.c`, `hpsdr/hpsdr_main.c` | sockets, `addr`, `addr_from`, `udp_retries`, `seqnum`, `last_seqnum`, `enable_thread`, `active_thread` | receive over UDP or TCP, accept, dispatch: EP2, discovery, START, STOP, program, erase, set IP |
| ep6 threads | `hpsdr/hpsdr_ep6.c`, `hpsdr_network_send` | packet buffer, `counter`, `header_offset`, `delay` | build a packet, wait, send, leave, clean up |
| sender | `hpsdr/hpsdr_iq_tx.c` | `tx_init`, `last_freq`, `tx_arg.iqsender`, `tx_block` | set, init, deinit, transmit a burst, clear the ring |
| sample ring | `hpsdr/hpsdr_tx_samples.c` | `tx_arg.iq_buffer`, `tx_iq_ptr`, `burst_cnt` | store 126 samples of a packet |
| settings | `hpsdr/hpsdr_ep2.c`, `hpsdr/hpsdr_functions.c`, `hpsdr/include/hpsdr_ep2.h` | `settings`, gains | decode two frames of a packet, set a register, derive gains |
| configuration | `hpsdr/hpsdr_config.c`, `hpsdr/hpsdr_main.c` | `config`, the files | load, create, look up a band |
| XML library | `mxml/` | edits, cache, token carriers | find, get, append, update, delete, flatten, write |
| GPIO | `filters/c_gpio.c` | registers | setup, output, input (not called by the program) |

How they interact.  `main` reads the configuration, creates the tx thread
(`iqsender_tx`), then calls `hpsdr_network_process` in a loop: the network
thread.  An EP2 packet makes it call `ep2_handler` twice (settings; a transmit
frequency also calls `iqsender_set`) and, if a session runs, `samples_rcv`.
START creates a detached thread `ep6_handler`; STOP and START end the running
one.  A PC may also connect by TCP: it is accepted when nothing has come by UDP
for a while, and packets then come, and the stream goes, through the connection.  That thread calls `iqsender_set` at its start, reads `settings` for every
packet, sends through `hpsdr_network_send`, and at its end resets `seqnum` and
`last_seqnum` and clears the ring.  The tx thread reads the ring and feeds the
sender.  A signal handler, `terminate`, stops the sender and exits.  Everything
is shared through plain C globals: the program has no mutex, no atomic variable
and no join.

What is hard about it, and what makes each part correct:

* **Handshake** (network and ep6 threads).  `enable_thread` and `active_thread`
  are the only synchronisation.  Correct when two threads never stream at once,
  the stream goes to the PC that asked for it, a closed socket is never used,
  waits end, and nothing is left to transmit after a STOP.  Hard: threads that
  are still cleaning up while the next session runs, a TCP client accepted or
  lost under way, blocking sends, failed thread creation, SIGPIPE.
* **Sockets and answers.**  Packets are put together from a byte stream, two
  transports compete for one thread, some answers go to a global address.
  Correct when a packet is one packet, who asks is answered, and who waits gets
  its turn.
* **Sender.**  `tx_init` is tested and set by up to three threads.  Correct when
  the program never loses a running sender, transmits only inside the limits, on
  the frequency asked for, and never feeds a freed sender.
* **Packet builder.**  Sizes a block from settings that another thread writes.
  Correct when the samples fit their block and every wait is a valid time.
* **Ring.**  Writer, reader and erasers without a lock.  Correct when samples
  keep their order, come from the payload, and nothing of a session, or of what
  the memory held before, is played after its end.
* **Settings.**  Values derived from registers of several addresses.  Correct
  when they follow the registers whatever the order of frames.
* **Configuration.**  A start may be killed anywhere and the file is the
  user's.  Correct when the program runs only with all of one valid file.
* **XML library.**  A list of edits that is searched (`mxml_get`) and flattened
  (`mxml_write`) by different algorithms, over a text that is searched through a
  cache.  Correct when all of them tell the same document.

`PROJECT.json` lists each of these hazards at its line.

## 2. Plan

Modules in the order they are written, the most important behaviour first:

1. `StreamService` (abstract) and `Session` (the handshake), `SessionProofs`.
2. `RfSender`, `RfSenderProofs`.
3. `Ep6Frame`, `Ep6FrameProofs`.
4. `SampleRing`; `Radio`, the composition of the handshake with the ring;
   `RadioProofs`, about both.
5. `Server`, the sockets and the answers; `ServerProofs`.
6. `Settings`, `SettingsProofs`.
7. `Config`, `ConfigProofs`.
8. `XmlKeys`, `XmlFind`, `XmlDoc` (abstract), `XmlEdits`, `XmlFlatten`;
   `XmlProofs`.

All of them are written, and every safety property that a passing run checks is
also a theorem.

Components compose as follows.  `Session` implements `StreamService`
(refinement mapping `Served`, `~silent`), and so does the ring as `Radio` uses it
(`active_thread`, "a cell that is played is not silent").  `Radio` extends
`SampleRing` by the handshake of `Session`, reduced to one PC: the flags, the
wait of STOP and START, and the threads that leave.  `Server` has the sockets and
keeps of a session only whether one runs.  `Session` leaves to the other modules
what a step does inside: `Ep6Set` is a call into `RfSender`, `Ep6Loop` and the
sends are `Ep6Frame`, `Store` and `Ep6Clear` are the steps of `SampleRing`, `Ep2Check` stands
for two `Handle` steps of `Settings`.  `Config` ends where the others begin
(`pc = "run"`); its `iqburst` is `Burst` of `SampleRing`.  `XmlFlatten` extends
`XmlEdits`, which implements `XmlDoc` (refinement mapping `Document`); the text
that `Config` reads is a `Source` without edits.

## 3. The modules and the code

**Session.**  One action is a stretch of code with at most one access to a
global that another thread may write at that moment.  `netpc` is the place of
the network thread in `hpsdr_network_process`, `ep6[t]` that of each ep6 thread;
more than one may be alive, since `active_thread` is cleared before the thread
has cleaned up.  `conn` is what the kernel knows of a TCP connection: `pending`
(in the backlog), `open`, `eof` (the PC shut down), `reset` (an error not
reported yet), `broken` (the next send raises SIGPIPE), `closed` (by
`hpsdr_network_deinit`).  `stalled` are connections whose PC does not read, so
that `sendto` blocks.  `silent` abstracts the ring to one bit, `via` is a history
variable.  `Ep2Check` chooses between the shared `seqnum` and the received
number: the race is undefined behaviour, and the compiler may keep the value in a
register.

**RfSender.**  `iqsender_set` is cut at each access to a global; `tuned` are
the senders that librpitx runs, with their frequencies.  `owed` lets
`usleep(50000)` in `iqsender_deinit` outlast a burst that had begun
(`GraceEnough`).  `Signal` takes one thread over for `terminate`.  Two modes:
`Overlap = FALSE`, where at most one thread is inside the functions, and
`Overlap = TRUE`, what the code really allows.

**Ep6Frame.**  The two nested loops over samples and receivers, with `n`
computed once per packet and `settings.receivers` read for every sample.
`SteadyReceivers` says whether a PC sets receivers and rate before START and
leaves them alone during a session (what the PC programs do), or not.  Header
bytes are left out, their rotation is kept.

**SampleRing.**  A sample is its age, the number of samples stored after it, so
that order is a property of one state.  The cell behind the allocation is a cell
of the model, because the code uses it; it is taken to be memory nobody else
uses.  Every ep6 thread has its own place in `iqsender_clear_buffer`
(`cleared[t]`), since several may be in it at once.  `last` and `fresh` are
history: who began its clear last, and how many samples came since.

**Radio.**  The ring together with the reason why it is safe.  `netpc` and
`ep6[t]` are the places of the network thread and of the ep6 threads, as in
`Session`; a packet is stored sample by sample, the ring cleared cell by cell and
played sample by sample, all interleaved.  `sending` changes at any moment, which
stands for `RfSender`.

**Server.**  `up` counts the calls of `hpsdr_network_init` that succeeded; after
one that failed the process goes on without the rest, as `main` does.  A packet
over TCP is `Frame` pieces, each marked with its packet and its place, and
`ReadPieces` takes any number of those that wait, as `recvfrom` may; a datagram is
a code and a length.  `Cases` is the `switch` as a table.  `asker` and `reply` are
history.  What the answers say is left out, but for the device.

**Settings.**  `Fields` is the table of registers (name, byte, first bit,
length) that the `EP2_` macros and the cases of `ep2_handler` make up;
`Composed` are the registers computed from more than one field.  The gains are in
decibels, the drive in 256ths.  The branches for the C25 are left out, since
`device_emulation` is never assigned.

**Config.**  A file is a function from the keys, in the order they are read, to
a number, "not understood" (`Bad`) or "not there" (`Missing`); a band with its
five keys is one slot.  `Kill` may come at every point, `Edit` while the program
does not open or read files.  Reading an empty file gives no key: the buffer that
`getdelim` returns then holds nothing of the file.

**XmlKeys, XmlDoc, XmlEdits, XmlFlatten.**  A path is a sequence of tags, a text
a sequence of tokens; characters and entities are left out, and white space alone is
no text (`Empty`).
`XmlFind` is the search of a text: a cursor that skips to a matching close, the
walk over the children of a parent, and the cache, which is a value that a search
takes and returns.  `WellFormed` says what a text is: tags in pairs, an element in
its parent and in no other, no path twice; it is assumed of the text that was parsed
and required of the one that is written.
`XmlEdits` has one action per call that edits, with the records in the order in
which `edit_new` makes them (`Ascending`: missing parents from the root down); `find_key` is what `mxml_get` and `mxml_exists`
answer.  In `XmlFlatten` one step is one turn of the loop of `flatten_edits`:
`curstate` is the place of the carrier, `state[i]` the state of edit `i`.
`mxml_write` may be called, and may fail, between any two edits.

## 4. The runs

| run | what it shows | instance | states |
|---|---|---|---|
| `session_safety` | one streamer, no use of a closed connection, the stream goes to its starter | 2 PCs, 2 connections, 3 ep6 threads, creation may fail | 123,592 |
| `session_service` | `Session` implements `StreamService`; waits end; a STOP silences | 1 PC, 1 connection, 2 threads | 24,156 |
| `rf_serial` | no sender lost, in range, on the frequency asked for, off at exit, samples flow | 3 senders, 6 frequencies around the limits | 3,712 |
| `rf_lost_sender` | violated with overlap: two senders are created, one is lost | as above | |
| `ep6_steady` | samples fit their block, waits are valid | blocks of 40 bytes, 3 receivers, 2 rates, seconds of 30 | 13,086 |
| `ep6_overrun` | violated when `receivers` changes under way: the block overflows | as above | |
| `radio` | order, payload only, silence once a session's thread has cleared the ring, for ever after the last one, sound only within sessions | 3 ep6 threads, a ring of 2 cells and the one behind, packets of 2 samples, bursts of 1 | 494,060 |
| `ring_overflow` | violated: the pointer reaches the cell behind the ring | bursts of 2, 2 bursts | |
| `server_answers` | packets over TCP are whole; who asks is answered; datagrams and clients get their turn | 2 PCs by UDP, 1 connection, packets of 3 pieces, any failing start | 477,265 |
| `settings_registers` | registers and derived gains follow the frames | 18 address values, 4 bodies and PTT, 2 addresses per behaviour | 5,539 |
| `config_start` | only all of one valid file is run with, the whole default after it was created; no valid file is refused | 3 bands, 6 user files | 9,462 |
| `xml_write` | the list of edits implements the document, what is written is that document, a new handle finds it there through its cache, writing ends | a text of 5 elements, 5 paths and `tag[+]`, `tag[$]`, `tag[#]`, up to 4 records, 3 when written, a cache of 2 places | 170,453 |

Why the bounds are enough.  Three ep6 threads: one streams and two may be in
their tails, which is the first number at which two tails overlap a stream.  Two
PCs and two connections: one is served while the other interferes; all are
interchangeable.  `RetryLimit = 1` has every case of the counter (below, at,
above).  `SeqMod = 1` leaves the sequence numbers out of the runs, whose
properties do not depend on them.  Three senders: each of two callers may lose one
while a third is created.  Block, sample and second sizes are chosen so that
divisions leave remainders, a carry happens and each receiver count gives another
`n`.  The ring runs through several turns, since ages and the pointer are all
that is kept; three ep6 threads are two that clear at once while a third one
streams, and `RadioProofs` does not depend on the sizes.  In `Server` a packet of
three pieces is cut everywhere and the next one may follow before it is read; one
connection is enough, since the server talks to one at a time, and it may be made
again; `MCDatagrams` and `MCMessages` have a packet for every case and for a wrong
length.  In `Settings` a behaviour has frames of at most `MaxSeen = 2`
addresses, in every order and number; the derived values depend on two
addresses.  `Config` has a file for every way to be refused, the full number of
bands and one more.  In `xml_write` the records are enough for an element under
a new parent of `tag[+]`, for a deletion with its total, and for each of both
followed by other edits; the cache is smaller than the depth of the paths, so
that one search pushes out what it has just found itself; the text has a list, an element outside of it and an
element that may get a child.

## 5. Fairness

Only what the Linux scheduler gives: a thread that can run does.  `Session`:
weak fairness of the network thread, of every ep6 thread and of the exit; nothing
is asked of the PCs, which may never send, stop reading for ever or leave.
`WaitEnds` and `StopSilences` therefore except a PC that has stopped reading its
TCP connection: the blocking `sendto` then holds the ep6 thread, and the
network thread waits for it.  `RfSender`: weak fairness of each caller and of
the tx thread.  `Radio`: of the network thread once it has a packet to handle, of
every ep6 thread and of the tx thread; not of the PC.  `Server`: of the network
thread; not of the PCs.  `XmlFlatten`: `mxml_write` goes on (one thread).
`SamplesFlow` and `Quiet` are conditional: they speak of a world in which calls,
or sessions, have ended.  `UdpAnswered` and `ClientAccepted` except what the code
cannot help: a TCP client that holds the server, datagrams that never stop, and
the end of the process.

## 6. Where the code and its statements disagree

The `violation` runs show three: see `findings` in `PROJECT.json`.  More were met
and are not among the runs; each can be reproduced by the change in brackets.

* A failed thread creation is logged as "ERROR: create protocol thread" and ends
  the program (`network.c:345-348`), but `pthread_create` reports failure by a
  positive number and the test is `< 0`: `active_thread` and `enable_thread` stay
  set with no thread, and the next STOP or START waits for ever
  (`session_service` with `SpawnMayFail = TRUE`: `ActiveMeansStreaming`).
* `main` logs the configured device, `hermeslite` in the file that the repository
  ships (`main.c:163`, `hpsdr_p1_rpitx.cfg:6`), but `device_emulation` is never
  assigned and the answer to discovery says 0, a Metis (`network.c:276`;
  `server_answers` with `INVARIANT AnswersAsConfigured`).
* The start code 0x1104feef "has no function any longer, but we shall still
  support it" (`network.c:199`), but the `switch` has no case for it.  "All kinds
  of start and stop packets" should get their UDP length over TCP
  (`network.c:191-192`), but 0x0204feef and 0x0304feef do not, and are dropped
  (`TcpLength`).
* `main` ignores what `hpsdr_network_init` returns (`main.c:200`): when a port is
  taken the program runs on, deaf (`SetupFails`, `RecvTimeout`).
* "Programming Done!" is logged when a block count equals a static counter that
  never goes back (`network.c:357-364`): never again after the first programming.
* `main` installs its handler for all signals from 0 to 63 (`main.c:112-118`);
  those the kernel refuses are not looked at, and `terminate` indexes a table of
  33 names with the number.
* A comment directly behind a tag is an element "!--" to `xml_tokenize`
  (`mxml_flatten.c:201-208`), while `cursor_skip_content` skips it.
* `seqnum` is "sequence number of received packet" (`network.c:62`), but the
  tail of an old ep6 thread may set it to 0 between the receipt and the
  comparison (`session_service` with `INVARIANT SeqnumIsReceived`, `SeqMod = 2`).  The effect is a misleading log line.
* A failed TCP send is logged and survived (`network.c:400-402`), but the socket
  is written without `MSG_NOSIGNAL` and `main.c:112-118` ends the program on
  SIGPIPE (`session_service` with `INVARIANT SendErrorIsSurvived`).
* With overlapping calls a frequency that was not checked may be used, and the
  sender may stay on an old one (`rf_lost_sender` with `TunedInRange` or
  `CommandObeyed`).
* START before any EP2 packet: `receivers` and `rate` are -1, `n` is -126, the
  wait is negative, `clock_nanosleep` refuses it, and packets are sent without
  a pause (`ep6_overrun` with `PaceValid`).
* `rxatt_dbl` "reflects both att and preamp" (`ep2.c:42`), but a frame of
  address 0 sets `rxatt_dbl[1] = 1.0` (`settings_registers` with
  `Rx2GainFollows`).
* `EP2_RX1ATT` shifts five bits by `0x0F`, so that the attenuation of the first
  receiver is always 0; in the 6-bit format 28 is called zero attenuation but
  gives 9 (`ep2.c:257-263`).  Both are modelled as computed.
* `main` looks for `hpsdr_p1_rpitx.conf`; when it is not there
  `hpsdr_p1_rpitx.cfg`, the file that the repository ships, is overwritten with
  the default (`Create`), and a start killed before `fclose` leaves it empty.
* `mxml_append` "appends a new tag to its parent, creating parents as needed"
  (`mxml.h:76`), but an element without parent is found by `mxml_get` and never
  written, since only the parent's CLOSE makes `mxml_write` send it
  (`WrittenIsDocument` without `~TopAppended`).
* Deleting `tag[$]` takes the number from the digits that end the path; with a
  tag such as `band1` the total becomes 10 instead of 0 (`DocSpec` with
  `TagDigit = 1`).
* Out of memory, `mxml_append` leaves a total that counts an element that does
  not exist, or the reverse, which it even reports as success; `mxml_delete` of
  `tag[$]` does likewise (`DocSpec` with `MemoryFails = TRUE`).
* Text of an element that follows a child is not its text for `mxml_get`, which
  stops at the first tag (`mxml.c:50`), so an edited document depends on when it is
  asked: once the child of `<r><a/>5</r>` is deleted, `mxml_get` of `r` is empty, and
  5 after the text was written and read again (`WrittenIsDocument` with a
  `Source` that is not `Unmixed`).  Configuration files have no such text.
* A malformed key makes `mxml_append`, `mxml_update` and `mxml_delete` return 0,
  not -1 as `mxml.h` says.  Nothing is changed, so the model has no such keys.
* A first start that finds its file unreadable and cannot write the default ends
  in a null pointer (`CreateFails`).
* `mxml_mem.c` never advances `ptr_cnt` (the line is commented out): `ptrs[0]`
  is all that it remembers, `_mxml_free` searches no entry, and `mxml_free_all`,
  which ends `hpsdr_config_init` (`config.c:410`), frees the last allocation,
  given back before or not.  Keys and values made by `strndup` and `strdup` are
  also given to `_mxml_free`, which looks for a size in front of them
  (`mxml.c:106-110, 373`).  Read in the source; memory is not modelled.
* An edit keeps its value as given; `mxml_write` encodes it
  (`mxml_write.c:34-47`), but `mxml_get` decodes it like text of the file
  (`mxml.c:137-148`), so a value with `&` or `<` reads back differently before
  and after the file is written.  Read in the source; values are model values.

## 7. What is proved

TLAPS proves, for every value of the constants that the assumptions allow, all
safety properties that the passing runs check.  The
inductive invariants (`IInv`, `SenderInv`, `Inv`, `RadioInv`, `ServerInv`,
`SettingsInv`, `ConfigInv`, `FlattenInv`) can be given to the runs as `INVARIANT`s
and hold there, too; `ParentsMade` and `WriteInv` quantify over all paths and
texts and are only proved.
By module:

* `SessionProofs`: `Init => IInv` and `IInv /\ [Next]_vars => IInv'`, hence all
  safety properties of `session_safety`, and `QuietWhenStopped`: no samples
  survive a STOP, with PCs and connections that `Radio` does not have.
  `OneStreamer` alone is not inductive: that `START` may create a thread rests on `active_thread = 0` implying that
  nobody streams, and an ep6 thread may clear the flag only because no other one
  streams (`Flags`).  `Destinations` and `ClientUsable` say what a thread may
  rely on where it does not look at the shared variable again.  With
  `~SpawnMayFail`, `active_thread` means what discovery reports, and every step
  of `Session` is a step of `StreamService` or a stutter.
* `RfSenderProofs`: types are kept however the calls overlap.  For `~Overlap`: `SenderInv`, which says what a call may rely
  on at each of its steps (`SenderState`, `Tuning`) and that only one call is
  under way (`Exclusive`); from it no sender is lost, the limits, the frequency,
  off at exit and, for `GraceEnough`, no use of a freed sender.
* `Ep6FrameProofs`, for `SteadyReceivers`: `Layout` gives the pointer in closed
  form, `j * Size + k * IQBytes`; with `n * Size <= BlockBytes` (`SamplesFit`)
  the block holds its samples.  The wait is less than a second (`WaitBound`), so
  that one turn of the carry loop is enough and every time is valid.  Types are
  kept without that hypothesis, whenever the settings change, also with the
  negative size that receivers never set give.
* `RadioProofs`.  Of the ring alone: `StreamOrder` is inductive by itself;
  `InPayload` needs the closed form of the place in the packet (`Place`).  `NothingOlder` says of every
  moment of a clear what it has achieved: behind the latest clear all samples are
  younger than it, which no older clear and no writer can undo.  `TxReadsInRing`
  bounds the reader.
  Of `Radio`, for every ring and any number of threads: every behaviour of
  it is one of `SampleRing` (`RadioUsesRing`), so the ring's theorems hold in it.
  `Handshake` says what the flags mean (a thread that streams implies
  `active_thread`, and there is one at most; the network thread stores only
  under both flags), hence that nothing is stored while no session runs
  (`NothingFresh`); with `NothingOlder` the ring is silent then
  (`SilentWhenStopped`).  Every step is a step of `StreamService` or a stutter.
* `ServerProofs`: what is in a connection and what was taken from it are the
  pieces, in closed form (`Sent`), of two packets at most (`InOrder`), and as
  long as the client may send, of packets that are complete (`Uncut`).
  `FrameAligned` alone is not inductive, because it says nothing of the pieces
  that still wait.  For `ReplyToAsker` the case is an answer to program, erase or
  set-ip, which goes to `addr_from` whatever the request came by: a packet over
  TCP has the length of its code (`Asked`), which is never theirs
  (`MaintenanceByUdp`).
* `SettingsProofs`, for every set of frames: no register belongs to two
  addresses (`Owner`) or occurs twice in one, so a frame sets what it names and
  keeps the rest; then the derived gains follow whatever the order of frames.
  Nothing is assumed of the bytes but that they are bytes.
* `ConfigProofs`, for every set of keys, bands and files, with kills and edits
  anywhere: nobody writes the file between its creation and its second opening,
  so a start that created the default reads the default (`Origin`); what was
  taken is a prefix of the keys, each as the file has it (`Taking`).  From these
  `RunsWithWholeFile` and `ValidAccepted`.
* `XmlProofs`, for every text, key and number of edits: `XmlEdits` implements
  `XmlDoc`.  The invariant is `ParentsMade`: nothing exists only because
  something below it was appended, it is in the text or
  has a record of its own, so that the last case of `find_key` never adds an
  element.  A lookup in the list with new records in
  front is either decided by them (`FindNewer`) or the old lookup (`FindOlder`);
  each call is then compared with what it does to a document.  The hypotheses
  are `~MemoryFails` and `TagDigit = 0`, without which it is false (section 6),
  and `TagsApart`: no element of a list is called `total`, which holds because
  its name ends with a number.  `TagsApart` is a hypothesis and not an `ASSUME`
  since it speaks of all numbers, which TLC cannot enumerate.
  `FlattenTypeCorrect` needs neither memory nor tags without digits: wherever
  the carrier is, and whatever failed before, what it carries, what an append
  holds back and what was written are tokens of the text or of an edit
  (`FlattenInv`); what is held back is the CLOSE of the parent, which is why it is
  the right token to send after the new element.

  `WrittenCorrect` and `FoundCorrect` are about the text that `mxml_write` leaves:
  it is well formed, it is the document that `mxml_get` shows, and a search of it
  through the cache finds that document whatever was looked up before.  They hold
  also after edits that failed halfway, and for tags that end with a digit: what
  goes wrong then goes wrong for both alike.  The argument has four steps.
  1. *Edits make texts.*  `Laid` describes a text by the places of its tags,
     `Sends` what an edit sends for one token (a delete nothing below its path, an update
     another text, an append a new element in front of a CLOSE), `Emitted` what it has
     sent after so many.  If the edit was possible (its
     parent was there and it was not, for an append), then what it makes of a well
     formed text is one of the changed document (`EmittedGood`).
  2. *Every list consists of possible edits* (`Steps`), since each call asks
     `find_key` first and records parents before children (`ChangeSteps`).
  3. *The carrier brings every token through all of them.*  One carrier, moved back
     and forth, stands for a pipeline: at every moment what edit `i` has sent, with
     what it still holds or carries, is what it makes of what the older edits
     have sent (`Streams` in `WriteInv`).  When EOF has passed, every stream is
     whole, so the text written is `Finished`, and by induction over
     the list it is the document's (`FinishedGood`).
  4. *A well formed text is searched right*: the matching close is the first one
     at depth 0, a parent's children are those at depth 0 between its tags, and a
     place of the cache holds the span of its own key or nothing.

  The hypotheses are `TagsApart`, and `Unmixed(Source)`: no text of an element behind
  a child of it, without which `WrittenIsDocument` is false (section 6).

The assumptions are the `ASSUME`s of the modules, which TLC evaluates for every
run: sizes that are positive, the shape of the tables, in XML that the text is
well formed and that the markers (`NoToken`, `EOF`, `None`) are none of its tokens,
texts or spans.  Where a theorem has a hypothesis of its own (`~Overlap`,
`SteadyReceivers`, `~SpawnMayFail`, `~MemoryFails`, `TagDigit = 0`,
`Unmixed(Source)`), the runs that are violated, or section 6, show what happens
without it.

Only model-checked: everything temporal beyond safety (`WaitEnds`,
`StopSilences`, `SamplesFlow`, `Quiet`, `UdpAnswered`, `ClientAccepted`,
`WriteEnds`), since liveness under fairness and `ENABLED` are beyond the prover.
Induction over data, which the library's theorems do not give here, is
replaced throughout by an argument about the least number for which a claim fails
(`NatMin`), and recursive functions are unfolded one step at a time.

## 8. Not modelled

* The characters, entities, memory, comments and malformed keys of the XML library, texts with two
  elements of the same path, what the answers to program, erase and set-ip say,
  debug output, GPIO code that nothing calls, the device constants, makefiles and
  scripts, librpitx itself.
* Receive errors of UDP other than a timeout or a missing socket, empty datagrams, a client that closes before it is
  accepted, and signals from outside in `Session` (they are in `RfSender`).
* The conversion of samples to floating point, `burst_cnt`, which nothing reads,
  and the contents of the EP6 headers.
* `hpsdr_config_get_band`, which changes no state.
