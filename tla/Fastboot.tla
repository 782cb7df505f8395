------------------------------ MODULE Fastboot ------------------------------
(***************************************************************************)
(* The fastboot download/flash pipeline of                                 *)
(* Platforms/QcomModulePkg/Library/FastbootLib (FastbootCmds.c and         *)
(* FastbootMain.c): one USB host, the main loop that polls USB events, the *)
(* two halves of the download buffer, and the flashing of an image in      *)
(* parallel with the next download, which the code does in one of two ways:*)
(*                                                                         *)
(*   MThread = TRUE   a SparseImgFlashThread per image, with the two locks *)
(*                    LockDownload and LockFlash;                          *)
(*   MThread = FALSE  the main loop flashes inline while a periodic timer  *)
(*                    callback polls USB, and answers are put off by       *)
(*                    further timers until IsFlashComplete.  A command     *)
(*                    that cannot be put off runs inside the callback, and *)
(*                    the flash stands still until it returns.             *)
(*                                                                         *)
(* One unit of data is one bulk transfer, one write to the medium and one  *)
(* step of a flash.  A unit holds the image it came from.                  *)
(***************************************************************************)
EXTENDS Integers, Sequences, FiniteSets

CONSTANTS
  MThread,          \* IsUseMThreadParallel ()
  StartAtResume,    \* ThreadResume runs the thread until it holds LockFlash
                    \* (TRUE), or the thread starts at any later time (FALSE)
  Threads,          \* bound: flash threads that can exist at once
  Parts,            \* partitions that exist
  PartSize,         \* their size in units
  Images,           \* images the host may send
  ImageSize,        \* their size in units
  SparseImages,     \* those with the sparse magic
  CritMetaImages,   \* meta images naming a critical partition, which is locked
  MaxDownLoadSize,  \* half of the transfer buffer, in units
  EventsMayFail,    \* CreateEvent, SetTimer and ThreadCreate may fail
  PoolMayFail,      \* AllocateZeroPool of a thread's FlashInfo may fail
  DisciplinedHost,  \* the host flashes only what it has just downloaded
  MaxCmds,          \* bound: commands the host issues
  MaxDrops,         \* bound: times the cable is pulled
  NoPart, NoImage

ASSUME FastbootAssumption ==
  /\ MThread \in BOOLEAN /\ StartAtResume \in BOOLEAN
  /\ {EventsMayFail, PoolMayFail, DisciplinedHost} \subseteq BOOLEAN
  /\ NoPart \notin Parts /\ NoImage \notin Images
  /\ "free" \notin Threads /\ "main" \notin Threads
  /\ PartSize \in [Parts -> Nat \ {0}]
  /\ ImageSize \in [Images -> Nat \ {0}]
  /\ SparseImages \subseteq Images /\ CritMetaImages \subseteq Images \ SparseImages
  /\ MaxDownLoadSize \in Nat \ {0}
  /\ MaxCmds \in Nat /\ MaxDrops \in Nat

VARIABLES
  hostWait,             \* what the host waits for, or "none"
  hostCmd,              \* the last command it sent
  hostSent,             \* units sent in this data phase
  hostImage,            \* the image downloaded and not flashed yet
  ncmds, drops,
  connected, evConnect, \* the cable; its pending Connected event
  rx, rxDone, gRx,      \* the queued receive, its completion, gRxBuffer
  tx, txDone,           \* responses in flight, completed sends
  mState, mNumDataBytes, mBytesReceivedSoFar,
  mUsbDataBuffer, mFlashDataBuffer, mem,
  IsFlashComplete, FlashResult, lockDownload, lockFlash,
  UsbTimer, okayDelay, deferred,
  mpc, cur, job, inCallback,
  outer,                \* the inline flash that a command in a callback interrupts
  overtaken,            \* history: ... because it could not be put off
  thr,                  \* the flash threads
  part,                 \* what the medium holds
  failed                \* history: an acknowledged flash failed, unreported

hostVars == <<hostWait, hostCmd, hostSent, hostImage, ncmds>>
lineVars == <<drops, connected, evConnect>>
rxVars   == <<rx, rxDone, gRx>>
dlVars   == <<mState, mNumDataBytes, mBytesReceivedSoFar>>
bufVars  == <<mUsbDataBuffer, mFlashDataBuffer>>
flagVars == <<IsFlashComplete, FlashResult, failed>>
lockVars == <<lockDownload, lockFlash>>
timerVars == <<UsbTimer, okayDelay, deferred>>
mainVars == <<mpc, cur, job, inCallback, outer, overtaken>>
vars == <<hostVars, lineVars, rxVars, tx, txDone, dlVars, bufVars, mem,
          flagVars, lockVars, timerVars, mainVars, thr, part>>

Junk   == "junk"   \* a unit that is no part of an image
Blank  == "blank"  \* a zeroed or erased unit
Old    == "old"    \* what a partition held before
Units  == Images \cup {Junk, Blank, Old}
Buf    == {1, 2}   \* the two halves of the transfer buffer
RxBuf  == 0        \* gRxBuffer
Receive == [on : BOOLEAN, buf : Buf \cup {RxBuf}, off : Nat]
Responses == {"OKAY", "FAIL", "DATA", "INFO"}
Ops    == {"download", "flash", "erase", "getvar", "getvarall", "reboot",
           "continue", "unknown"}
Cmd    == [op : Ops, part : Parts \cup {NoPart}, img : Images \cup {NoImage},
           n : Nat]
NoCmd  == [op |-> "getvar", part |-> NoPart, img |-> NoImage, n |-> 0]
Unknown == [NoCmd EXCEPT !.op = "unknown"]
Job    == [st : {"none", "ready", "locked", "flash"}, part : Parts \cup {NoPart},
           buf : Buf, n : Nat, sz : Nat, k : Nat, sparse : BOOLEAN, early : BOOLEAN,
           exp : Images \cup {NoImage}]
NoJob  == [st |-> "none", part |-> NoPart, buf |-> 1, n |-> 0, sz |-> 0,
           k |-> 0, sparse |-> FALSE, early |-> FALSE, exp |-> NoImage]

(***************************************************************************)
(* FastbootCommandSetup: the USB side starts on the first half of a zeroed *)
(* buffer, the flash side on the second, and mNumDataBytes is the size of  *)
(* a half.  The Connected event that queues the first receive is pending.  *)
(***************************************************************************)
Init ==
  /\ hostWait = "none" /\ hostCmd = NoCmd /\ hostSent = 0
  /\ hostImage = NoImage /\ ncmds = 0 /\ drops = 0
  /\ connected = TRUE /\ evConnect = TRUE
  /\ rx = [on |-> FALSE, buf |-> RxBuf, off |-> 0]
  /\ rxDone = FALSE /\ gRx = NoCmd /\ tx = <<>> /\ txDone = 0
  /\ mState = "Cmd" /\ mNumDataBytes = MaxDownLoadSize
  /\ mBytesReceivedSoFar = 0
  /\ mUsbDataBuffer = 1 /\ mFlashDataBuffer = 2
  /\ mem = [b \in Buf |-> [u \in 1..MaxDownLoadSize |-> Blank]]
  /\ IsFlashComplete = TRUE /\ FlashResult = "ok" /\ failed = FALSE
  /\ lockDownload = "free" /\ lockFlash = "free"
  /\ UsbTimer = FALSE /\ okayDelay = FALSE /\ deferred = FALSE
  /\ mpc = "loop" /\ cur = NoCmd /\ job = NoJob /\ inCallback = FALSE
  /\ outer = NoJob /\ overtaken = FALSE
  /\ thr = [t \in Threads |-> NoJob]
  /\ part = [p \in Parts |-> [u \in 1..PartSize[p] |-> Old]]

-----------------------------------------------------------------------------
(***************************************************************************)
(* The host and the USB controller (external: modelled from the calls to   *)
(* UsbDeviceProtocol->Send and HandleEvent).  A transfer from the host     *)
(* completes the queued receive; a response taken by the host completes    *)
(* the send.                                                               *)
(***************************************************************************)
Command(o, p, i, s) == [op |-> o, part |-> p, img |-> i, n |-> s]

HostCommands ==
  {Command("download", NoPart, i, ImageSize[i]) : i \in Images}
  \cup {Command("download", NoPart, i, 0) : i \in Images}
  \cup {Command("flash", p, hostImage, 0) : p \in Parts \cup {NoPart}}
  \cup {Command("erase", p, NoImage, 0) : p \in Parts}
  \cup {Command(o, NoPart, NoImage, 0) : o \in Ops \ {"download", "flash", "erase"}}

HostSend ==
  /\ connected /\ hostWait = "none" /\ rx.on /\ ncmds < MaxCmds
  /\ \E c \in HostCommands :
       /\ c.op = "flash" /\ DisciplinedHost => hostImage # NoImage
       /\ hostCmd' = c /\ gRx' = c
       /\ hostImage' = IF c.op \in {"download", "flash"} THEN NoImage ELSE hostImage
  /\ ncmds' = ncmds + 1 /\ hostWait' = "cmd" /\ hostSent' = 0
  /\ rx' = [rx EXCEPT !.on = FALSE] /\ rxDone' = TRUE
  /\ UNCHANGED <<lineVars, tx, txDone, dlVars, bufVars, mem, flagVars, lockVars,
                 timerVars, mainVars, thr, part>>

HostSendData ==
  /\ connected /\ hostWait = "data" /\ rx.on
  /\ hostSent' = hostSent + 1
  /\ hostWait' = IF hostSent + 1 = hostCmd.n THEN "dataend" ELSE "data"
  /\ mem' = IF rx.buf \in Buf
            THEN [mem EXCEPT ![rx.buf][rx.off + 1] = hostCmd.img] ELSE mem
  /\ gRx' = IF rx.buf = RxBuf THEN Unknown ELSE gRx
  /\ rx' = [rx EXCEPT !.on = FALSE] /\ rxDone' = TRUE
  /\ UNCHANGED <<hostCmd, hostImage, ncmds, lineVars, tx, txDone, dlVars,
                 bufVars, flagVars, lockVars, timerVars, mainVars, thr, part>>

\* The host reads while it waits for an answer.
HostRecv ==
  /\ hostWait \in {"cmd", "dataend"} /\ tx # <<>>
  /\ tx' = Tail(tx) /\ txDone' = txDone + 1
  /\ LET r == Head(tx) IN
       /\ hostWait' = CASE r \in {"OKAY", "FAIL"} -> "none"
                        [] r = "DATA" /\ hostCmd.op = "download" -> "data"
                        [] OTHER -> hostWait
       /\ hostImage' = IF hostWait = "dataend" /\ r = "OKAY" THEN hostCmd.img
                       ELSE hostImage
  /\ UNCHANGED <<hostCmd, hostSent, ncmds, lineVars, rxVars, dlVars, bufVars,
                 mem, flagVars, lockVars, timerVars, mainVars, thr, part>>

\* The cable is pulled: transfers are dropped or cancelled (a cancelled one
\* only makes ProcessBulkXfrComplete* return EFI_ABORTED), the host forgets
\* its command.  mState is untouched.
Disconnect ==
  /\ connected /\ drops < MaxDrops /\ drops' = drops + 1
  /\ connected' = FALSE /\ evConnect' = FALSE
  /\ rx' = [rx EXCEPT !.on = FALSE] /\ rxDone' = FALSE
  /\ tx' = <<>> /\ txDone' = 0
  /\ hostWait' = "none" /\ hostImage' = NoImage
  /\ UNCHANGED <<hostCmd, hostSent, ncmds, gRx, dlVars, bufVars, mem, flagVars,
                 lockVars, timerVars, mainVars, thr, part>>

Reconnect ==
  /\ ~connected /\ connected' = TRUE /\ evConnect' = TRUE
  /\ UNCHANGED <<hostVars, drops, rxVars, tx, txDone, dlVars, bufVars, mem,
                 flagVars, lockVars, timerVars, mainVars, thr, part>>

-----------------------------------------------------------------------------
(***************************************************************************)
(* Commands.  CmdX sets tx, dlVars, lockDownload, mpc, cur and FlashResult;*)
(* a command that waits or flashes continues from its mpc.                 *)
(***************************************************************************)
\* FastbootAck: one Send of gTxBuffer.
Send(rs) == tx' = IF connected THEN tx \o rs ELSE tx

\* Variant: the upper bound is not checked.
BadSizeZeroOnly(n) == n = 0

BadSize(n) == n = 0 \/ n > MaxDownLoadSize

\* mNumDataBytes is assigned before it is validated.
CmdDownload(c) ==
  /\ mNumDataBytes' = c.n
  /\ IF BadSize(c.n)
     THEN /\ Send(<<"FAIL">>)
          /\ UNCHANGED <<mState, mBytesReceivedSoFar, lockDownload>>
     ELSE /\ MThread => lockDownload = "free"
          /\ lockDownload' = IF MThread THEN "main" ELSE lockDownload
          /\ mState' = "Data" /\ mBytesReceivedSoFar' = 0
          /\ Send(<<"DATA">>)
  /\ UNCHANGED <<mpc, cur>>

\* ExchangeFlashAndUsbDataBuf acquires LockDownload, then LockFlash.
CmdFlash(c) ==
  /\ MThread => lockDownload = "free"
  /\ lockDownload' = IF MThread THEN "main" ELSE lockDownload
  /\ mpc' = "flash" /\ cur' = c
  /\ UNCHANGED <<tx, dlVars>>

CmdGetVar(c) ==
  /\ \E r \in {"OKAY", "FAIL"} : Send(<<r>>)
  /\ UNCHANGED <<dlVars, lockDownload, mpc, cur>>

\* CmdGetVarAll and CmdOemDevinfo: INFO lines, each waited for.
CmdGetVarAll(c) ==
  /\ Send(<<"INFO">>) /\ mpc' = "info" /\ cur' = c
  /\ UNCHANGED <<dlVars, lockDownload>>

\* CmdReboot answers first and then waits in RebootDevice.
CmdReboot(c) ==
  /\ Send(<<"OKAY">>) /\ mpc' = "reboot" /\ cur' = c
  /\ UNCHANGED <<dlVars, lockDownload>>

\* CmdErase and CmdContinue begin with WaitForFlashFinished.
CmdWait(c) ==
  /\ mpc' = c.op /\ cur' = c
  /\ UNCHANGED <<tx, dlVars, lockDownload>>

\* Variant: no answer at the end of the command list.
CmdUnknownSilent == UNCHANGED <<tx, dlVars, lockDownload, mpc, cur>>

\* AcceptCmd found no handler for the prefix.
CmdUnknown == Send(<<"FAIL">>) /\ UNCHANGED <<dlVars, lockDownload, mpc, cur>>

Dispatch(c) ==
  \/ c.op = "download"  /\ CmdDownload(c)
  \/ c.op = "flash"     /\ CmdFlash(c)
  \/ c.op = "getvar"    /\ CmdGetVar(c)
  \/ c.op = "getvarall" /\ CmdGetVarAll(c)
  \/ c.op = "reboot"    /\ CmdReboot(c)
  \/ c.op \in {"erase", "continue"} /\ CmdWait(c)
  \/ c.op = "unknown"   /\ CmdUnknown

\* Variant: only a flash waits for the flash before it.
MustDeferFlash(c) == c.op = "flash" /\ ~IsFlashComplete /\ ~MThread

\* While the inline flash runs a command is put off (AcceptCmdTimerInit),
MustDefer(c) == c.op # "download" /\ ~IsFlashComplete /\ ~MThread

\* unless the timer for it cannot be had: then AcceptCmd goes on.
GoesOn(c) == MustDefer(c) => EventsMayFail \/ PoolMayFail

PutOff(c) ==
  /\ MustDefer(c) /\ deferred' = TRUE
  /\ UNCHANGED <<tx, dlVars, lockDownload, mpc, cur, FlashResult, failed>>

\* A command reaches the device: put off, refused because of the last flash,
\* or dispatched.  Anything but a download stops the USB timer.  In a callback
\* a command that takes its time interrupts the flash it falls into.
AcceptCmd(c) ==
  /\ UsbTimer' = IF c.op = "download" THEN UsbTimer ELSE FALSE
  /\ \/ PutOff(c)
     \/ /\ GoesOn(c) /\ FlashResult = "err" /\ c.op \in {"flash", "download"}
        /\ Send(<<"FAIL">>) /\ FlashResult' = "ok" /\ failed' = FALSE
        /\ deferred' = FALSE
        /\ UNCHANGED <<dlVars, lockDownload, mpc, cur>>
     \/ /\ GoesOn(c) /\ (FlashResult = "ok" \/ c.op \notin {"flash", "download"})
        /\ Dispatch(c)
        /\ deferred' = FALSE
        /\ UNCHANGED <<FlashResult, failed>>
  /\ IF mpc = "inline" /\ mpc' # "inline"
     THEN outer' = job /\ job' = NoJob /\ overtaken' = (overtaken \/ MustDefer(c))
     ELSE UNCHANGED <<outer, job, overtaken>>

\* A command that took its time ends: back to the main loop, or to the flash
\* it interrupted.
Return ==
  /\ mpc' = IF outer.st = "none" THEN "loop" ELSE "inline"
  /\ job' = outer /\ outer' = NoJob /\ inCallback' = FALSE
  /\ UNCHANGED overtaken

\* One transfer of the data phase.  The last one ends the phase: with threads
\* the answer is immediate, without it waits for the flash to complete.
AcceptData ==
  LET got == mBytesReceivedSoFar + 1 IN
  /\ mBytesReceivedSoFar' = got
  /\ IF got = mNumDataBytes
     THEN /\ mState' = "Cmd" /\ UNCHANGED rx
          /\ IF MThread
             THEN /\ lockDownload' = "free" /\ Send(<<"OKAY">>)
                  /\ UNCHANGED <<UsbTimer, okayDelay>>
             ELSE /\ UsbTimer' = FALSE /\ UNCHANGED lockDownload
                  /\ \/ okayDelay' = TRUE /\ UNCHANGED tx
                     \/ EventsMayFail /\ Send(<<"FAIL">>) /\ UNCHANGED okayDelay
     ELSE /\ rx' = [on |-> connected, buf |-> mUsbDataBuffer, off |-> got]
          /\ UNCHANGED <<mState, lockDownload, tx, UsbTimer, okayDelay>>
  /\ UNCHANGED <<mNumDataBytes, deferred, mpc, cur, FlashResult, failed, job,
                 outer, overtaken>>

-----------------------------------------------------------------------------
(***************************************************************************)
(* HandleUsbEvents, run by the main loop or, while the main loop flashes,  *)
(* by the USB timer's callback.                                            *)
(***************************************************************************)
CanPoll == mpc = "loop" \/ (mpc = "inline" /\ UsbTimer /\ ~inCallback)

\* A timer callback can run unless the main loop is in one already.
CanCallback == mpc = "loop" \/ (mpc = "inline" /\ ~inCallback)

HandleConnected ==
  /\ CanPoll /\ evConnect /\ evConnect' = FALSE
  /\ rx' = [on |-> TRUE, buf |-> RxBuf, off |-> 0]
  /\ UNCHANGED <<hostVars, drops, connected, rxDone, gRx, tx, txDone, dlVars,
                 bufVars, mem, flagVars, lockVars, timerVars, mainVars, thr, part>>

\* Variant: "must be a Command".
NextReceiveCommand == RxBuf

NextReceive == IF mState = "Data" THEN mUsbDataBuffer ELSE RxBuf

\* A response went out: queue the next receive where the state wants it.
ProcessBulkXfrCompleteTx ==
  /\ CanPoll /\ txDone > 0 /\ txDone' = txDone - 1
  /\ rx' = [on |-> connected, off |-> 0, buf |-> NextReceive]
  /\ UNCHANGED <<hostVars, lineVars, rxDone, gRx, tx, dlVars, bufVars, mem,
                 flagVars, lockVars, timerVars, mainVars, thr, part>>

ProcessBulkXfrCompleteRx ==
  /\ CanPoll /\ rxDone /\ rxDone' = FALSE
  /\ \/ /\ mState = "Cmd" /\ AcceptCmd(gRx)
        /\ UNCHANGED <<rx, okayDelay>>
     \/ mState = "Data" /\ AcceptData
  /\ inCallback' = (mpc = "inline" /\ mpc' # mpc)
  /\ UNCHANGED <<hostVars, lineVars, gRx, txDone, bufVars, mem, IsFlashComplete,
                 lockFlash, thr, part>>

\* The timer of a command that was put off: try it again, with a new timer
\* while the inline flash still runs.
AcceptCmdHandler ==
  /\ CanCallback /\ deferred
  /\ AcceptCmd(gRx)
  /\ inCallback' = (mpc' # mpc)
  /\ UNCHANGED <<hostVars, lineVars, rxVars, txDone, bufVars, mem, okayDelay,
                 IsFlashComplete, lockFlash, thr, part>>

\* Variant: the timer is set again whatever IsFlashComplete says.
FlashCompleteHandlerAgain == CanCallback /\ okayDelay /\ UNCHANGED vars

\* The timer of a download's answer: answer once the flash is complete.
FlashCompleteHandler ==
  /\ CanCallback /\ okayDelay
  /\ \/ IsFlashComplete /\ Send(<<"OKAY">>)
     \/ ~IsFlashComplete /\ EventsMayFail /\ Send(<<"FAIL">>)
  /\ okayDelay' = FALSE
  /\ UNCHANGED <<hostVars, lineVars, rxVars, txDone, dlVars, bufVars, mem,
                 flagVars, lockVars, UsbTimer, deferred, mainVars, thr, part>>

-----------------------------------------------------------------------------
(***************************************************************************)
(* CmdFlash from ExchangeFlashAndUsbDataBuf on.                            *)
(***************************************************************************)
\* A flash reads past its half of the buffer when its size is too large.
ReadUnit(b, k) == IF k <= MaxDownLoadSize THEN mem[b][k] ELSE Junk

Header(b) == mem[b][1]

IsSparse(b) == Header(b) \in SparseImages

\* A raw image is as long as the transfer; the header of a sparse image says
\* how much it expands to, and the transfer only bounds what may be read.
NewJob(st, b, early) ==
  [st |-> st, part |-> cur.part, buf |-> b,
   n |-> IF IsSparse(b) THEN ImageSize[Header(b)] ELSE mNumDataBytes,
   sz |-> mNumDataBytes, k |-> 0, sparse |-> IsSparse(b), early |-> early,
   exp |-> cur.img]

\* There is a next unit to write: the image fits the partition and the unit
\* is within the transfer.
CanWrite(j) ==
  j.st = "flash" /\ j.n <= PartSize[j.part] /\ j.k < j.n /\ j.k < j.sz

\* Variant: the flash reads the buffer USB fills.
WrittenFromUsb(j) ==
  [part EXCEPT ![j.part][j.k + 1] = ReadUnit(mUsbDataBuffer, j.k + 1)]

Written(j) ==
  [part EXCEPT ![j.part][j.k + 1] = ReadUnit(j.buf, j.k + 1)]

\* Flash on this thread of control; early: the host has its answer already.
BeginInline(b, early) ==
  /\ job' = NewJob("flash", b, early) /\ mpc' = "inline"
  /\ UNCHANGED <<thr, lockFlash, inCallback, outer, overtaken>>

FinishFlashCmd(rs) ==
  /\ Send(rs) /\ Return
  /\ UNCHANGED <<thr, lockFlash, IsFlashComplete, UsbTimer>>

\* SparseImgFlashThread up to its first write, when it runs at once.
ResumeThread(t, b) ==
  /\ thr[t].st = "none"
  /\ thr' = [thr EXCEPT ![t] =
               NewJob(IF StartAtResume THEN "flash" ELSE "ready", b, TRUE)]
  /\ lockFlash' = IF StartAtResume THEN t ELSE "free"
  /\ IsFlashComplete' = IF StartAtResume THEN FALSE ELSE IsFlashComplete
  /\ Send(<<"OKAY">>) /\ Return
  /\ UNCHANGED UsbTimer

\* A sparse image for a partition larger than the buffer: answer early and
\* flash in parallel; inline and answered at the end if that cannot be set up.
\* Without memory for the FlashInfo, CmdFlash returns without an answer.
FlashParallel(b) ==
  \/ MThread /\ PoolMayFail /\ FinishFlashCmd(<<>>)
  \/ MThread /\ \E t \in Threads : ResumeThread(t, b)
  \/ /\ MThread /\ EventsMayFail
     /\ BeginInline(b, FALSE) /\ UNCHANGED <<tx, IsFlashComplete, UsbTimer>>
  \/ /\ ~MThread /\ IsFlashComplete' = FALSE /\ UsbTimer' = TRUE
     /\ Send(<<"OKAY">>) /\ BeginInline(b, TRUE)
  \/ /\ ~MThread /\ EventsMayFail /\ IsFlashComplete' = TRUE /\ UsbTimer' = FALSE
     /\ BeginInline(b, FALSE) /\ UNCHANGED tx

\* Variants: LockFlash is not waited for; the halves stay where they are.
ExchangeNoFlashLock ==
  /\ mUsbDataBuffer' = mFlashDataBuffer /\ mFlashDataBuffer' = mUsbDataBuffer
  /\ lockDownload' = IF MThread THEN "free" ELSE lockDownload

ExchangeNoSwap ==
  /\ MThread => lockFlash = "free"
  /\ lockDownload' = IF MThread THEN "free" ELSE lockDownload
  /\ UNCHANGED bufVars

\* Under both locks; both are released at once.
ExchangeFlashAndUsbDataBuf ==
  /\ MThread => lockFlash = "free"
  /\ mUsbDataBuffer' = mFlashDataBuffer /\ mFlashDataBuffer' = mUsbDataBuffer
  /\ lockDownload' = IF MThread THEN "free" ELSE lockDownload

\* The buffers are swapped, then the kind of image and the size of the
\* partition decide.
ExchangeAndFlash ==
  LET b == mUsbDataBuffer IN
  /\ mpc = "flash" /\ ExchangeFlashAndUsbDataBuf
  /\ CASE IsSparse(b) /\ cur.part = NoPart ->
            FinishFlashCmd(<<"FAIL">>)
       [] IsSparse(b) /\ cur.part # NoPart
            /\ PartSize[cur.part] > MaxDownLoadSize ->
            FlashParallel(b)
       [] Header(b) \in CritMetaImages ->
            \* HandleMetaImgFlash answers, and so does CmdFlash
            FinishFlashCmd(<<"FAIL", "FAIL">>)
       [] ~IsSparse(b) /\ Header(b) \notin CritMetaImages /\ cur.part = NoPart ->
            FinishFlashCmd(<<"FAIL">>)
       [] OTHER ->
            BeginInline(b, FALSE) /\ UNCHANGED <<tx, IsFlashComplete, UsbTimer>>
  /\ UNCHANGED <<hostVars, lineVars, rxVars, txDone, dlVars, mem, FlashResult,
                 failed, okayDelay, deferred, cur, part>>

\* Variant: an answer at the end of every inline flash.
AnswersAgain(j) == j.sparse => PartSize[j.part] # MaxDownLoadSize

\* CmdFlash answers after an inline flash, unless it did before it; for a
\* sparse image and a partition of exactly MaxDownLoadSize it never answers.
Answers(j) == ~j.early /\ (j.sparse => PartSize[j.part] # MaxDownLoadSize)

\* Variant: FlashResult is reset whoever was told.
ResultReset(result) == "ok"

\* FlashResult is reset only when CmdFlash reports it.
ResultAfter(result) == IF Answers(job) THEN "ok" ELSE result

EndInline(result) ==
  /\ FlashResult' = ResultAfter(result)
  /\ IsFlashComplete' = IF job.sparse THEN TRUE ELSE IsFlashComplete
  /\ UsbTimer' = IF job.sparse THEN FALSE ELSE UsbTimer
  /\ IF Answers(job) THEN Send(<<IF result = "ok" THEN "OKAY" ELSE "FAIL">>)
                     ELSE UNCHANGED tx
  /\ failed' = (failed \/ (job.early /\ result = "err"))
  /\ Return
  /\ UNCHANGED <<hostVars, lineVars, rxVars, txDone, dlVars, bufVars, mem,
                 lockVars, okayDelay, deferred, cur, thr, part>>

\* One write of the inline flash.
InlineWrite ==
  /\ mpc = "inline" /\ CanWrite(job)
  /\ part' = Written(job)
  /\ job' = [job EXCEPT !.k = job.k + 1]
  /\ UNCHANGED <<hostVars, lineVars, rxVars, tx, txDone, dlVars, bufVars, mem,
                 flagVars, lockVars, timerVars, mpc, cur, inCallback, outer, overtaken,
                 thr>>

InlineDone == mpc = "inline" /\ job.k = job.n /\ EndInline("ok")

\* A write fails, or the image does not fit.
InlineFail == mpc = "inline" /\ job.k < job.n /\ EndInline("err")

-----------------------------------------------------------------------------
(***************************************************************************)
(* SparseImgFlashThread.  Its EFI_STATUS is dropped.                       *)
(***************************************************************************)
\* Variant: the thread does not wait for LockFlash.
ThreadAcquireNoWait(t) ==
  /\ thr[t].st = "ready" /\ lockFlash' = t
  /\ thr' = [thr EXCEPT ![t].st = "locked"]
  /\ UNCHANGED <<hostVars, lineVars, rxVars, tx, txDone, dlVars, bufVars, mem,
                 flagVars, lockDownload, timerVars, mainVars, part>>

ThreadAcquire(t) ==
  /\ thr[t].st = "ready" /\ lockFlash = "free" /\ lockFlash' = t
  /\ thr' = [thr EXCEPT ![t].st = "locked"]
  /\ UNCHANGED <<hostVars, lineVars, rxVars, tx, txDone, dlVars, bufVars, mem,
                 flagVars, lockDownload, timerVars, mainVars, part>>

ThreadBegin(t) ==
  /\ thr[t].st = "locked" /\ IsFlashComplete' = FALSE
  /\ thr' = [thr EXCEPT ![t].st = "flash"]
  /\ UNCHANGED <<hostVars, lineVars, rxVars, tx, txDone, dlVars, bufVars, mem,
                 FlashResult, failed, lockVars, timerVars, mainVars, part>>

ThreadWrite(t) ==
  /\ CanWrite(thr[t])
  /\ part' = Written(thr[t])
  /\ thr' = [thr EXCEPT ![t].k = @ + 1]
  /\ UNCHANGED <<hostVars, lineVars, rxVars, tx, txDone, dlVars, bufVars, mem,
                 flagVars, lockVars, timerVars, mainVars>>

\* Variant: the chunk loop never ends.
ThreadEndSpins(t) == thr[t].st = "flash" /\ thr[t].k = thr[t].n /\ UNCHANGED vars

ThreadEnd(t) ==
  /\ thr[t].st = "flash"
  /\ \/ thr[t].k = thr[t].n /\ UNCHANGED failed
     \/ thr[t].k < thr[t].n /\ failed' = TRUE
  /\ IsFlashComplete' = TRUE /\ lockFlash' = "free"
  /\ thr' = [thr EXCEPT ![t] = NoJob]
  /\ UNCHANGED <<hostVars, lineVars, rxVars, tx, txDone, dlVars, bufVars, mem,
                 FlashResult, lockDownload, timerVars, mainVars, part>>

-----------------------------------------------------------------------------
(***************************************************************************)
(* The commands that wait.  WaitForFlashFinished blocks on LockFlash only  *)
(* when it reads IsFlashComplete = FALSE.                                  *)
(***************************************************************************)
\* Variant: no waiting.
FlashFinishedUnwaited == TRUE

FlashFinished == IsFlashComplete \/ ~MThread \/ lockFlash = "free"

CmdErase ==
  /\ mpc = "erase" /\ FlashFinished
  /\ \/ /\ part' = [part EXCEPT ![cur.part] = [u \in DOMAIN @ |-> Blank]]
        /\ Send(<<"OKAY">>)
     \/ Send(<<"FAIL">>) /\ UNCHANGED part
  /\ Return
  /\ UNCHANGED <<hostVars, lineVars, rxVars, txDone, dlVars, bufVars, mem,
                 flagVars, lockVars, timerVars, cur, thr>>

\* RebootDevice resets the system; CmdContinue boots once LoadImageAndAuth
\* succeeds.
RebootDevice ==
  /\ mpc = "reboot" /\ FlashFinished /\ mpc' = "off"
  /\ UNCHANGED <<hostVars, lineVars, rxVars, tx, txDone, dlVars, bufVars, mem,
                 flagVars, lockVars, timerVars, cur, job, inCallback, outer,
                 overtaken, thr, part>>

CmdContinue ==
  /\ mpc = "continue" /\ FlashFinished
  /\ \/ Send(<<"FAIL">>) /\ Return
     \/ /\ Send(<<"OKAY">>) /\ mpc' = "off"
        /\ UNCHANGED <<job, inCallback, outer, overtaken>>
  /\ UNCHANGED <<hostVars, lineVars, rxVars, txDone, dlVars, bufVars, mem,
                 flagVars, lockVars, timerVars, cur, thr, part>>

\* Variant: the loop does not see its own completion.
InfoSentMissed == mpc = "info" /\ UNCHANGED vars

\* Variant: the next line is sent without waiting.
InfoSentNoWait ==
  /\ mpc = "info" /\ txDone' = txDone - 1
  /\ Send(<<"OKAY">>) /\ Return
  /\ UNCHANGED <<hostVars, lineVars, rxVars, dlVars, bufVars, mem, flagVars,
                 lockVars, timerVars, cur, thr, part>>

\* WaitForTransferComplete takes the send's completion, which may be that of a
\* cancelled send; then comes the answer.  One INFO line stands for all.
InfoSent ==
  /\ mpc = "info"
  /\ \/ txDone > 0 /\ txDone' = txDone - 1
     \/ tx = <<>> /\ txDone = 0 /\ UNCHANGED txDone
  /\ Send(<<"OKAY">>) /\ Return
  /\ UNCHANGED <<hostVars, lineVars, rxVars, dlVars, bufVars, mem, flagVars,
                 lockVars, timerVars, cur, thr, part>>

\* Any other event is lost in WaitForTransferComplete.
InfoOther ==
  /\ mpc = "info" /\ (evConnect \/ rxDone)
  /\ evConnect' = FALSE /\ rxDone' = FALSE
  /\ UNCHANGED <<hostVars, drops, connected, rx, gRx, tx, txDone, dlVars, bufVars,
                 mem, flagVars, lockVars, timerVars, mainVars, thr, part>>

\* The end of a run: the bound on commands is reached and all is answered,
\* or the device has left fastboot.
Done ==
  /\ hostWait = "none" /\ tx = <<>>
  /\ ncmds = MaxCmds \/ mpc = "off"
  /\ UNCHANGED vars

Host   == HostSend \/ HostSendData \/ HostRecv \/ Disconnect \/ Reconnect
Device == \/ HandleConnected \/ ProcessBulkXfrCompleteTx \/ ProcessBulkXfrCompleteRx
          \/ AcceptCmdHandler \/ FlashCompleteHandler
          \/ ExchangeAndFlash \/ InlineWrite \/ InlineDone \/ InlineFail
          \/ CmdErase \/ RebootDevice \/ CmdContinue \/ InfoSent \/ InfoOther
Flasher(t) == ThreadAcquire(t) \/ ThreadBegin(t) \/ ThreadWrite(t) \/ ThreadEnd(t)
Next   == Host \/ Device \/ (\E t \in Threads : Flasher(t)) \/ Done

Spec == Init /\ [][Next]_vars

\* The main loop polls for ever, the kernel schedules every flash thread, and
\* a host that is in a command reads answers and sends its data.  Nothing
\* makes the host send another command or plug the cable.
Fairness ==
  /\ WF_vars(Device) /\ \A t \in Threads : WF_vars(Flasher(t))
  /\ WF_vars(HostRecv) /\ WF_vars(HostSendData)

FairSpec == Spec /\ Fairness

-----------------------------------------------------------------------------
HostTypeOK ==
  /\ hostWait \in {"none", "cmd", "data", "dataend"} /\ hostCmd \in Cmd
  /\ hostSent \in Nat /\ hostImage \in Images \cup {NoImage}
  /\ ncmds \in Nat

UsbTypeOK ==
  /\ drops \in Nat /\ connected \in BOOLEAN /\ evConnect \in BOOLEAN
  /\ rx \in Receive
  /\ rxDone \in BOOLEAN /\ gRx \in Cmd
  /\ tx \in Seq(Responses) /\ txDone \in Nat

DownloadTypeOK ==
  /\ mState \in {"Cmd", "Data"}
  /\ mNumDataBytes \in Nat /\ mBytesReceivedSoFar \in Nat
  /\ mUsbDataBuffer \in Buf /\ mFlashDataBuffer \in Buf
  /\ mem \in [Buf -> [1..MaxDownLoadSize -> Units]]

MainTypeOK ==
  /\ IsFlashComplete \in BOOLEAN /\ FlashResult \in {"ok", "err"}
  /\ failed \in BOOLEAN
  /\ lockDownload \in {"free", "main"} /\ lockFlash \in Threads \cup {"free"}
  /\ UsbTimer \in BOOLEAN /\ okayDelay \in BOOLEAN /\ deferred \in BOOLEAN
  /\ mpc \in {"loop", "flash", "inline", "erase", "continue", "reboot", "info",
              "off"}
  /\ cur \in Cmd /\ inCallback \in BOOLEAN /\ overtaken \in BOOLEAN

FlashTypeOK ==
  /\ job \in Job /\ outer \in Job /\ thr \in [Threads -> Job]
  /\ DOMAIN part = Parts /\ \A p \in Parts : part[p] \in [1..PartSize[p] -> Units]

\* The types of the variables: in particular a completed send is taken once
\* (txDone), and every unit of the medium is of an image, blank or old.
TypeOK == HostTypeOK /\ UsbTypeOK /\ DownloadTypeOK /\ MainTypeOK /\ FlashTypeOK

Count(b) == IF b THEN 1 ELSE 0

\* The device works on a command it has not answered.
Owes == \/ mpc \in {"flash", "erase", "continue"}
        \/ mpc = "inline" /\ ~job.early

\* Where a request or its answer can be.
Tokens == Count(evConnect) + Count(rx.on) + Count(rxDone) + Len(tx) + txDone
          + Count(deferred) + Count(okayDelay) + Count(Owes)

\* FastbootAck and the queueing of the next receive keep exactly one transfer
\* in the air: every command is answered exactly once (INFO lines apart),
\* gTxBuffer is never refilled during a send, gRxBuffer never during a command.
OneAnswer == IF mpc = "off" THEN Tokens <= 1 ELSE Tokens = 1

\* No queued receive starts past its half of the download buffer, whatever
\* sizes the host asks for (CmdDownload's checks, AcceptData's accounting).
ReceiveInBounds ==
  /\ rx.off < MaxDownLoadSize
  /\ mState = "Data" => /\ mBytesReceivedSoFar < mNumDataBytes
                        /\ mNumDataBytes <= MaxDownLoadSize

\* A receive goes to gRxBuffer when a command is expected, and to the next
\* free byte of the download buffer when data is: DataReady and the receive
\* that ProcessBulkXfrCompleteTx or AcceptData queued agree.
RxMatchesState ==
  rx.on \/ rxDone =>
    /\ (rx.buf = RxBuf) <=> (mState = "Cmd")
    /\ mState = "Data" => rx.buf = mUsbDataBuffer /\ rx.off = mBytesReceivedSoFar

\* The main loop, the USB driver and the host stay in step: one transfer in the
\* air, queued into the buffer the state machine expects, at an offset inside it.
InStep == OneAnswer /\ RxMatchesState /\ ReceiveInBounds

\* LockDownload is held from a download's DATA to its last byte and across the
\* buffer exchange, LockFlash by the thread that flashes: the main loop never
\* asks for a lock it holds, and takes Download before Flash.
LockDiscipline ==
  /\ (lockDownload = "main") <=> (MThread /\ (mState = "Data" \/ mpc = "flash"))
  /\ MThread => ~(mState = "Data" /\ mpc = "flash")
  /\ \A t \in Threads : (lockFlash = t) <=> (thr[t].st \in {"locked", "flash"})

ActiveThreads == {t \in Threads : thr[t].st # "none"}
Active == {thr[t] : t \in ActiveThreads} \cup (IF mpc = "inline" THEN {job} ELSE {})

\* What a flash has written and what it has still to read is the image its
\* host downloaded last: the next download goes to the other half, and nobody
\* else writes the partition meanwhile.  A command that had to be let into a
\* running flash (AcceptCmdTimerInit failed) may do so.
FlashFaithful ==
  \A j \in Active : j.exp # NoImage /\ ~overtaken =>
    /\ \A u \in 1..j.n : IF u <= j.k THEN part[j.part][u] = j.exp
                          ELSE ReadUnit(j.buf, u) = j.exp
    /\ j.n <= j.sz

\* A flash is of data the host has sent since the last one (CmdFlash's "No
\* data to flash").
FlashHasData == \A j \in Active : j.exp # NoImage

\* CmdErase, RebootDevice and CmdContinue act when no flash is left, whatever
\* the flash thread and the main loop do first (WaitForFlashFinished).
WaitsForFlash ==
  [][(mpc \in {"erase", "reboot", "continue"} /\ mpc' # mpc)
       => (ActiveThreads = {} /\ outer.st = "none")]_vars

\* A flash that fails after its OKAY is remembered in FlashResult until the
\* next flash or download is refused because of it, unless a command was let
\* into a running flash: two flashes then end one after the other, and the
\* second overwrites the result of the first.
FailureRemembered == failed /\ ~overtaken => FlashResult = "err"

\* Every command and every data phase is answered while the cable stays in.
Answered ==
  /\ hostWait = "cmd" ~> hostWait # "cmd"
  /\ hostWait = "dataend" ~> hostWait # "dataend"

\* Every flash thread ends and gives LockFlash back.
FlashEnds == \A t \in Threads : thr[t].st # "none" ~> lockFlash # t /\ thr[t].st = "none"

-----------------------------------------------------------------------------
(***************************************************************************)
(* The pipeline implements a sequential store: see FlashStore.             *)
(***************************************************************************)
Writing == IF ActiveThreads # {} THEN thr[CHOOSE t \in ActiveThreads : TRUE]
           ELSE IF mpc = "inline" THEN job ELSE NoJob

Store == INSTANCE FlashStore WITH
           content <- part,
           flash <- [on |-> Writing.st # "none", part |-> Writing.part,
                     img |-> Writing.exp, k |-> Writing.k],
           off <- (mpc = "off"), overtaken <- overtaken

\* The parallel download and flash pipeline does what a device does that
\* flashes, erases and resets one thing after the other.
ImplementsStore == Store!Spec
=============================================================================
