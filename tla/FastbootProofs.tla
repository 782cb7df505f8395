--------------------------- MODULE FastbootProofs ---------------------------
(***************************************************************************)
(* Proofs about Fastboot for every set of partitions, images and threads,  *)
(* every size and every bound.                                             *)
(***************************************************************************)
EXTENDS Fastboot, TLAPS

USE DEF hostVars, lineVars, rxVars, dlVars, bufVars, flagVars, lockVars,
        timerVars, mainVars

-----------------------------------------------------------------------------
(***************************************************************************)
(* Types.                                                                  *)
(***************************************************************************)
\* The host is in a data phase only for the download of an image.
HostInv ==
  /\ hostCmd.op = "download" => hostCmd.img \in Images
  /\ hostWait = "data" => hostCmd.op = "download"

TypeInv == TypeOK /\ HostInv

\* FastbootInitialize leaves every variable with its type.
LEMMA InitType == Init => TypeInv
<1> SUFFICES ASSUME Init PROVE TypeInv OBVIOUS
<1>1. HostTypeOK BY DEF Init, HostTypeOK, Cmd, NoCmd, Ops
<1>2. UsbTypeOK
  <2>1. tx \in Seq(Responses) BY DEF Init
  <2>2. gRx \in Cmd BY DEF Init, Cmd, NoCmd, Ops
  <2>3. rx \in Receive BY DEF Init, Receive, RxBuf
  <2> QED BY <2>1, <2>2, <2>3 DEF Init, UsbTypeOK
<1>3. DownloadTypeOK BY FastbootAssumption DEF Init, DownloadTypeOK, Buf, Units
<1>4. MainTypeOK BY DEF Init, MainTypeOK, Cmd, NoCmd, Ops
<1>5. FlashTypeOK BY DEF Init, FlashTypeOK, NoJob, Job, Buf, Units
<1>6. HostInv BY DEF Init, HostInv, NoCmd
<1> QED BY <1>1, <1>2, <1>3, <1>4, <1>5, <1>6 DEF TypeInv, TypeOK

\* A receive that has been taken is still a receive.
LEMMA ReceiveTaken == ASSUME NEW r \in Receive PROVE [r EXCEPT !.on = FALSE] \in Receive
BY DEF Receive

\* What a host may send is a command; a download names an image.
LEMMA CommandType ==
  ASSUME TypeInv, NEW c \in HostCommands
  PROVE  c \in Cmd /\ (c.op = "download" => c.img \in Images)
<1>1. ASSUME NEW i \in Images, NEW s \in {0, ImageSize[i]},
             c = Command("download", NoPart, i, s)
      PROVE  c \in Cmd /\ (c.op = "download" => c.img \in Images)
  BY <1>1, FastbootAssumption DEF Command, Cmd, Ops
<1>2. ASSUME NEW o \in Ops \ {"download"}, NEW p \in Parts \cup {NoPart},
             NEW i \in Images \cup {NoImage}, c = Command(o, p, i, 0)
      PROVE  c \in Cmd /\ (c.op = "download" => c.img \in Images)
  BY <1>2 DEF Command, Cmd, Ops
<1> QED BY <1>1, <1>2 DEF HostCommands, TypeInv, TypeOK, HostTypeOK, Ops

\* What the host and the cable do keeps the types.
LEMMA HostType == TypeInv /\ Host => TypeInv'
<1> SUFFICES ASSUME TypeInv, Host PROVE TypeInv' OBVIOUS
<1> USE DEF TypeInv, TypeOK
<1>1. CASE HostSend
  <2>1. PICK c \in HostCommands :
          /\ hostCmd' = c /\ gRx' = c
          /\ hostImage' = IF c.op \in {"download", "flash"} THEN NoImage ELSE hostImage
    BY <1>1 DEF HostSend
  <2>2. c \in Cmd /\ (c.op = "download" => c.img \in Images) BY CommandType
  <2>3. HostTypeOK' /\ HostInv' BY <1>1, <2>1, <2>2 DEF HostSend, HostTypeOK, HostInv
  <2>4. UsbTypeOK' BY <1>1, <2>1, <2>2, ReceiveTaken DEF HostSend, UsbTypeOK
  <2>5. DownloadTypeOK' /\ MainTypeOK' /\ FlashTypeOK'
    BY <1>1 DEF HostSend, DownloadTypeOK, MainTypeOK, FlashTypeOK
  <2> QED BY <2>3, <2>4, <2>5
<1>2. CASE HostSendData
  <2>1. HostTypeOK' /\ HostInv' BY <1>2 DEF HostSendData, HostTypeOK, HostInv
  <2>2. Unknown \in Cmd BY DEF Unknown, NoCmd, Cmd, Ops
  <2>3. UsbTypeOK' BY <1>2, <2>2, ReceiveTaken DEF HostSendData, UsbTypeOK
  <2>4. DownloadTypeOK' BY <1>2 DEF HostSendData, DownloadTypeOK, HostInv, Units
  <2>5. MainTypeOK' /\ FlashTypeOK' BY <1>2 DEF HostSendData, MainTypeOK, FlashTypeOK
  <2> QED BY <2>1, <2>3, <2>4, <2>5
<1>3. CASE HostRecv
  <2>1. HostTypeOK' /\ HostInv' BY <1>3 DEF HostRecv, HostTypeOK, HostInv, Cmd
  <2>2. tx' \in Seq(Responses) BY <1>3 DEF HostRecv, UsbTypeOK
  <2>3. txDone' \in Nat BY <1>3 DEF HostRecv, UsbTypeOK
  <2>4. UsbTypeOK' BY <1>3, <2>2, <2>3 DEF HostRecv, UsbTypeOK
  <2>5. DownloadTypeOK' /\ MainTypeOK' /\ FlashTypeOK'
    BY <1>3 DEF HostRecv, DownloadTypeOK, MainTypeOK, FlashTypeOK
  <2> QED BY <2>1, <2>4, <2>5
<1>4. CASE Disconnect
  <2>1. HostTypeOK' /\ HostInv' BY <1>4 DEF Disconnect, HostTypeOK, HostInv
  <2>2. tx' \in Seq(Responses) BY <1>4 DEF Disconnect
  <2>3. rx' \in Receive BY <1>4, ReceiveTaken DEF Disconnect, UsbTypeOK
  <2>4. drops' \in Nat BY <1>4 DEF Disconnect, UsbTypeOK
  <2>5. UsbTypeOK' BY <1>4, <2>2, <2>3, <2>4 DEF Disconnect, UsbTypeOK
  <2>6. DownloadTypeOK' /\ MainTypeOK' /\ FlashTypeOK'
    BY <1>4 DEF Disconnect, DownloadTypeOK, MainTypeOK, FlashTypeOK
  <2> QED BY <2>1, <2>5, <2>6
<1>5. CASE Reconnect
  <2>1. HostTypeOK' /\ HostInv' BY <1>5 DEF Reconnect, HostTypeOK, HostInv
  <2>2. UsbTypeOK' BY <1>5 DEF Reconnect, UsbTypeOK
  <2>3. DownloadTypeOK' /\ MainTypeOK' /\ FlashTypeOK'
    BY <1>5 DEF Reconnect, DownloadTypeOK, MainTypeOK, FlashTypeOK
  <2> QED BY <2>1, <2>2, <2>3
<1> QED BY <1>1, <1>2, <1>3, <1>4, <1>5 DEF Host

\* FastbootAck puts one response on the line.
LEMMA SendType ==
  ASSUME TypeInv, NEW rs \in Seq(Responses), Send(rs)
  PROVE  tx' \in Seq(Responses)
BY DEF TypeInv, TypeOK, UsbTypeOK, Send

\* A response alone is a queue of responses.
LEMMA SingleResponse == \A r \in Responses : <<r>> \in Seq(Responses)
OBVIOUS

\* No flash is a job too.
LEMMA NoJobType == NoJob \in Job
BY DEF NoJob, Job, Buf

\* What a command that ends may leave of the main loop.
ReturnTypes ==
  /\ mpc \in {"loop", "inline"} /\ inCallback \in BOOLEAN /\ overtaken \in BOOLEAN
  /\ job \in Job /\ outer \in Job

\* A command that ends keeps the types of what it goes back to.
LEMMA ReturnType == ASSUME TypeInv, Return PROVE ReturnTypes'
BY NoJobType DEF TypeInv, TypeOK, MainTypeOK, FlashTypeOK, Return, ReturnTypes

\* What a command may leave in the variables AcceptCmd assigns.
CmdTypes ==
  /\ tx \in Seq(Responses) /\ mState \in {"Cmd", "Data"}
  /\ mNumDataBytes \in Nat /\ mBytesReceivedSoFar \in Nat
  /\ lockDownload \in {"free", "main"}
  /\ mpc \in {"loop", "flash", "inline", "erase", "continue", "reboot", "info", "off"}
  /\ cur \in Cmd

\* AcceptCmd's dispatch of a command keeps the types of what it sets.
LEMMA DispatchType ==
  ASSUME TypeInv, NEW c \in Cmd, Dispatch(c)
  PROVE  CmdTypes'
<1> USE SingleResponse, SendType DEF Responses
<1>0. CmdTypes BY DEF CmdTypes, TypeInv, TypeOK, UsbTypeOK, DownloadTypeOK, MainTypeOK
<1>1. CASE c.op = "download" /\ CmdDownload(c)
  <2>1. tx' \in Seq(Responses) BY <1>1 DEF CmdDownload
  <2> QED BY <1>0, <1>1, <2>1 DEF CmdDownload, CmdTypes, Cmd
<1>2. CASE c.op = "flash" /\ CmdFlash(c) BY <1>0, <1>2 DEF CmdFlash, CmdTypes
<1>3. CASE c.op = "getvar" /\ CmdGetVar(c)
  <2>1. tx' \in Seq(Responses) BY <1>3 DEF CmdGetVar
  <2> QED BY <1>0, <1>3, <2>1 DEF CmdGetVar, CmdTypes
<1>4. CASE c.op = "getvarall" /\ CmdGetVarAll(c)
  <2>1. tx' \in Seq(Responses) BY <1>4 DEF CmdGetVarAll
  <2> QED BY <1>0, <1>4, <2>1 DEF CmdGetVarAll, CmdTypes
<1>5. CASE c.op = "reboot" /\ CmdReboot(c)
  <2>1. tx' \in Seq(Responses) BY <1>5 DEF CmdReboot
  <2> QED BY <1>0, <1>5, <2>1 DEF CmdReboot, CmdTypes
<1>6. CASE c.op \in {"erase", "continue"} /\ CmdWait(c)
  BY <1>0, <1>6 DEF CmdWait, CmdTypes
<1>7. CASE c.op = "unknown" /\ CmdUnknown
  <2>1. tx' \in Seq(Responses) BY <1>7 DEF CmdUnknown
  <2> QED BY <1>0, <1>7, <2>1 DEF CmdUnknown, CmdTypes
<1> QED BY <1>1, <1>2, <1>3, <1>4, <1>5, <1>6, <1>7 DEF Dispatch

\* What AcceptCmd assigns besides.
FlagTypes ==
  /\ UsbTimer \in BOOLEAN /\ okayDelay \in BOOLEAN /\ deferred \in BOOLEAN
  /\ FlashResult \in {"ok", "err"} /\ failed \in BOOLEAN
  /\ job \in Job /\ outer \in Job /\ overtaken \in BOOLEAN

\* AcceptCmd, with CmdDownload and the deferred handler, keeps the types.
LEMMA AcceptCmdType ==
  ASSUME TypeInv, NEW c \in Cmd, AcceptCmd(c), UNCHANGED okayDelay
  PROVE  CmdTypes' /\ FlagTypes'
<1>0. CmdTypes /\ FlagTypes
  BY DEF CmdTypes, FlagTypes, TypeInv, TypeOK, UsbTypeOK, DownloadTypeOK, MainTypeOK, FlashTypeOK
<1>1. FlagTypes'
  <2>1. (job \in Job /\ outer \in Job /\ overtaken \in BOOLEAN)'
    BY <1>0, NoJobType DEF AcceptCmd, FlagTypes, MustDefer
  <2>2. (deferred \in BOOLEAN /\ FlashResult \in {"ok", "err"} /\ failed \in BOOLEAN)'
    BY <1>0 DEF AcceptCmd, PutOff, FlagTypes
  <2>3. (UsbTimer \in BOOLEAN /\ okayDelay \in BOOLEAN)' BY <1>0 DEF AcceptCmd, FlagTypes
  <2> QED BY <2>1, <2>2, <2>3 DEF FlagTypes
<1>2. CASE UNCHANGED <<tx, dlVars, lockDownload, mpc, cur>>
  BY <1>0, <1>1, <1>2 DEF CmdTypes
<1>3. CASE Send(<<"FAIL">>) /\ UNCHANGED <<dlVars, lockDownload, mpc, cur>>
  <2>1. tx' \in Seq(Responses) BY <1>3, SingleResponse, SendType DEF Responses
  <2> QED BY <1>0, <1>1, <1>3, <2>1 DEF CmdTypes
<1>4. CASE Dispatch(c) BY <1>1, <1>4, DispatchType
<1> QED BY <1>1, <1>2, <1>3, <1>4 DEF AcceptCmd, PutOff

\* AcceptData keeps the types.
LEMMA AcceptDataType ==
  ASSUME TypeInv, AcceptData
  PROVE  CmdTypes' /\ FlagTypes' /\ rx' \in Receive
<1>0. CmdTypes /\ FlagTypes /\ rx \in Receive /\ connected \in BOOLEAN /\ mUsbDataBuffer \in Buf
  BY DEF CmdTypes, FlagTypes, TypeInv, TypeOK, UsbTypeOK, DownloadTypeOK, MainTypeOK, FlashTypeOK
<1>1. tx' \in Seq(Responses)
  <2>1. Send(<<"OKAY">>) => tx' \in Seq(Responses) BY SingleResponse, SendType DEF Responses
  <2>2. Send(<<"FAIL">>) => tx' \in Seq(Responses) BY SingleResponse, SendType DEF Responses
  <2> QED BY <1>0, <2>1, <2>2 DEF AcceptData, CmdTypes
<1>2. rx' \in Receive BY <1>0 DEF AcceptData, Receive, CmdTypes
<1>3. CmdTypes' BY <1>0, <1>1 DEF AcceptData, CmdTypes
<1>4. FlagTypes' BY <1>0 DEF AcceptData, FlagTypes
<1> QED BY <1>2, <1>3, <1>4

\* HandleUsbEvents and the two timer handlers keep the types.
LEMMA EventsType ==
  ASSUME TypeInv,
         HandleConnected \/ ProcessBulkXfrCompleteTx \/ ProcessBulkXfrCompleteRx
           \/ AcceptCmdHandler \/ FlashCompleteHandler
  PROVE  TypeInv'
<1> USE DEF TypeInv, TypeOK
<1>1. CASE HandleConnected
  <2>1. rx' \in Receive BY <1>1 DEF HandleConnected, Receive, RxBuf
  <2>2. UsbTypeOK' BY <1>1, <2>1 DEF HandleConnected, UsbTypeOK
  <2>3. HostTypeOK' /\ HostInv' /\ DownloadTypeOK' /\ MainTypeOK' /\ FlashTypeOK'
    BY <1>1 DEF HandleConnected, HostTypeOK, HostInv, DownloadTypeOK, MainTypeOK, FlashTypeOK
  <2> QED BY <2>2, <2>3
<1>2. CASE ProcessBulkXfrCompleteTx
  <2>1. rx' \in Receive
    BY <1>2 DEF ProcessBulkXfrCompleteTx, NextReceive, Receive, RxBuf, DownloadTypeOK, UsbTypeOK
  <2>2. txDone' \in Nat BY <1>2 DEF ProcessBulkXfrCompleteTx, UsbTypeOK
  <2>3. UsbTypeOK' BY <1>2, <2>1, <2>2 DEF ProcessBulkXfrCompleteTx, UsbTypeOK
  <2>4. HostTypeOK' /\ HostInv' /\ DownloadTypeOK' /\ MainTypeOK' /\ FlashTypeOK'
    BY <1>2 DEF ProcessBulkXfrCompleteTx, HostTypeOK, HostInv, DownloadTypeOK, MainTypeOK, FlashTypeOK
  <2> QED BY <2>3, <2>4
<1>3. CASE ProcessBulkXfrCompleteRx
  <2>1. CmdTypes' /\ FlagTypes' /\ rx' \in Receive
    <3>1. CASE mState = "Cmd" /\ AcceptCmd(gRx) /\ UNCHANGED <<rx, okayDelay>>
      <4>1. gRx \in Cmd /\ rx \in Receive BY DEF UsbTypeOK
      <4> QED BY <3>1, <4>1, AcceptCmdType
    <3>2. CASE mState = "Data" /\ AcceptData BY <3>2, AcceptDataType
    <3> QED BY <1>3, <3>1, <3>2 DEF ProcessBulkXfrCompleteRx
  <2>2. UsbTypeOK' BY <1>3, <2>1 DEF ProcessBulkXfrCompleteRx, CmdTypes, UsbTypeOK
  <2>3. DownloadTypeOK' BY <1>3, <2>1 DEF ProcessBulkXfrCompleteRx, CmdTypes, DownloadTypeOK
  <2>7. inCallback' \in BOOLEAN BY <1>3 DEF ProcessBulkXfrCompleteRx
  <2>4. MainTypeOK' BY <1>3, <2>1, <2>7 DEF ProcessBulkXfrCompleteRx, CmdTypes, FlagTypes, MainTypeOK
  <2>5. HostTypeOK' /\ HostInv' BY <1>3 DEF ProcessBulkXfrCompleteRx, HostTypeOK, HostInv
  <2>6. FlashTypeOK' BY <1>3, <2>1 DEF ProcessBulkXfrCompleteRx, FlagTypes, FlashTypeOK
  <2> QED BY <2>2, <2>3, <2>4, <2>5, <2>6
<1>4. CASE AcceptCmdHandler
  <2>1. CmdTypes' /\ FlagTypes'
    <3>1. gRx \in Cmd BY DEF UsbTypeOK
    <3> QED BY <1>4, <3>1, AcceptCmdType DEF AcceptCmdHandler
  <2>2. UsbTypeOK' BY <1>4, <2>1 DEF AcceptCmdHandler, CmdTypes, UsbTypeOK
  <2>3. DownloadTypeOK' BY <1>4, <2>1 DEF AcceptCmdHandler, CmdTypes, DownloadTypeOK
  <2>7. inCallback' \in BOOLEAN BY <1>4 DEF AcceptCmdHandler
  <2>4. MainTypeOK' BY <1>4, <2>1, <2>7 DEF AcceptCmdHandler, CmdTypes, FlagTypes, MainTypeOK
  <2>5. HostTypeOK' /\ HostInv' BY <1>4 DEF AcceptCmdHandler, HostTypeOK, HostInv
  <2>6. FlashTypeOK' BY <1>4, <2>1 DEF AcceptCmdHandler, FlagTypes, FlashTypeOK
  <2> QED BY <2>2, <2>3, <2>4, <2>5, <2>6
<1>5. CASE FlashCompleteHandler
  <2>1. tx' \in Seq(Responses)
    <3>1. Send(<<"OKAY">>) \/ Send(<<"FAIL">>) BY <1>5 DEF FlashCompleteHandler
    <3> QED BY <3>1, SingleResponse, SendType DEF Responses
  <2>2. UsbTypeOK' BY <1>5, <2>1 DEF FlashCompleteHandler, UsbTypeOK
  <2>3. MainTypeOK' BY <1>5 DEF FlashCompleteHandler, MainTypeOK
  <2>4. HostTypeOK' /\ HostInv' /\ DownloadTypeOK' /\ FlashTypeOK'
    BY <1>5 DEF FlashCompleteHandler, HostTypeOK, HostInv, DownloadTypeOK, FlashTypeOK
  <2> QED BY <2>2, <2>3, <2>4
<1> QED BY <1>1, <1>2, <1>3, <1>4, <1>5

\* The flash that CmdFlash prepares is a well-formed job.
LEMMA NewJobType ==
  ASSUME TypeInv, NEW st \in {"none", "ready", "locked", "flash"}, NEW b \in Buf,
         NEW early \in BOOLEAN
  PROVE  NewJob(st, b, early) \in Job
<1>1. IsSparse(b) => ImageSize[Header(b)] \in Nat
  BY FastbootAssumption DEF IsSparse
<1>2. IsSparse(b) \in BOOLEAN BY DEF IsSparse
<1>3. mNumDataBytes \in Nat /\ cur \in Cmd BY DEF TypeInv, TypeOK, DownloadTypeOK, MainTypeOK
<1> QED BY <1>1, <1>2, <1>3 DEF NewJob, Job, Cmd

\* What the kinds of flash may leave in the variables they assign.
FlashTypes ==
  /\ tx \in Seq(Responses) /\ ReturnTypes /\ thr \in [Threads -> Job]
  /\ lockFlash \in Threads \cup {"free"}
  /\ IsFlashComplete \in BOOLEAN /\ UsbTimer \in BOOLEAN

\* Starting a flash in the main loop keeps the types of what it sets.
LEMMA BeginInlineType ==
  ASSUME TypeInv, NEW b \in Buf, NEW early \in BOOLEAN, BeginInline(b, early),
         tx' \in Seq(Responses), IsFlashComplete' \in BOOLEAN, UsbTimer' \in BOOLEAN
  PROVE  FlashTypes'
<1>1. job' \in Job BY NewJobType DEF BeginInline
<1> QED BY <1>1 DEF BeginInline, FlashTypes, ReturnTypes, TypeInv, TypeOK, MainTypeOK, FlashTypeOK

\* The end of CmdFlash keeps the types of what it sets.
LEMMA FinishFlashCmdType ==
  ASSUME TypeInv, NEW rs \in Seq(Responses), FinishFlashCmd(rs)
  PROVE  FlashTypes'
<1>1. tx' \in Seq(Responses) BY SendType DEF FinishFlashCmd
<1> QED BY <1>1, ReturnType DEF FinishFlashCmd, FlashTypes, TypeInv, TypeOK, MainTypeOK, FlashTypeOK

\* Handing a flash to a thread or to the main loop keeps the types.
LEMMA FlashParallelType ==
  ASSUME TypeInv, NEW b \in Buf, FlashParallel(b)
  PROVE  FlashTypes'
<1>0. /\ tx \in Seq(Responses) /\ IsFlashComplete \in BOOLEAN /\ UsbTimer \in BOOLEAN
      /\ thr \in [Threads -> Job] /\ job \in Job
  BY DEF TypeInv, TypeOK, UsbTypeOK, MainTypeOK, FlashTypeOK
<1>1. Send(<<"OKAY">>) => tx' \in Seq(Responses) BY SingleResponse, SendType DEF Responses
<1>2. ASSUME NEW t \in Threads, ResumeThread(t, b) PROVE FlashTypes'
  <2>1. thr' \in [Threads -> Job]
    <3>1. NewJob(IF StartAtResume THEN "flash" ELSE "ready", b, TRUE) \in Job BY NewJobType
    <3> QED BY <1>0, <1>2, <3>1 DEF ResumeThread
  <2> QED BY <1>0, <1>1, <1>2, <2>1, ReturnType DEF ResumeThread, FlashTypes
<1>3. CASE BeginInline(b, FALSE) /\ UNCHANGED <<tx, IsFlashComplete, UsbTimer>>
  BY <1>0, <1>3, BeginInlineType
<1>4. CASE IsFlashComplete' = FALSE /\ UsbTimer' = TRUE /\ Send(<<"OKAY">>) /\ BeginInline(b, TRUE)
  BY <1>1, <1>4, BeginInlineType
<1>5. CASE IsFlashComplete' = TRUE /\ UsbTimer' = FALSE /\ BeginInline(b, FALSE) /\ UNCHANGED tx
  BY <1>0, <1>5, BeginInlineType
<1>6. CASE FinishFlashCmd(<<>>)
  <2>1. <<>> \in Seq(Responses) OBVIOUS
  <2> QED BY <1>6, <2>1, FinishFlashCmdType
<1> QED BY <1>2, <1>3, <1>4, <1>5, <1>6 DEF FlashParallel

\* CmdFlash, from the exchange of the buffers on, keeps the types.
LEMMA ExchangeAndFlashType ==
  ASSUME TypeInv, ExchangeAndFlash
  PROVE  TypeInv'
<1> DEFINE b == mUsbDataBuffer
<1>0. /\ b \in Buf /\ tx \in Seq(Responses)
      /\ IsFlashComplete \in BOOLEAN /\ UsbTimer \in BOOLEAN
  BY DEF TypeInv, TypeOK, UsbTypeOK, DownloadTypeOK, MainTypeOK
<1>1. \/ FinishFlashCmd(<<"FAIL">>) \/ FinishFlashCmd(<<"FAIL", "FAIL">>)
      \/ FlashParallel(b)
      \/ BeginInline(b, FALSE) /\ UNCHANGED <<tx, IsFlashComplete, UsbTimer>>
  BY DEF ExchangeAndFlash
<1>2. FlashTypes'
  <2>1. <<"FAIL">> \in Seq(Responses) /\ <<"FAIL", "FAIL">> \in Seq(Responses) BY DEF Responses
  <2>2. CASE FinishFlashCmd(<<"FAIL">>) BY <2>1, <2>2, FinishFlashCmdType
  <2>3. CASE FinishFlashCmd(<<"FAIL", "FAIL">>) BY <2>1, <2>3, FinishFlashCmdType
  <2>4. CASE FlashParallel(b) BY <1>0, <2>4, FlashParallelType
  <2>5. CASE BeginInline(b, FALSE) /\ UNCHANGED <<tx, IsFlashComplete, UsbTimer>>
    BY <1>0, <2>5, BeginInlineType
  <2> QED BY <1>1, <2>2, <2>3, <2>4, <2>5
<1> USE DEF TypeInv, TypeOK
<1>3. UsbTypeOK' BY <1>2 DEF ExchangeAndFlash, FlashTypes, UsbTypeOK
<1>4. DownloadTypeOK' BY DEF ExchangeAndFlash, ExchangeFlashAndUsbDataBuf, DownloadTypeOK
<1>5. MainTypeOK'
  BY <1>2 DEF ExchangeAndFlash, ExchangeFlashAndUsbDataBuf, FlashTypes, ReturnTypes, MainTypeOK
<1>6. FlashTypeOK' BY <1>2 DEF ExchangeAndFlash, FlashTypes, ReturnTypes, FlashTypeOK
<1>7. HostTypeOK' /\ HostInv' BY DEF ExchangeAndFlash, HostTypeOK, HostInv
<1> QED BY <1>3, <1>4, <1>5, <1>6, <1>7

\* Writing one unit of an image keeps the type of the medium.
LEMMA WrittenType ==
  ASSUME TypeInv, NEW j \in Job, part' = Written(j)
  PROVE  DOMAIN part' = Parts /\ \A p \in Parts : part'[p] \in [1..PartSize[p] -> Units]
<1>1. ReadUnit(j.buf, j.k + 1) \in Units
  <2>1. j.buf \in Buf /\ j.k + 1 \in Nat \ {0} BY DEF Job
  <2>2. MaxDownLoadSize \in Nat BY FastbootAssumption
  <2> QED BY <2>1, <2>2 DEF ReadUnit, Units, TypeInv, TypeOK, DownloadTypeOK
<1> QED BY <1>1 DEF Written, TypeInv, TypeOK, FlashTypeOK

\* The steps of a flash in the main loop keep the types.
LEMMA InlineType ==
  ASSUME TypeInv, InlineWrite \/ InlineDone \/ InlineFail
  PROVE  TypeInv'
<1> USE DEF TypeInv, TypeOK
<1>1. CASE InlineWrite
  <2>0. job \in Job BY DEF FlashTypeOK
  <2>1. job' \in Job BY <1>1, <2>0 DEF InlineWrite, Job
  <2>2. FlashTypeOK' BY <1>1, <2>0, <2>1, WrittenType DEF InlineWrite, FlashTypeOK
  <2>3. HostTypeOK' /\ HostInv' /\ UsbTypeOK' /\ DownloadTypeOK' /\ MainTypeOK'
    BY <1>1 DEF InlineWrite, HostTypeOK, HostInv, UsbTypeOK, DownloadTypeOK, MainTypeOK
  <2> QED BY <2>2, <2>3
<1>2. ASSUME NEW result \in {"ok", "err"}, EndInline(result) PROVE TypeInv'
  <2>1. tx' \in Seq(Responses)
    <3>1. Send(<<"OKAY">>) \/ Send(<<"FAIL">>) \/ UNCHANGED tx BY <1>2 DEF EndInline
    <3>2. tx \in Seq(Responses) BY DEF UsbTypeOK
    <3> QED BY <3>1, <3>2, SingleResponse, SendType DEF Responses
  <2>2. UsbTypeOK' BY <1>2, <2>1 DEF EndInline, UsbTypeOK
  <2>7. ReturnTypes' BY <1>2, ReturnType DEF EndInline
  <2>3. FlashTypeOK' BY <1>2, <2>7 DEF EndInline, ReturnTypes, FlashTypeOK
  <2>4. failed' \in BOOLEAN BY <1>2 DEF EndInline
  <2>8. (IsFlashComplete \in BOOLEAN /\ UsbTimer \in BOOLEAN /\ FlashResult \in {"ok", "err"})'
    BY <1>2 DEF EndInline, ResultAfter, MainTypeOK
  <2>9. UNCHANGED <<lockVars, okayDelay, deferred, cur>> BY <1>2 DEF EndInline
  <2>5. MainTypeOK' BY <2>4, <2>7, <2>8, <2>9 DEF ReturnTypes, MainTypeOK
  <2>6. HostTypeOK' /\ HostInv' /\ DownloadTypeOK'
    BY <1>2 DEF EndInline, HostTypeOK, HostInv, DownloadTypeOK
  <2> QED BY <2>2, <2>3, <2>5, <2>6
<1>3. CASE InlineDone BY <1>2, <1>3 DEF InlineDone
<1>4. CASE InlineFail BY <1>2, <1>4 DEF InlineFail
<1> QED BY <1>1, <1>3, <1>4

\* The steps of a flash thread keep the types.
LEMMA FlasherType ==
  ASSUME TypeInv, NEW t \in Threads, Flasher(t)
  PROVE  TypeInv'
<1> USE DEF TypeInv, TypeOK
<1>0. thr \in [Threads -> Job] /\ thr[t] \in Job BY DEF FlashTypeOK
<1>1. HostTypeOK' /\ HostInv' /\ UsbTypeOK' /\ DownloadTypeOK'
  BY DEF Flasher, ThreadAcquire, ThreadBegin, ThreadWrite, ThreadEnd,
         HostTypeOK, HostInv, UsbTypeOK, DownloadTypeOK
<1>2. MainTypeOK'
  <2>1. UNCHANGED <<FlashResult, lockDownload, timerVars, mainVars>>
    BY DEF Flasher, ThreadAcquire, ThreadBegin, ThreadWrite, ThreadEnd
  <2>2. (failed \in BOOLEAN /\ IsFlashComplete \in BOOLEAN /\ lockFlash \in Threads \cup {"free"})'
    BY DEF Flasher, ThreadAcquire, ThreadBegin, ThreadWrite, ThreadEnd, MainTypeOK
  <2> QED BY <2>1, <2>2 DEF MainTypeOK
<1>3. CASE ThreadAcquire(t)
  <2>1. thr' \in [Threads -> Job] BY <1>0, <1>3 DEF ThreadAcquire, Job
  <2> QED BY <1>1, <1>2, <1>3, <2>1 DEF ThreadAcquire, FlashTypeOK
<1>4. CASE ThreadBegin(t)
  <2>1. thr' \in [Threads -> Job] BY <1>0, <1>4 DEF ThreadBegin, Job
  <2> QED BY <1>1, <1>2, <1>4, <2>1 DEF ThreadBegin, FlashTypeOK
<1>5. CASE ThreadWrite(t)
  <2>1. thr' \in [Threads -> Job] BY <1>0, <1>5 DEF ThreadWrite, Job
  <2> QED BY <1>0, <1>1, <1>2, <1>5, <2>1, WrittenType DEF ThreadWrite, FlashTypeOK
<1>6. CASE ThreadEnd(t)
  <2>1. thr' \in [Threads -> Job] BY <1>0, <1>6, NoJobType DEF ThreadEnd
  <2> QED BY <1>1, <1>2, <1>6, <2>1 DEF ThreadEnd, FlashTypeOK
<1> QED BY <1>3, <1>4, <1>5, <1>6 DEF Flasher

\* The commands that wait for a flash, and getvar, keep the types.
LEMMA WaitingType ==
  ASSUME TypeInv, CmdErase \/ RebootDevice \/ CmdContinue \/ InfoSent \/ InfoOther
  PROVE  TypeInv'
<1> USE DEF TypeInv, TypeOK
<1>1. tx' \in Seq(Responses)
  <2>1. Send(<<"OKAY">>) \/ Send(<<"FAIL">>) \/ UNCHANGED tx
    BY DEF CmdErase, RebootDevice, CmdContinue, InfoSent, InfoOther
  <2>2. tx \in Seq(Responses) BY DEF UsbTypeOK
  <2> QED BY <2>1, <2>2, SingleResponse, SendType DEF Responses
<1>2. txDone' \in Nat BY DEF CmdErase, RebootDevice, CmdContinue, InfoSent, InfoOther, UsbTypeOK
<1>3. UsbTypeOK' BY <1>1, <1>2 DEF CmdErase, RebootDevice, CmdContinue, InfoSent, InfoOther, UsbTypeOK
<1>0. ReturnTypes' \/ (mpc' \in {mpc, "off"} /\ UNCHANGED <<job, inCallback, outer, overtaken>>)
  BY ReturnType DEF CmdErase, RebootDevice, CmdContinue, InfoSent, InfoOther
<1>4. MainTypeOK'
  BY <1>0 DEF CmdErase, RebootDevice, CmdContinue, InfoSent, InfoOther, ReturnTypes, MainTypeOK
<1>5. FlashTypeOK'
  <2>0. job' \in Job /\ outer' \in Job BY <1>0 DEF ReturnTypes, FlashTypeOK
  <2>1. CASE UNCHANGED part
    BY <2>0, <2>1 DEF CmdErase, RebootDevice, CmdContinue, InfoSent, InfoOther, FlashTypeOK
  <2>2. CASE part' = [part EXCEPT ![cur.part] = [u \in DOMAIN @ |-> Blank]]
    <3>1. ASSUME NEW p \in Parts PROVE part'[p] \in [1..PartSize[p] -> Units]
      BY <2>2 DEF FlashTypeOK, Units
    <3>2. DOMAIN part' = Parts BY <2>2 DEF FlashTypeOK
    <3> QED BY <2>0, <3>1, <3>2
            DEF CmdErase, RebootDevice, CmdContinue, InfoSent, InfoOther, FlashTypeOK
  <2> QED BY <2>1, <2>2 DEF CmdErase, RebootDevice, CmdContinue, InfoSent, InfoOther
<1>6. HostTypeOK' /\ HostInv' /\ DownloadTypeOK'
  BY DEF CmdErase, RebootDevice, CmdContinue, InfoSent, InfoOther, HostTypeOK, HostInv, DownloadTypeOK
<1> QED BY <1>3, <1>4, <1>5, <1>6

\* Every step keeps the types and what the host has under way.
LEMMA NextType == TypeInv /\ [Next]_vars => TypeInv'
<1> SUFFICES ASSUME TypeInv, [Next]_vars PROVE TypeInv' OBVIOUS
<1>1. CASE UNCHANGED vars
  BY <1>1 DEF vars, TypeInv, TypeOK, HostTypeOK, HostInv, UsbTypeOK, DownloadTypeOK,
              MainTypeOK, FlashTypeOK
<1>2. CASE Host BY <1>2, HostType
<1>3. CASE Device
  BY <1>3, EventsType, ExchangeAndFlashType, InlineType, WaitingType DEF Device
<1>4. CASE \E t \in Threads : Flasher(t) BY <1>4, FlasherType
<1>5. CASE Done BY <1>1, <1>5 DEF Done
<1> QED BY <1>1, <1>2, <1>3, <1>4, <1>5 DEF Next

\* Every variable keeps its type, whatever the host sends, fails or unplugs.
THEOREM Typed == Spec => []TypeOK
<1>1. Spec => []TypeInv BY InitType, NextType, PTL DEF Spec
<1>2. TypeInv => TypeOK BY DEF TypeInv
<1> QED BY <1>1, <1>2, PTL

-----------------------------------------------------------------------------
(***************************************************************************)
(* The locks.  LockDiscipline is inductive once it is known that only the  *)
(* version without threads puts commands off: AcceptCmdHandler could       *)
(* otherwise start a flash in the middle of a download.                    *)
(***************************************************************************)
DownloadLock ==
  /\ (lockDownload = "main") <=> (MThread /\ (mState = "Data" \/ mpc = "flash"))
  /\ MThread => ~(mState = "Data" /\ mpc = "flash")

\* With threads there is no timer, so no command runs inside a flash.
NoNesting == MThread => ~deferred /\ ~UsbTimer /\ outer = NoJob /\ ~overtaken

FlashLock == \A t \in Threads : (lockFlash = t) <=> (thr[t].st \in {"locked", "flash"})

LockInv == DownloadLock /\ NoNesting /\ FlashLock

\* No lock is held after FastbootInitialize.
LEMMA InitLock == Init => LockInv
BY FastbootAssumption DEF Init, LockInv, DownloadLock, NoNesting, FlashLock, NoJob

\* AcceptCmd takes LockDownload exactly when it starts a data phase or a flash.
LEMMA AcceptCmdLock ==
  ASSUME TypeInv, DownloadLock, NEW c \in Cmd, AcceptCmd(c), mpc # "flash",
         MThread => mState = "Cmd"
  PROVE  DownloadLock'
<1>1. CASE UNCHANGED <<tx, dlVars, lockDownload, mpc, cur>>
  BY <1>1 DEF DownloadLock
<1>2. CASE Dispatch(c)
  <2>1. CASE CmdDownload(c)
    BY <1>2, <2>1 DEF CmdDownload, DownloadLock, TypeInv, TypeOK, MainTypeOK
  <2>2. CASE c.op = "flash" /\ CmdFlash(c) BY <1>2, <2>2 DEF CmdFlash, DownloadLock
  <2>3. CASE mpc' # "flash" /\ UNCHANGED <<dlVars, lockDownload>>
    BY <1>2, <2>3 DEF DownloadLock
  <2> QED BY <1>2, <2>1, <2>2, <2>3
          DEF Dispatch, CmdGetVar, CmdGetVarAll, CmdReboot, CmdWait, CmdUnknown
<1>3. CASE Send(<<"FAIL">>) /\ UNCHANGED <<dlVars, lockDownload, mpc, cur>>
  BY <1>3 DEF DownloadLock
<1> QED BY <1>1, <1>2, <1>3 DEF AcceptCmd, PutOff

\* AcceptData releases LockDownload exactly at the last byte.
LEMMA AcceptDataLock ==
  ASSUME TypeInv, DownloadLock, AcceptData, mpc # "flash", mState = "Data"
  PROVE  DownloadLock'
BY DEF AcceptData, DownloadLock, TypeInv, TypeOK, MainTypeOK

\* No step of the main loop or of a timer breaks the discipline of LockDownload.
LEMMA DeviceDownloadLock ==
  ASSUME TypeInv, LockInv, Device
  PROVE  DownloadLock'
<1> USE DEF LockInv
<1>0. gRx \in Cmd BY DEF TypeInv, TypeOK, UsbTypeOK
<1>1. CASE ProcessBulkXfrCompleteRx
  <2>1. mpc # "flash" BY <1>1 DEF ProcessBulkXfrCompleteRx, CanPoll
  <2> QED BY <1>0, <1>1, <2>1, AcceptCmdLock, AcceptDataLock DEF ProcessBulkXfrCompleteRx
<1>2. CASE AcceptCmdHandler
  BY <1>0, <1>2, AcceptCmdLock DEF AcceptCmdHandler, CanCallback, NoNesting
<1>3. CASE ExchangeAndFlash
  <2>1. mpc' \in {"loop", "inline"}
    BY <1>3 DEF ExchangeAndFlash, FinishFlashCmd, FlashParallel, ResumeThread, BeginInline, Return
  <2>2. /\ lockDownload' = IF MThread THEN "free" ELSE lockDownload
        /\ mState' = mState /\ mpc = "flash"
    BY <1>3 DEF ExchangeAndFlash, ExchangeFlashAndUsbDataBuf
  <2> QED BY <2>1, <2>2 DEF DownloadLock
<1>4. CASE HandleConnected \/ ProcessBulkXfrCompleteTx \/ FlashCompleteHandler \/ InlineWrite
  BY <1>4 DEF HandleConnected, ProcessBulkXfrCompleteTx, FlashCompleteHandler, InlineWrite, DownloadLock
<1>5. CASE InlineDone \/ InlineFail
  <2>1. mpc = "inline" /\ mpc' # "flash" /\ UNCHANGED <<lockDownload, mState>>
    BY <1>5 DEF InlineDone, InlineFail, EndInline, Return
  <2> QED BY <2>1 DEF DownloadLock
<1>6. CASE CmdErase \/ RebootDevice \/ CmdContinue \/ InfoSent \/ InfoOther
  BY <1>6 DEF CmdErase, RebootDevice, CmdContinue, InfoSent, InfoOther, Return, DownloadLock
<1> QED BY <1>1, <1>2, <1>3, <1>4, <1>5, <1>6 DEF Device

\* With threads every command starts from the main loop, and returns to it.
LEMMA DeviceNoNesting ==
  ASSUME TypeInv, LockInv, Device
  PROVE  NoNesting'
<1> SUFFICES ASSUME MThread PROVE (~deferred /\ ~UsbTimer /\ outer = NoJob /\ ~overtaken)'
  BY DEF NoNesting
<1>0. ~deferred /\ ~UsbTimer /\ outer = NoJob /\ ~overtaken BY DEF LockInv, NoNesting
<1>1. CASE ProcessBulkXfrCompleteRx
  <2>1. mpc = "loop" BY <1>0, <1>1 DEF ProcessBulkXfrCompleteRx, CanPoll
  <2>2. ASSUME AcceptCmd(gRx) PROVE (~deferred /\ ~UsbTimer /\ outer = NoJob /\ ~overtaken)'
    BY <1>0, <2>1, <2>2 DEF AcceptCmd, PutOff, MustDefer
  <2> QED BY <1>0, <1>1, <2>2 DEF ProcessBulkXfrCompleteRx, AcceptData
<1>2. CASE ExchangeAndFlash
  <2>1. ~deferred' /\ ~overtaken' /\ ~UsbTimer' /\ outer' = NoJob
    BY <1>0, <1>2 DEF ExchangeAndFlash, FinishFlashCmd, FlashParallel, ResumeThread, BeginInline, Return
  <2> QED BY <2>1
<1>3. CASE HandleConnected \/ ProcessBulkXfrCompleteTx \/ FlashCompleteHandler \/ InlineWrite
             \/ AcceptCmdHandler
  BY <1>0, <1>3 DEF HandleConnected, ProcessBulkXfrCompleteTx, FlashCompleteHandler, InlineWrite,
     AcceptCmdHandler
<1>4. CASE InlineDone \/ InlineFail
  <2>1. /\ UsbTimer' = IF job.sparse THEN FALSE ELSE UsbTimer
        /\ deferred' = deferred /\ overtaken' = overtaken /\ outer' = NoJob
    BY <1>4 DEF InlineDone, InlineFail, EndInline, Return
  <2> QED BY <1>0, <2>1
<1>5. CASE CmdErase \/ RebootDevice \/ CmdContinue \/ InfoSent \/ InfoOther
  <2>1. UNCHANGED timerVars /\ (Return \/ UNCHANGED <<outer, overtaken>>)
    BY <1>5 DEF CmdErase, RebootDevice, CmdContinue, InfoSent, InfoOther
  <2> QED BY <1>0, <2>1 DEF Return
<1> QED BY <1>1, <1>2, <1>3, <1>4, <1>5 DEF Device

\* A thread just created holds no lock unless it ran at once.
LEMMA ResumeThreadLock ==
  ASSUME TypeInv, FlashLock, NEW b \in Buf, NEW t \in Threads, ResumeThread(t, b),
         lockFlash = "free"
  PROVE  FlashLock'
<1>0. thr \in [Threads -> Job] BY DEF TypeInv, TypeOK, FlashTypeOK
<1>1. thr'[t].st = IF StartAtResume THEN "flash" ELSE "ready"
  BY <1>0 DEF ResumeThread, NewJob
<1>2. \A s \in Threads \ {t} : thr'[s] = thr[s] BY <1>0 DEF ResumeThread
<1>3. lockFlash' = IF StartAtResume THEN t ELSE "free" BY DEF ResumeThread
<1>4. \A s \in Threads : thr[s].st \notin {"locked", "flash"}
  BY FastbootAssumption DEF FlashLock
<1> QED BY <1>1, <1>2, <1>3, <1>4, FastbootAssumption DEF FlashLock

\* The main loop changes LockFlash only by resuming a thread that takes it.
LEMMA DeviceFlashLock ==
  ASSUME TypeInv, LockInv, Device
  PROVE  FlashLock'
<1> USE DEF LockInv
<1>1. CASE ExchangeAndFlash
  <2>0. mUsbDataBuffer \in Buf BY DEF TypeInv, TypeOK, DownloadTypeOK
  <2>1. CASE MThread /\ \E t \in Threads : ResumeThread(t, mUsbDataBuffer)
    BY <1>1, <2>0, <2>1, ResumeThreadLock DEF ExchangeAndFlash, ExchangeFlashAndUsbDataBuf
  <2>2. CASE UNCHANGED <<thr, lockFlash>> BY <2>2 DEF FlashLock
  <2> QED BY <1>1, <2>1, <2>2 DEF ExchangeAndFlash, FinishFlashCmd, FlashParallel, BeginInline
<1>2. CASE UNCHANGED <<thr, lockFlash>> BY <1>2 DEF FlashLock
<1> QED BY <1>1, <1>2
   DEF Device, HandleConnected, ProcessBulkXfrCompleteTx, ProcessBulkXfrCompleteRx,
       AcceptCmdHandler, FlashCompleteHandler, InlineWrite, InlineDone, InlineFail,
       EndInline, CmdErase, RebootDevice, CmdContinue, InfoSent, InfoOther

\* A flash thread takes LockFlash when it is free and gives back only its own.
LEMMA FlasherLock ==
  ASSUME TypeInv, LockInv, NEW t \in Threads, Flasher(t)
  PROVE  LockInv'
<1> USE DEF LockInv
<1>0. thr \in [Threads -> Job] BY DEF TypeInv, TypeOK, FlashTypeOK
<1>1. DownloadLock' /\ NoNesting'
  BY DEF Flasher, ThreadAcquire, ThreadBegin, ThreadWrite, ThreadEnd, DownloadLock, NoNesting
<1>2. \A s \in Threads \ {t} : thr'[s] = thr[s]
  BY <1>0 DEF Flasher, ThreadAcquire, ThreadBegin, ThreadWrite, ThreadEnd
<1>3. CASE ThreadAcquire(t)
  <2>1. thr'[t].st = "locked" BY <1>0, <1>3 DEF ThreadAcquire, Job
  <2> QED BY <1>1, <1>2, <1>3, <2>1, FastbootAssumption DEF ThreadAcquire, FlashLock
<1>4. CASE ThreadBegin(t)
  <2>1. thr'[t].st = "flash" BY <1>0, <1>4 DEF ThreadBegin, Job
  <2> QED BY <1>1, <1>2, <1>4, <2>1 DEF ThreadBegin, FlashLock
<1>5. CASE ThreadWrite(t)
  <2>1. thr'[t].st = thr[t].st BY <1>0, <1>5 DEF ThreadWrite, Job
  <2> QED BY <1>1, <1>2, <1>5, <2>1 DEF ThreadWrite, FlashLock
<1>6. CASE ThreadEnd(t)
  <2>1. thr'[t].st = "none" BY <1>0, <1>6 DEF ThreadEnd, NoJob
  <2> QED BY <1>1, <1>2, <1>6, <2>1, FastbootAssumption DEF ThreadEnd, FlashLock
<1> QED BY <1>3, <1>4, <1>5, <1>6 DEF Flasher

\* Every step keeps the lock discipline.
LEMMA NextLock == TypeInv /\ LockInv /\ [Next]_vars => LockInv'
<1> SUFFICES ASSUME TypeInv, LockInv, [Next]_vars PROVE LockInv' OBVIOUS
<1>1. CASE UNCHANGED <<lockVars, dlVars, timerVars, mainVars, thr>>
  BY <1>1 DEF LockInv, DownloadLock, NoNesting, FlashLock
<1>2. CASE Host
  BY <1>1, <1>2 DEF Host, HostSend, HostSendData, HostRecv, Disconnect, Reconnect
<1>3. CASE Device
  BY <1>3, DeviceDownloadLock, DeviceNoNesting, DeviceFlashLock DEF LockInv
<1>4. CASE \E t \in Threads : Flasher(t) BY <1>4, FlasherLock
<1>5. CASE Done \/ UNCHANGED vars BY <1>1, <1>5 DEF Done, vars
<1> QED BY <1>2, <1>3, <1>4, <1>5 DEF Next

\* The locks are never asked for by a holder, are taken in one order, and
\* exclude each other's threads, also across disconnects and late threads.
THEOREM LocksDisciplined == Spec => []LockDiscipline
<1>1. Spec => [](TypeInv /\ LockInv)
  BY InitType, NextType, InitLock, NextLock, PTL DEF Spec
<1>2. LockInv => LockDiscipline BY DEF LockInv, DownloadLock, FlashLock, LockDiscipline
<1> QED BY <1>1, <1>2, PTL

-----------------------------------------------------------------------------
(***************************************************************************)
(* Bounds of the receives, in the build with threads.  Without them a      *)
(* command that was put off before a disconnect may run AcceptCmd in the   *)
(* middle of a later data phase, and does change mNumDataBytes there.      *)
(***************************************************************************)
BoundsInv == TypeInv /\ LockInv /\ ReceiveInBounds

\* AcceptCmd starts a data phase only for a size that fits the buffer.
LEMMA AcceptBounds ==
  ASSUME BoundsInv, NEW c \in Cmd, AcceptCmd(c), mState = "Cmd", UNCHANGED rx
  PROVE  ReceiveInBounds'
<1> USE DEF BoundsInv, ReceiveInBounds
<1>1. CASE CmdDownload(c)
  <2>1. c.n \in Nat /\ MaxDownLoadSize \in Nat BY FastbootAssumption DEF Cmd
  <2> QED BY <1>1, <2>1 DEF CmdDownload, BadSize
<1>2. CASE UNCHANGED dlVars BY <1>2
<1> QED BY <1>1, <1>2
   DEF AcceptCmd, PutOff, Dispatch, CmdFlash, CmdGetVar, CmdGetVarAll, CmdReboot, CmdWait, CmdUnknown

\* With threads every step keeps the receives in bounds.
LEMMA NextBounds == MThread /\ BoundsInv /\ [Next]_vars => ReceiveInBounds'
<1> SUFFICES ASSUME MThread, BoundsInv, [Next]_vars PROVE ReceiveInBounds' OBVIOUS
<1>0. /\ TypeInv /\ LockInv /\ ReceiveInBounds /\ rx \in Receive /\ gRx \in Cmd
      /\ mBytesReceivedSoFar \in Nat /\ mNumDataBytes \in Nat
      /\ MaxDownLoadSize \in Nat \ {0}
  BY FastbootAssumption DEF BoundsInv, TypeInv, TypeOK, UsbTypeOK, DownloadTypeOK
<1>1. CASE rx'.off = rx.off /\ UNCHANGED dlVars BY <1>0, <1>1 DEF ReceiveInBounds
<1>2. CASE Host
  <2>1. rx'.off = rx.off
    BY <1>0, <1>2 DEF Host, HostSend, HostSendData, HostRecv, Disconnect, Reconnect, Receive
  <2> QED BY <1>1, <1>2, <2>1 DEF Host, HostSend, HostSendData, HostRecv, Disconnect, Reconnect
<1>3. CASE HandleConnected \/ ProcessBulkXfrCompleteTx
  BY <1>0, <1>3 DEF HandleConnected, ProcessBulkXfrCompleteTx, ReceiveInBounds
<1>4. CASE ProcessBulkXfrCompleteRx
  <2>1. CASE mState = "Cmd" /\ AcceptCmd(gRx) /\ UNCHANGED <<rx, okayDelay>>
    BY <1>0, <2>1, AcceptBounds
  <2>2. CASE mState = "Data" /\ AcceptData
    BY <1>0, <2>2 DEF AcceptData, ReceiveInBounds
  <2> QED BY <1>4, <2>1, <2>2 DEF ProcessBulkXfrCompleteRx
<1>5. CASE AcceptCmdHandler BY <1>0, <1>5 DEF AcceptCmdHandler, LockInv, NoNesting
<1>6. CASE FlashCompleteHandler \/ ExchangeAndFlash \/ InlineWrite \/ InlineDone \/ InlineFail
             \/ CmdErase \/ RebootDevice \/ CmdContinue \/ InfoSent \/ InfoOther
  BY <1>1, <1>6 DEF FlashCompleteHandler, ExchangeAndFlash, InlineWrite, InlineDone, InlineFail,
     EndInline, CmdErase, RebootDevice, CmdContinue, InfoSent, InfoOther
<1>7. CASE \E t \in Threads : Flasher(t)
  BY <1>1, <1>7 DEF Flasher, ThreadAcquire, ThreadBegin, ThreadWrite, ThreadEnd
<1>8. CASE Done \/ UNCHANGED vars BY <1>1, <1>8 DEF Done, vars
<1> QED BY <1>2, <1>3, <1>4, <1>5, <1>6, <1>7, <1>8 DEF Next, Device

\* With threads, no receive is ever queued past a half of the download buffer.
THEOREM ReceivesInBounds == ASSUME MThread PROVE Spec => []ReceiveInBounds
<1>1. Init => BoundsInv
  BY InitType, InitLock, FastbootAssumption DEF Init, BoundsInv, ReceiveInBounds
<1>2. BoundsInv /\ [Next]_vars => BoundsInv' BY NextType, NextLock, NextBounds DEF BoundsInv
<1>3. BoundsInv => ReceiveInBounds BY DEF BoundsInv
<1> QED BY <1>1, <1>2, <1>3, PTL DEF Spec

-----------------------------------------------------------------------------
(***************************************************************************)
(* WaitForFlashFinished, when a thread runs as soon as it is resumed.  It  *)
(* reads IsFlashComplete without a lock, so the argument is that every     *)
(* thread that exists is past AcquireLock and IsFlashComplete = FALSE, and *)
(* that nobody else sets IsFlashComplete meanwhile: the main loop flashes  *)
(* a sparse image inline only while no thread does.                        *)
(***************************************************************************)
\* A thread, where there are threads, runs when it is resumed.
EagerThreads == MThread => StartAtResume

EagerInv ==
  /\ \A t \in Threads : thr[t].st # "none" =>
       /\ MThread /\ thr[t].st = "flash"
       /\ ~IsFlashComplete /\ mpc # "inline"
  /\ mpc = "inline" /\ MThread => lockFlash = "free"

WaitInv == TypeInv /\ LockInv /\ EagerInv

\* When every resumed thread has run, IsFlashComplete tells the truth.
LEMMA EagerFinished == ASSUME WaitInv, FlashFinished PROVE ActiveThreads = {}
<1> SUFFICES ASSUME NEW t \in Threads, thr[t].st # "none" PROVE FALSE
  BY DEF ActiveThreads
<1>1. MThread /\ thr[t].st = "flash" /\ ~IsFlashComplete BY DEF WaitInv, EagerInv
<1>2. lockFlash = t BY <1>1 DEF WaitInv, LockInv, FlashLock
<1> QED BY <1>1, <1>2, FastbootAssumption DEF FlashFinished

\* If ThreadResume runs the thread at once, every step keeps EagerInv.
LEMMA NextEager == EagerThreads /\ WaitInv /\ [Next]_vars => EagerInv'
<1> SUFFICES ASSUME EagerThreads, WaitInv, [Next]_vars PROVE EagerInv' OBVIOUS
<1> USE DEF WaitInv
<1>0. thr \in [Threads -> Job] BY DEF TypeInv, TypeOK, FlashTypeOK
<1>9. Return => ~MThread \/ mpc' = "loop" BY DEF LockInv, NoNesting, Return, NoJob
<1>1. CASE /\ UNCHANGED <<thr, lockFlash, IsFlashComplete>>
           /\ ~MThread \/ mpc' # "inline" \/ mpc' = mpc
  BY <1>1 DEF EagerInv
<1>2. CASE Host
  BY <1>1, <1>2 DEF Host, HostSend, HostSendData, HostRecv, Disconnect, Reconnect
<1>3. CASE HandleConnected \/ ProcessBulkXfrCompleteTx \/ FlashCompleteHandler
             \/ InlineWrite \/ CmdErase \/ RebootDevice \/ CmdContinue \/ InfoSent \/ InfoOther
  BY <1>1, <1>3, <1>9 DEF HandleConnected, ProcessBulkXfrCompleteTx, FlashCompleteHandler,
     InlineWrite, CmdErase, RebootDevice, CmdContinue, InfoSent, InfoOther
<1>4. CASE ProcessBulkXfrCompleteRx \/ AcceptCmdHandler
  <2>1. UNCHANGED <<thr, lockFlash, IsFlashComplete>>
    BY <1>4 DEF ProcessBulkXfrCompleteRx, AcceptCmdHandler
  <2>2. ASSUME NEW c, AcceptCmd(c) PROVE mpc' # "inline" \/ mpc' = mpc
    BY <2>2 DEF AcceptCmd, PutOff, Dispatch, CmdDownload, CmdFlash, CmdGetVar, CmdGetVarAll,
       CmdReboot, CmdWait, CmdUnknown
  <2>3. AcceptData => mpc' = mpc BY DEF AcceptData
  <2> QED BY <1>1, <1>4, <2>1, <2>2, <2>3 DEF ProcessBulkXfrCompleteRx, AcceptCmdHandler
<1>5. CASE InlineDone \/ InlineFail
  <2>1. /\ mpc = "inline" /\ (~MThread \/ mpc' = "loop")
        /\ UNCHANGED <<thr, lockFlash>>
    BY <1>5, <1>9 DEF InlineDone, InlineFail, EndInline
  <2> QED BY <2>1 DEF EagerInv
<1>6. CASE ExchangeAndFlash
  <2>1. mpc = "flash" /\ (MThread => lockFlash = "free")
    BY <1>6 DEF ExchangeAndFlash, ExchangeFlashAndUsbDataBuf
  <2>2. \A t \in Threads : thr[t].st = "none"
    BY <2>1, FastbootAssumption DEF EagerInv, LockInv, FlashLock
  <2>3. CASE MThread /\ \E t \in Threads : ResumeThread(t, mUsbDataBuffer)
    <3>1. PICK t \in Threads : ResumeThread(t, mUsbDataBuffer) BY <2>3
    <3>2. thr'[t].st = "flash" /\ \A s \in Threads \ {t} : thr'[s] = thr[s]
      BY <1>0, <2>3, <3>1 DEF ResumeThread, NewJob, EagerThreads
    <3>3. mpc' = "loop" BY <1>9, <2>3, <3>1 DEF ResumeThread
    <3> QED BY <2>2, <2>3, <3>1, <3>2, <3>3 DEF ResumeThread, EagerInv, EagerThreads
  <2>4. CASE UNCHANGED <<thr, lockFlash>> BY <2>1, <2>2, <2>4 DEF EagerInv
  <2> QED BY <1>6, <2>3, <2>4 DEF ExchangeAndFlash, FinishFlashCmd, FlashParallel, BeginInline
<1>7. ASSUME NEW t \in Threads, Flasher(t) PROVE EagerInv'
  <2>1. \A s \in Threads \ {t} : thr'[s] = thr[s]
    BY <1>0, <1>7 DEF Flasher, ThreadAcquire, ThreadBegin, ThreadWrite, ThreadEnd
  <2>2. thr[t].st = "flash"
    BY <1>7 DEF Flasher, ThreadAcquire, ThreadBegin, ThreadWrite, ThreadEnd, CanWrite, EagerInv
  <2>3. \A s \in Threads \ {t} : thr[s].st = "none"
    BY <2>2, FastbootAssumption DEF EagerInv, LockInv, FlashLock
  <2>4. CASE ThreadWrite(t)
    <3>1. thr'[t].st = thr[t].st BY <1>0, <2>4 DEF ThreadWrite, Job
    <3> QED BY <2>1, <2>4, <3>1 DEF ThreadWrite, EagerInv
  <2>5. CASE ThreadEnd(t)
    <3>1. thr'[t].st = "none" BY <1>0, <2>5 DEF ThreadEnd, NoJob
    <3> QED BY <2>1, <2>3, <2>5, <3>1 DEF ThreadEnd, EagerInv
  <2> QED BY <1>7, <2>2, <2>4, <2>5 DEF Flasher, ThreadAcquire, ThreadBegin
<1>8. CASE Done \/ UNCHANGED vars BY <1>1, <1>8 DEF Done, vars
<1> QED BY <1>2, <1>3, <1>4, <1>5, <1>6, <1>7, <1>8 DEF Next, Device

\* With threads, a reset, an erase or a boot never overtakes a flash when a
\* thread that is resumed runs at once (WaitForFlashFinished).
THEOREM WaitsForFlashEager == ASSUME MThread, StartAtResume PROVE Spec => WaitsForFlash
<1>0. EagerThreads BY DEF EagerThreads
<1>1. Init => WaitInv
  <2>1. Init => EagerInv BY DEF Init, EagerInv, NoJob
  <2> QED BY <2>1, InitType, InitLock DEF WaitInv
<1>2. WaitInv /\ [Next]_vars => WaitInv' BY <1>0, NextType, NextLock, NextEager DEF WaitInv
<1>3. ASSUME WaitInv, [Next]_vars, mpc \in {"erase", "reboot", "continue"}, mpc' # mpc
      PROVE  ActiveThreads = {} /\ outer.st = "none"
  <2>1. FlashFinished
    <3>1. CmdErase \/ RebootDevice \/ CmdContinue
      BY <1>3 DEF Next, Host, HostSend, HostSendData, HostRecv, Disconnect, Reconnect,
         Device, HandleConnected, ProcessBulkXfrCompleteTx, ProcessBulkXfrCompleteRx, CanPoll,
         AcceptCmdHandler, CanCallback, FlashCompleteHandler, ExchangeAndFlash, InlineWrite, InlineDone,
         InlineFail, InfoSent, InfoOther, Flasher, ThreadAcquire, ThreadBegin, ThreadWrite, ThreadEnd,
         Done, vars
    <3> QED BY <3>1 DEF CmdErase, RebootDevice, CmdContinue
  <2>2. outer.st = "none" BY <1>3 DEF WaitInv, LockInv, NoNesting, NoJob
  <2> QED BY <1>3, <2>1, <2>2, EagerFinished
<1>4. WaitInv /\ [Next]_vars =>
        [(mpc \in {"erase", "reboot", "continue"} /\ mpc' # mpc)
           => (ActiveThreads = {} /\ outer.st = "none")]_vars
  BY <1>3
<1> QED BY <1>1, <1>2, <1>4, PTL DEF Spec, WaitsForFlash

-----------------------------------------------------------------------------
(***************************************************************************)
(* One transfer in the air.  The main loop, the timers and the host each   *)
(* wait for the other, so InStep is inductive only together with where     *)
(* that one transfer may be in each state of the state machine (PlaceInv), *)
(* and with when the USB timer runs (TimerInv): a command reaches the main *)
(* loop in the middle of a flash only when the host has the answer to that *)
(* flash.                                                                  *)
(***************************************************************************)
\* What makes the code answer every command exactly once: the cable stays in,
\* there is memory for a FlashInfo (CmdFlash returns silently without), no meta
\* image names a locked critical partition (two answers), and no partition has
\* exactly the size of a half (a sparse image for it is never answered).
AlwaysAnswers ==
  /\ MaxDrops = 0 /\ ~PoolMayFail /\ CritMetaImages = {}
  /\ \A p \in Parts : PartSize[p] # MaxDownLoadSize

\* Exactly one of eight.
One(e, o, r, t, d, f, k, w) ==
  \/ e /\ ~o /\ ~r /\ ~t /\ ~d /\ ~f /\ ~k /\ ~w
  \/ ~e /\ o /\ ~r /\ ~t /\ ~d /\ ~f /\ ~k /\ ~w
  \/ ~e /\ ~o /\ r /\ ~t /\ ~d /\ ~f /\ ~k /\ ~w
  \/ ~e /\ ~o /\ ~r /\ t /\ ~d /\ ~f /\ ~k /\ ~w
  \/ ~e /\ ~o /\ ~r /\ ~t /\ d /\ ~f /\ ~k /\ ~w
  \/ ~e /\ ~o /\ ~r /\ ~t /\ ~d /\ f /\ ~k /\ ~w
  \/ ~e /\ ~o /\ ~r /\ ~t /\ ~d /\ ~f /\ k /\ ~w
  \/ ~e /\ ~o /\ ~r /\ ~t /\ ~d /\ ~f /\ ~k /\ w

\* Tokens = 1, for the provers: one place holds the transfer, the others nothing.
OneInAir ==
  /\ Len(tx) \in {0, 1} /\ txDone \in {0, 1}
  /\ One(evConnect, rx.on, rxDone, tx # <<>>, txDone = 1, deferred, okayDelay, Owes)

\* Where the one transfer is says what the state machine is doing.
PlaceInv ==
  /\ connected
  /\ deferred \/ okayDelay \/ Owes \/ evConnect => mState = "Cmd"
  /\ mState = "Data" /\ (tx # <<>> \/ txDone > 0) => mBytesReceivedSoFar = 0
  /\ mpc = "info" => tx # <<>> \/ txDone > 0

\* The USB timer runs only beside a flash the host has its answer to; so does
\* every callback, and a command that interrupts such a flash overtakes it.
TimerInv ==
  /\ UsbTimer => /\ ~MThread /\ ~IsFlashComplete
                 /\ mpc = "inline" /\ job.early /\ job.sparse
  /\ mpc = "inline" => job.part \in Parts
  /\ \A t \in Threads : thr[t].st # "none" => MThread
  /\ outer.st # "none" => overtaken /\ outer.early /\ outer.part \in Parts
  /\ mpc = "inline" /\ job.early => overtaken \/ (~MThread /\ ~IsFlashComplete)

\* InStep and what makes it inductive.
StepInv == OneInAir /\ RxMatchesState /\ ReceiveInBounds /\ PlaceInv /\ TimerInv

\* OneInAir is OneAnswer: the eight places add up to one.
LEMMA StepInStep == ASSUME TypeInv, StepInv PROVE InStep
<1>0. /\ evConnect \in BOOLEAN /\ rx \in Receive /\ rxDone \in BOOLEAN /\ tx \in Seq(Responses)
      /\ deferred \in BOOLEAN /\ okayDelay \in BOOLEAN
  BY DEF TypeInv, TypeOK, UsbTypeOK, MainTypeOK
<1>1. Owes \in BOOLEAN /\ rx.on \in BOOLEAN BY <1>0 DEF Owes, Receive
<1>2. tx # <<>> <=> Len(tx) # 0 BY <1>0
<1>3. One(evConnect, rx.on, rxDone, Len(tx) # 0, txDone = 1, deferred, okayDelay, Owes)
  BY <1>2 DEF StepInv, OneInAir, One
<1>4. Len(tx) \in {0, 1} /\ txDone \in {0, 1} BY DEF StepInv, OneInAir
<1>5. Tokens = 1
  <2>1. CASE evConnect BY <1>0, <1>1, <1>3, <1>4, <2>1 DEF One, Count, Tokens
  <2>2. CASE rx.on BY <1>0, <1>1, <1>3, <1>4, <2>2 DEF One, Count, Tokens
  <2>3. CASE rxDone BY <1>0, <1>1, <1>3, <1>4, <2>3 DEF One, Count, Tokens
  <2>4. CASE Len(tx) # 0
    <3>1. Len(tx) = 1 /\ txDone = 0 BY <1>3, <1>4, <2>4 DEF One
    <3>2. ~evConnect /\ ~rx.on /\ ~rxDone /\ ~deferred /\ ~okayDelay /\ ~Owes
      BY <1>3, <2>4 DEF One
    <3> QED BY <3>1, <3>2 DEF Count, Tokens
  <2>5. CASE txDone = 1 BY <1>0, <1>1, <1>3, <1>4, <2>5 DEF One, Count, Tokens
  <2>6. CASE deferred BY <1>0, <1>1, <1>3, <1>4, <2>6 DEF One, Count, Tokens
  <2>7. CASE okayDelay BY <1>0, <1>1, <1>3, <1>4, <2>7 DEF One, Count, Tokens
  <2>8. CASE Owes BY <1>0, <1>1, <1>3, <1>4, <2>8 DEF One, Count, Tokens
  <2> QED BY <1>3, <2>1, <2>2, <2>3, <2>4, <2>5, <2>6, <2>7, <2>8 DEF One
<1> QED BY <1>5 DEF InStep, OneAnswer, StepInv

\* FastbootAck on an idle line puts its response there alone.
LEMMA SendOne ==
  ASSUME connected, tx = <<>>, NEW r \in Responses, Send(<<r>>)
  PROVE  tx' = <<r>> /\ tx' # <<>> /\ Len(tx') = 1 /\ Head(tx') = r
<1>1. <<>> \o <<r>> = <<r>> OBVIOUS
<1> QED BY <1>1 DEF Send

\* The host takes the one response there is.
LEMMA RecvOne ==
  ASSUME NEW s \in Seq(Responses), Len(s) = 1
  PROVE  s # <<>> /\ Tail(s) = <<>>
<1>1. Len(Tail(s)) = 0 OBVIOUS
<1>2. Tail(s) \in Seq(Responses) OBVIOUS
<1>3. ASSUME NEW q \in Seq(Responses), Len(q) = 0 PROVE q = <<>> BY <1>3
<1>4. s # <<>> OBVIOUS
<1> QED BY <1>1, <1>2, <1>3, <1>4

\* The one transfer in the air rules out all others.
LEMMA Alone ==
  ASSUME OneInAir
  PROVE  /\ evConnect => ~rx.on /\ ~rxDone /\ tx = <<>> /\ txDone = 0 /\ ~deferred /\ ~okayDelay /\ ~Owes
         /\ rx.on => ~evConnect /\ ~rxDone /\ tx = <<>> /\ txDone = 0 /\ ~deferred /\ ~okayDelay /\ ~Owes
         /\ rxDone => ~evConnect /\ ~rx.on /\ tx = <<>> /\ txDone = 0 /\ ~deferred /\ ~okayDelay /\ ~Owes
         /\ tx # <<>> => ~evConnect /\ ~rx.on /\ ~rxDone /\ txDone = 0 /\ ~deferred /\ ~okayDelay /\ ~Owes
         /\ txDone # 0 => ~evConnect /\ ~rx.on /\ ~rxDone /\ tx = <<>> /\ ~deferred /\ ~okayDelay /\ ~Owes
         /\ deferred => ~evConnect /\ ~rx.on /\ ~rxDone /\ tx = <<>> /\ txDone = 0 /\ ~okayDelay /\ ~Owes
         /\ okayDelay => ~evConnect /\ ~rx.on /\ ~rxDone /\ tx = <<>> /\ txDone = 0 /\ ~deferred /\ ~Owes
         /\ Owes => ~evConnect /\ ~rx.on /\ ~rxDone /\ tx = <<>> /\ txDone = 0 /\ ~deferred /\ ~okayDelay
BY DEF OneInAir, One

\* A command that is answered falls into no flash but one it should have waited for.
LEMMA InterruptOvertakes ==
  ASSUME TimerInv, ~Owes, NEW c \in Cmd, AcceptCmd(c), mpc = "inline", mpc' # "inline"
  PROVE  /\ outer' = job /\ overtaken' /\ job.early /\ job.part \in Parts
         /\ c.op # "download"
<1>1. job.early /\ job.part \in Parts BY DEF Owes, TimerInv
<1>2. overtaken \/ (~MThread /\ ~IsFlashComplete) BY <1>1 DEF TimerInv
<1>3. c.op # "download" BY DEF AcceptCmd, PutOff, Dispatch, CmdDownload
<1>4. MustDefer(c) \/ overtaken BY <1>2, <1>3 DEF MustDefer
<1>5. outer' = job /\ overtaken' = (overtaken \/ MustDefer(c)) BY DEF AcceptCmd
<1> QED BY <1>1, <1>3, <1>4, <1>5

\* A command that ends goes back to the main loop or to a flash that is answered.
LEMMA ReturnTimer ==
  ASSUME TimerInv, Return, ~UsbTimer', \A t \in Threads : thr'[t].st # "none" => MThread
  PROVE  TimerInv' /\ ~Owes' /\ mpc' \in {"loop", "inline"} /\ (mpc' = "inline" => overtaken')
BY DEF TimerInv, Return, Owes, NoJob

\* A command reaches a device whose line is idle: AcceptCmd leaves one
\* response, one command put off, or one command under way.
LEMMA AcceptCmdStep ==
  ASSUME TypeInv, PlaceInv, TimerInv, ReceiveInBounds,
         NEW c \in Cmd, AcceptCmd(c), mpc \in {"loop", "inline"}, mState = "Cmd",
         ~evConnect, ~rx.on, tx = <<>>, txDone = 0, ~okayDelay, ~Owes, rxDone' = FALSE,
         UNCHANGED <<evConnect, rx, txDone, okayDelay, connected, IsFlashComplete,
                     thr, mUsbDataBuffer>>
  PROVE  StepInv'
<1>0. connected /\ MaxDownLoadSize \in Nat /\ c.n \in Nat
  BY FastbootAssumption DEF PlaceInv, Cmd
<1>7. mpc' = mpc => UNCHANGED <<job, outer, overtaken>> BY DEF AcceptCmd
<1>8. ASSUME mpc' = mpc, UsbTimer' => UsbTimer PROVE TimerInv' /\ ~Owes'
  BY <1>7, <1>8 DEF TimerInv, Owes
<1>9. ASSUME mpc' # mpc, mpc' # "inline", UsbTimer' = FALSE PROVE TimerInv'
  <2>1. CASE mpc = "loop"
    <3>1. UNCHANGED <<job, outer, overtaken>> BY <2>1 DEF AcceptCmd
    <3> QED BY <1>9, <2>1, <3>1 DEF TimerInv
  <2>2. CASE mpc = "inline" BY <1>9, <2>2, InterruptOvertakes DEF TimerInv
  <2> QED BY <2>1, <2>2
<1>1. ASSUME NEW r \in Responses, Send(<<r>>) PROVE tx' = <<r>> /\ tx' # <<>> /\ Len(tx') = 1
  BY <1>0, <1>1, SendOne
<1>2. CASE PutOff(c) /\ UsbTimer' = FALSE
  <2>1. TimerInv' /\ ~Owes' BY <1>2, <1>8 DEF PutOff
  <2>2. OneInAir' BY <1>2, <2>1 DEF PutOff, OneInAir, One
  <2>3. RxMatchesState' /\ ReceiveInBounds' BY <1>2 DEF PutOff, RxMatchesState, ReceiveInBounds
  <2>4. PlaceInv' BY <1>0, <1>2 DEF PutOff, PlaceInv
  <2> QED BY <2>1, <2>2, <2>3, <2>4 DEF StepInv
<1>3. ASSUME tx' # <<>>, Len(tx') = 1, deferred' = FALSE, mState' = "Cmd", UNCHANGED rx,
             mpc' \in {mpc, "info", "reboot"}, UsbTimer' => UsbTimer /\ mpc' = mpc,
             mpc' # mpc => UsbTimer' = FALSE
      PROVE  StepInv'
  <2>1. TimerInv' /\ ~Owes'
    <3>1. CASE mpc' = mpc BY <1>3, <1>8, <3>1
    <3>2. CASE mpc' # mpc BY <1>3, <1>9, <3>2 DEF Owes
    <3> QED BY <3>1, <3>2
  <2>2. OneInAir' BY <1>3, <2>1 DEF OneInAir, One
  <2>3. RxMatchesState' /\ ReceiveInBounds' BY <1>3 DEF RxMatchesState, ReceiveInBounds
  <2>4. PlaceInv' BY <1>0, <1>3 DEF PlaceInv
  <2> QED BY <2>1, <2>2, <2>3, <2>4 DEF StepInv
<1>4. CASE /\ deferred' = FALSE
           /\ Dispatch(c) /\ UsbTimer' = IF c.op = "download" THEN UsbTimer ELSE FALSE
  <2>1. CASE c.op = "download" /\ CmdDownload(c)
    <3>1. CASE BadSize(c.n) BY <1>1, <1>3, <1>4, <2>1, <3>1 DEF CmdDownload, Responses
    <3>2. CASE ~BadSize(c.n)
      <4>1. tx' # <<>> /\ Len(tx') = 1 BY <1>1, <2>1, <3>2 DEF CmdDownload, Responses
      <4>2. /\ mState' = "Data" /\ mBytesReceivedSoFar' = 0 /\ mNumDataBytes' = c.n
            /\ mpc' = mpc
        BY <2>1, <3>2 DEF CmdDownload
      <4>3. TimerInv' /\ ~Owes' BY <1>4, <1>8, <2>1, <4>2
      <4>4. OneInAir' BY <1>4, <4>1, <4>3 DEF OneInAir, One
      <4>5. RxMatchesState' BY DEF RxMatchesState
      <4>6. ReceiveInBounds' BY <1>0, <3>2, <4>2 DEF ReceiveInBounds, BadSize
      <4>7. PlaceInv' BY <1>0, <1>4, <4>1, <4>2, <4>3 DEF PlaceInv
      <4> QED BY <4>3, <4>4, <4>5, <4>6, <4>7 DEF StepInv
    <3> QED BY <3>1, <3>2
  <2>2. CASE (c.op = "flash" /\ CmdFlash(c)) \/ (c.op \in {"erase", "continue"} /\ CmdWait(c))
    <3>1. mpc' \in {"flash", "erase", "continue"} /\ UNCHANGED <<tx, dlVars>> /\ UsbTimer' = FALSE
      BY <1>4, <2>2 DEF CmdFlash, CmdWait
    <3>2. Owes' BY <3>1 DEF Owes
    <3>3. OneInAir' BY <1>4, <3>1, <3>2 DEF OneInAir, One
    <3>4. RxMatchesState' /\ ReceiveInBounds' BY <3>1 DEF RxMatchesState, ReceiveInBounds
    <3>5. PlaceInv' BY <1>0, <1>4, <3>1 DEF PlaceInv
    <3>6. TimerInv' BY <1>9, <3>1
    <3> QED BY <3>3, <3>4, <3>5, <3>6 DEF StepInv
  <2>3. CASE c.op = "getvar" /\ CmdGetVar(c)
    BY <1>1, <1>3, <1>4, <2>3 DEF CmdGetVar, Responses
  <2>4. CASE c.op = "getvarall" /\ CmdGetVarAll(c)
    BY <1>1, <1>3, <1>4, <2>4 DEF CmdGetVarAll, Responses
  <2>5. CASE c.op = "reboot" /\ CmdReboot(c)
    BY <1>1, <1>3, <1>4, <2>5 DEF CmdReboot, Responses
  <2>6. CASE c.op = "unknown" /\ CmdUnknown
    BY <1>1, <1>3, <1>4, <2>6 DEF CmdUnknown, Responses
  <2> QED BY <1>4, <2>1, <2>2, <2>3, <2>4, <2>5, <2>6 DEF Dispatch
<1>5. CASE Send(<<"FAIL">>) /\ deferred' = FALSE /\ UNCHANGED <<dlVars, lockDownload, mpc, cur>>
  <2>1. tx' # <<>> /\ Len(tx') = 1 BY <1>1, <1>5 DEF Responses
  <2>2. UsbTimer' => UsbTimer BY DEF AcceptCmd
  <2> QED BY <1>3, <1>5, <2>1, <2>2
<1>6. PutOff(c) => UsbTimer' = FALSE BY DEF AcceptCmd, PutOff, MustDefer
<1> QED BY <1>2, <1>4, <1>5, <1>6 DEF AcceptCmd

\* The host's transfers move along the line.
LEMMA HostStep ==
  ASSUME AlwaysAnswers, TypeInv, StepInv, Host
  PROVE  StepInv'
<1> USE DEF StepInv
<1>0. /\ rx \in Receive /\ tx \in Seq(Responses) /\ drops \in Nat
  BY DEF TypeInv, TypeOK, UsbTypeOK
<1>1. CASE HostSend \/ HostSendData
  <2>1. /\ rx.on /\ rxDone' = TRUE /\ rx' = [rx EXCEPT !.on = FALSE]
        /\ UNCHANGED <<evConnect, connected, tx, txDone, dlVars, bufVars, flagVars, timerVars, mainVars, thr>>
    BY <1>1 DEF HostSend, HostSendData
  <2>2. rx'.on = FALSE /\ rx'.buf = rx.buf /\ rx'.off = rx.off BY <1>0, <2>1 DEF Receive
  <2>3. Owes' = Owes BY <2>1 DEF Owes
  <2>4. OneInAir' BY <2>1, <2>2, <2>3, Alone DEF OneInAir, One
  <2>5. RxMatchesState' /\ ReceiveInBounds' BY <2>1, <2>2 DEF RxMatchesState, ReceiveInBounds
  <2>6. PlaceInv' BY <2>1, <2>3 DEF PlaceInv
  <2>7. TimerInv' BY <2>1 DEF TimerInv
  <2> QED BY <2>4, <2>5, <2>6, <2>7
<1>2. CASE HostRecv
  <2>1. /\ tx # <<>> /\ tx' = Tail(tx) /\ txDone' = txDone + 1
        /\ UNCHANGED <<evConnect, connected, rxVars, dlVars, bufVars, flagVars, timerVars, mainVars, thr>>
    BY <1>2 DEF HostRecv
  <2>2. Len(tx) = 1 BY <1>0, <2>1 DEF OneInAir
  <2>3. tx' = <<>> /\ Len(tx') = 0 BY <1>0, <2>1, <2>2, RecvOne
  <2>4. txDone' = 1 BY <2>1, Alone
  <2>5. Owes' = Owes BY <2>1 DEF Owes
  <2>6. OneInAir' BY <2>1, <2>3, <2>4, <2>5, Alone DEF OneInAir, One
  <2>7. RxMatchesState' /\ ReceiveInBounds' BY <2>1 DEF RxMatchesState, ReceiveInBounds
  <2>8. PlaceInv' BY <2>1, <2>4, <2>5 DEF PlaceInv
  <2>9. TimerInv' BY <2>1 DEF TimerInv
  <2> QED BY <2>6, <2>7, <2>8, <2>9
<1>3. ~Disconnect BY <1>0 DEF Disconnect, AlwaysAnswers
<1>4. ~Reconnect BY DEF Reconnect, PlaceInv
<1> QED BY <1>1, <1>2, <1>3, <1>4 DEF Host

\* HandleUsbEvents queues one receive for each event, or handles it.
LEMMA EventStep ==
  ASSUME AlwaysAnswers, TypeInv, StepInv,
         HandleConnected \/ ProcessBulkXfrCompleteTx \/ ProcessBulkXfrCompleteRx
           \/ AcceptCmdHandler \/ FlashCompleteHandler
  PROVE  StepInv'
<1> USE DEF StepInv
<1>0. /\ rx \in Receive /\ tx \in Seq(Responses) /\ gRx \in Cmd /\ txDone \in Nat
      /\ MaxDownLoadSize \in Nat \ {0} /\ mBytesReceivedSoFar \in Nat /\ mNumDataBytes \in Nat
      /\ mUsbDataBuffer \in {1, 2} /\ connected
  BY FastbootAssumption DEF TypeInv, TypeOK, UsbTypeOK, DownloadTypeOK, Buf, PlaceInv
<1>1. CASE HandleConnected
  <2>1. /\ evConnect /\ evConnect' = FALSE /\ rx' = [on |-> TRUE, buf |-> RxBuf, off |-> 0]
        /\ UNCHANGED <<rxDone, connected, tx, txDone, dlVars, bufVars, flagVars, timerVars, mainVars, thr>>
    BY <1>1 DEF HandleConnected
  <2>2. Owes' = Owes BY <2>1 DEF Owes
  <2>3. OneInAir' BY <2>1, <2>2, Alone DEF OneInAir, One
  <2>4. RxMatchesState' BY <2>1 DEF RxMatchesState, PlaceInv
  <2>5. ReceiveInBounds' BY <1>0, <2>1 DEF ReceiveInBounds
  <2>6. PlaceInv' BY <2>1, <2>2 DEF PlaceInv
  <2>7. TimerInv' BY <2>1 DEF TimerInv
  <2> QED BY <2>3, <2>4, <2>5, <2>6, <2>7
<1>2. CASE ProcessBulkXfrCompleteTx
  <2>1. /\ txDone > 0 /\ txDone' = txDone - 1
        /\ rx' = [on |-> connected, off |-> 0, buf |-> NextReceive]
        /\ UNCHANGED <<rxDone, evConnect, connected, tx, dlVars, bufVars, flagVars, timerVars, mainVars, thr>>
    BY <1>2 DEF ProcessBulkXfrCompleteTx
  <2>2. txDone = 1 /\ txDone' = 0 BY <1>0, <2>1 DEF OneInAir
  <2>3. Owes' = Owes BY <2>1 DEF Owes
  <2>4. OneInAir' BY <1>0, <2>1, <2>2, <2>3, Alone DEF OneInAir, One
  <2>5. RxMatchesState'
    BY <1>0, <2>1 DEF RxMatchesState, PlaceInv, NextReceive, RxBuf, TypeInv, TypeOK, DownloadTypeOK
  <2>6. ReceiveInBounds' BY <1>0, <2>1 DEF ReceiveInBounds
  <2>7. mpc # "info" BY <1>2 DEF ProcessBulkXfrCompleteTx, CanPoll
  <2>8. PlaceInv' BY <2>1, <2>2, <2>3, <2>7 DEF PlaceInv
  <2>9. TimerInv' BY <2>1 DEF TimerInv
  <2> QED BY <2>4, <2>5, <2>6, <2>8, <2>9
<1>3. CASE ProcessBulkXfrCompleteRx
  <2>1. /\ CanPoll /\ rxDone /\ rxDone' = FALSE
        /\ UNCHANGED <<evConnect, connected, txDone, bufVars, IsFlashComplete, thr>>
    BY <1>3 DEF ProcessBulkXfrCompleteRx
  <2>2. CASE mState = "Cmd" /\ AcceptCmd(gRx) /\ UNCHANGED <<rx, okayDelay>>
    BY <1>0, <2>1, <2>2, Alone, AcceptCmdStep DEF CanPoll
  <2>3. CASE mState = "Data" /\ AcceptData
    <3> DEFINE got == mBytesReceivedSoFar + 1
    <3>1. /\ ~evConnect /\ ~rx.on /\ tx = <<>> /\ txDone = 0 /\ ~deferred /\ ~okayDelay /\ ~Owes
          /\ mBytesReceivedSoFar' = got /\ mNumDataBytes' = mNumDataBytes
          /\ UNCHANGED <<deferred, mpc, job, txDone, evConnect>>
      BY <2>1, <2>3, Alone DEF AcceptData
    <3>2. ~Owes' BY <3>1 DEF Owes
    <3>3. mpc # "info" BY <2>1 DEF CanPoll
    <3>4. TimerInv' BY <2>1, <2>3 DEF AcceptData, TimerInv
    <3>5. CASE got = mNumDataBytes
      <4>1. /\ mState' = "Cmd" /\ rx' = rx
            /\ \/ Send(<<"OKAY">>) /\ okayDelay' = okayDelay
               \/ okayDelay' = TRUE /\ tx' = tx
               \/ Send(<<"FAIL">>) /\ okayDelay' = okayDelay
        BY <2>3, <3>5 DEF AcceptData
      <4>2. ASSUME NEW r \in Responses, Send(<<r>>) PROVE tx' # <<>> /\ Len(tx') = 1
        BY <1>0, <3>1, <4>2, SendOne
      <4>3. OneInAir' BY <2>1, <3>1, <3>2, <4>1, <4>2 DEF OneInAir, One, Responses
      <4>4. RxMatchesState' /\ ReceiveInBounds'
        BY <2>1, <3>1, <4>1 DEF RxMatchesState, ReceiveInBounds
      <4>5. PlaceInv' BY <1>0, <2>1, <3>1, <3>3, <4>1 DEF PlaceInv
      <4> QED BY <3>4, <4>3, <4>4, <4>5
    <3>6. CASE got # mNumDataBytes
      <4>1. /\ rx' = [on |-> connected, buf |-> mUsbDataBuffer, off |-> got]
            /\ UNCHANGED <<mState, tx, okayDelay>>
        BY <2>3, <3>6 DEF AcceptData
      <4>2. OneInAir' BY <1>0, <2>1, <3>1, <3>2, <4>1 DEF OneInAir, One
      <4>3. RxMatchesState' BY <1>0, <2>1, <2>3, <3>1, <4>1 DEF RxMatchesState, RxBuf
      <4>4. ReceiveInBounds' BY <1>0, <2>3, <3>1, <3>6, <4>1 DEF ReceiveInBounds
      <4>5. PlaceInv' BY <1>0, <2>1, <3>1, <3>2, <3>3, <4>1 DEF PlaceInv
      <4> QED BY <3>4, <4>2, <4>3, <4>4, <4>5
    <3> QED BY <3>5, <3>6
  <2> QED BY <1>3, <2>2, <2>3 DEF ProcessBulkXfrCompleteRx
<1>4. CASE AcceptCmdHandler
  <2>1. /\ mpc \in {"loop", "inline"} /\ deferred /\ AcceptCmd(gRx)
        /\ UNCHANGED <<evConnect, connected, rxVars, txDone, okayDelay, bufVars, IsFlashComplete, thr>>
    BY <1>4 DEF AcceptCmdHandler, CanCallback
  <2>2. mState = "Cmd" BY <2>1 DEF PlaceInv
  <2>3. rxDone' = FALSE BY <2>1, Alone DEF TypeInv, TypeOK, UsbTypeOK
  <2> QED BY <1>0, <2>1, <2>2, <2>3, Alone, AcceptCmdStep
<1>5. CASE FlashCompleteHandler
  <2>1. /\ okayDelay /\ okayDelay' = FALSE /\ mState = "Cmd"
        /\ UNCHANGED <<evConnect, connected, rxVars, txDone, dlVars, bufVars, flagVars, UsbTimer, deferred, mainVars, thr>>
    BY <1>5 DEF FlashCompleteHandler, PlaceInv
  <2>2. tx' # <<>> /\ Len(tx') = 1
    BY <1>0, <1>5, <2>1, Alone, SendOne DEF FlashCompleteHandler, Responses
  <2>3. Owes' = Owes BY <2>1 DEF Owes
  <2>4. OneInAir' BY <2>1, <2>2, <2>3, Alone DEF OneInAir, One
  <2>5. RxMatchesState' /\ ReceiveInBounds' BY <2>1 DEF RxMatchesState, ReceiveInBounds
  <2>6. PlaceInv' BY <2>1, <2>2, <2>3 DEF PlaceInv
  <2>7. TimerInv' BY <2>1 DEF TimerInv
  <2> QED BY <2>4, <2>5, <2>6, <2>7
<1> QED BY <1>1, <1>2, <1>3, <1>4, <1>5

\* CmdFlash answers once, now or when its flash ends.
LEMMA ExchangeStep ==
  ASSUME AlwaysAnswers, TypeInv, StepInv, ExchangeAndFlash
  PROVE  StepInv'
<1> USE DEF StepInv
<1> DEFINE b == mUsbDataBuffer
<1>0. /\ mpc = "flash" /\ Owes /\ connected /\ mState = "Cmd" /\ cur \in Cmd /\ job \in Job
      /\ thr \in [Threads -> Job]
      /\ UNCHANGED <<evConnect, connected, rxVars, txDone, dlVars, okayDelay, deferred>>
  BY DEF ExchangeAndFlash, Owes, PlaceInv, TypeInv, TypeOK, MainTypeOK, FlashTypeOK
<1>1. /\ ~evConnect /\ ~rx.on /\ ~rxDone /\ tx = <<>> /\ txDone = 0 /\ ~deferred /\ ~okayDelay
      /\ ~UsbTimer
  BY <1>0, Alone DEF TimerInv
<1>2. RxMatchesState' /\ ReceiveInBounds' BY <1>0, <1>1 DEF RxMatchesState, ReceiveInBounds
<1>3. ASSUME NEW r \in Responses, Send(<<r>>) PROVE tx' # <<>> /\ Len(tx') = 1
  BY <1>0, <1>1, <1>3, SendOne
<1>4. ASSUME tx' # <<>>, Len(tx') = 1, ~Owes', mpc' # "info", TimerInv' PROVE StepInv'
  <2>1. OneInAir' BY <1>0, <1>1, <1>4 DEF OneInAir, One
  <2>2. PlaceInv' BY <1>0, <1>1, <1>4 DEF PlaceInv
  <2> QED BY <1>2, <1>4, <2>1, <2>2
<1>5. ASSUME FinishFlashCmd(<<"FAIL">>) PROVE StepInv'
  <2>1. tx' # <<>> /\ Len(tx') = 1 BY <1>3, <1>5 DEF FinishFlashCmd, Responses
  <2>2. Return /\ ~UsbTimer' /\ thr' = thr BY <1>1, <1>5 DEF FinishFlashCmd
  <2>3. ~Owes' /\ TimerInv' /\ mpc' # "info" BY <2>2, ReturnTimer DEF TimerInv
  <2> QED BY <1>4, <2>1, <2>3
<1>6. ASSUME BeginInline(b, FALSE), tx' = tx, cur.part \in Parts, UsbTimer' = FALSE
      PROVE  StepInv'
  <2>1. /\ mpc' = "inline" /\ ~job'.early /\ job'.part = cur.part
        /\ UNCHANGED <<thr, outer, overtaken>>
    BY <1>6 DEF BeginInline, NewJob
  <2>2. Owes' BY <2>1 DEF Owes
  <2>3. OneInAir' BY <1>0, <1>1, <1>6, <2>2 DEF OneInAir, One
  <2>4. PlaceInv' BY <1>0, <1>1, <1>6, <2>1 DEF PlaceInv
  <2>5. TimerInv' BY <1>6, <2>1 DEF TimerInv
  <2> QED BY <1>2, <2>3, <2>4, <2>5
<1>7. ASSUME FlashParallel(b), cur.part \in Parts, IsSparse(b) PROVE StepInv'
  <2>1. CASE MThread /\ PoolMayFail /\ FinishFlashCmd(<<>>) BY <2>1 DEF AlwaysAnswers
  <2>2. CASE MThread /\ \E t \in Threads : ResumeThread(t, b)
    <3>1. PICK t \in Threads : ResumeThread(t, b) BY <2>2
    <3>2. tx' # <<>> /\ Len(tx') = 1 BY <1>3, <3>1 DEF ResumeThread, Responses
    <3>3. Return /\ ~UsbTimer' BY <1>1, <3>1 DEF ResumeThread
    <3>4. ~Owes' /\ TimerInv' /\ mpc' # "info" BY <2>2, <3>3, ReturnTimer
    <3> QED BY <1>4, <3>2, <3>4
  <2>3. CASE BeginInline(b, FALSE) /\ UNCHANGED <<tx, IsFlashComplete, UsbTimer>>
    BY <1>1, <1>6, <1>7, <2>3 DEF TypeInv, TypeOK, MainTypeOK
  <2>4. CASE /\ ~MThread /\ IsFlashComplete' = FALSE /\ UsbTimer' = TRUE
             /\ Send(<<"OKAY">>) /\ BeginInline(b, TRUE)
    <3>1. tx' # <<>> /\ Len(tx') = 1 BY <1>3, <2>4 DEF Responses
    <3>2. /\ mpc' = "inline" /\ job'.early /\ job'.part = cur.part /\ job'.sparse
          /\ UNCHANGED <<thr, outer, overtaken>>
      BY <1>7, <2>4 DEF BeginInline, NewJob
    <3>3. ~Owes' /\ TimerInv' BY <1>7, <2>4, <3>2 DEF Owes, TimerInv
    <3> QED BY <1>4, <3>1, <3>2, <3>3
  <2>5. CASE IsFlashComplete' = TRUE /\ UsbTimer' = FALSE /\ BeginInline(b, FALSE) /\ UNCHANGED tx
    BY <1>6, <1>7, <2>5
  <2> QED BY <1>7, <2>1, <2>2, <2>3, <2>4, <2>5 DEF FlashParallel
<1>8. cur.part # NoPart => cur.part \in Parts BY <1>0 DEF Cmd
<1>9. Header(b) \notin CritMetaImages BY DEF AlwaysAnswers
<1>10. \/ FinishFlashCmd(<<"FAIL">>)
       \/ IsSparse(b) /\ cur.part # NoPart /\ FlashParallel(b)
       \/ cur.part # NoPart /\ BeginInline(b, FALSE) /\ UNCHANGED <<tx, IsFlashComplete, UsbTimer>>
  BY <1>9 DEF ExchangeAndFlash
<1>11. UsbTimer \in BOOLEAN BY DEF TypeInv, TypeOK, MainTypeOK
<1> QED BY <1>1, <1>5, <1>6, <1>7, <1>8, <1>10, <1>11

\* The steps of a flash in the main loop, and of the commands that waited.
LEMMA MainStep ==
  ASSUME AlwaysAnswers, TypeInv, StepInv,
         InlineWrite \/ InlineDone \/ InlineFail
           \/ CmdErase \/ RebootDevice \/ CmdContinue \/ InfoSent \/ InfoOther
  PROVE  StepInv'
<1> USE DEF StepInv
<1>0. connected /\ job \in Job /\ txDone \in Nat BY DEF PlaceInv, TypeInv, TypeOK, FlashTypeOK, UsbTypeOK
<1>1. CASE InlineWrite
  <2>1. /\ mpc = "inline" /\ job' = [job EXCEPT !.k = job.k + 1]
        /\ UNCHANGED <<evConnect, connected, rxVars, tx, txDone, dlVars, bufVars, flagVars, timerVars, mpc,
                       outer, overtaken, thr>>
    BY <1>1 DEF InlineWrite
  <2>2. job'.early = job.early /\ job'.sparse = job.sparse /\ job'.part = job.part
    BY <1>0, <2>1 DEF Job
  <2>3. Owes' = Owes BY <2>1, <2>2 DEF Owes
  <2>4. OneInAir' BY <2>1, <2>3 DEF OneInAir, One
  <2>5. RxMatchesState' /\ ReceiveInBounds' BY <2>1 DEF RxMatchesState, ReceiveInBounds
  <2>6. PlaceInv' BY <2>1, <2>3 DEF PlaceInv
  <2>7. TimerInv' BY <2>1, <2>2 DEF TimerInv
  <2> QED BY <2>4, <2>5, <2>6, <2>7
<1>2. ASSUME NEW result \in {"ok", "err"}, mpc = "inline", EndInline(result) PROVE StepInv'
  <2>1. /\ Return /\ thr' = thr
        /\ UNCHANGED <<evConnect, connected, rxVars, txDone, dlVars, bufVars, okayDelay, deferred>>
    BY <1>2 DEF EndInline
  <2>9. ~UsbTimer' BY <1>2 DEF EndInline, TimerInv
  <2>2. ~Owes' /\ mpc' # "info" /\ TimerInv' BY <2>1, <2>9, ReturnTimer DEF TimerInv
  <2>3. TimerInv' BY <2>2
  <2>4. RxMatchesState' /\ ReceiveInBounds' BY <2>1 DEF RxMatchesState, ReceiveInBounds
  <2>5. Owes <=> ~job.early BY <1>2 DEF Owes
  <2>6. Answers(job) <=> ~job.early BY <1>2 DEF Answers, TimerInv, AlwaysAnswers
  <2>7. CASE job.early
    <3>1. tx' = tx BY <1>2, <2>6, <2>7 DEF EndInline
    <3>2. OneInAir' BY <2>1, <2>2, <2>5, <2>7, <3>1 DEF OneInAir, One
    <3>3. PlaceInv' BY <2>1, <2>2, <3>1 DEF PlaceInv
    <3> QED BY <2>3, <2>4, <3>2, <3>3
  <2>8. CASE ~job.early
    <3>1. Send(<<"OKAY">>) \/ Send(<<"FAIL">>) BY <1>2, <2>6, <2>8 DEF EndInline
    <3>2. tx' # <<>> /\ Len(tx') = 1 BY <1>0, <2>5, <2>8, <3>1, Alone, SendOne DEF Responses
    <3>3. OneInAir' BY <2>1, <2>2, <2>5, <2>8, <3>2, Alone DEF OneInAir, One
    <3>4. PlaceInv' BY <2>1, <2>2, <2>5, <2>8, <3>2 DEF PlaceInv
    <3> QED BY <2>3, <2>4, <3>3, <3>4
  <2> QED BY <2>7, <2>8
<1>3. CASE InlineDone \/ InlineFail BY <1>2, <1>3 DEF InlineDone, InlineFail
<1>4. CASE CmdErase \/ CmdContinue
  <2>1. /\ Owes /\ mState = "Cmd"
        /\ Return \/ (mpc' = "off" /\ UNCHANGED <<job, outer, overtaken>>)
        /\ Send(<<"OKAY">>) \/ Send(<<"FAIL">>)
        /\ UNCHANGED <<evConnect, connected, rxVars, txDone, dlVars, bufVars, flagVars, timerVars, thr>>
    BY <1>4 DEF CmdErase, CmdContinue, Owes, PlaceInv
  <2>2. tx' # <<>> /\ Len(tx') = 1 BY <1>0, <2>1, Alone, SendOne DEF Responses
  <2>7. ~UsbTimer' BY <1>4, <2>1 DEF CmdErase, CmdContinue, TimerInv
  <2>3. ~Owes' /\ mpc' # "info" /\ TimerInv'
    <3>1. CASE Return BY <2>1, <2>7, <3>1, ReturnTimer DEF TimerInv
    <3>2. CASE mpc' = "off" /\ UNCHANGED <<job, outer, overtaken>>
      BY <2>1, <2>7, <3>2 DEF TimerInv, Owes
    <3> QED BY <2>1, <3>1, <3>2
  <2>4. OneInAir' BY <2>1, <2>2, <2>3, Alone DEF OneInAir, One
  <2>5. RxMatchesState' /\ ReceiveInBounds' BY <2>1 DEF RxMatchesState, ReceiveInBounds
  <2>6. PlaceInv' BY <2>1, <2>2, <2>3 DEF PlaceInv
  <2> QED BY <2>3, <2>4, <2>5, <2>6
<1>5. CASE RebootDevice
  <2>1. /\ mpc = "reboot" /\ mpc' = "off"
        /\ UNCHANGED <<evConnect, connected, rxVars, tx, txDone, dlVars, bufVars, flagVars, timerVars, job,
                       outer, overtaken, thr>>
    BY <1>5 DEF RebootDevice
  <2>2. ~Owes /\ ~Owes' BY <2>1 DEF Owes
  <2>3. OneInAir' BY <2>1, <2>2 DEF OneInAir, One
  <2>4. RxMatchesState' /\ ReceiveInBounds' BY <2>1 DEF RxMatchesState, ReceiveInBounds
  <2>5. PlaceInv' BY <2>1, <2>2 DEF PlaceInv
  <2>6. TimerInv' BY <2>1 DEF TimerInv
  <2> QED BY <2>3, <2>4, <2>5, <2>6
<1>6. CASE InfoSent
  <2>1. /\ mpc = "info" /\ Return /\ Send(<<"OKAY">>)
        /\ UNCHANGED <<evConnect, connected, rxVars, dlVars, bufVars, flagVars, timerVars, thr>>
    BY <1>6 DEF InfoSent
  <2>2. tx # <<>> \/ txDone > 0 BY <2>1 DEF PlaceInv
  <2>3. txDone = 1 /\ txDone' = 0 /\ tx = <<>>
    BY <1>0, <1>6, <2>2, Alone DEF InfoSent, OneInAir
  <2>4. tx' # <<>> /\ Len(tx') = 1 BY <1>0, <2>1, <2>3, SendOne DEF Responses
  <2>5. ~Owes /\ ~UsbTimer' BY <2>1 DEF Owes, TimerInv
  <2>9. TimerInv' /\ ~Owes' BY <2>1, <2>5, ReturnTimer DEF TimerInv
  <2>6. OneInAir' BY <2>1, <2>3, <2>4, <2>5, <2>9, Alone DEF OneInAir, One
  <2>7. RxMatchesState' /\ ReceiveInBounds' BY <2>1 DEF RxMatchesState, ReceiveInBounds
  <2>8. PlaceInv' BY <2>1, <2>3, <2>4, <2>9 DEF PlaceInv
  <2> QED BY <2>6, <2>7, <2>8, <2>9
<1>7. ~InfoOther
  <2>1. SUFFICES ASSUME mpc = "info", evConnect \/ rxDone PROVE FALSE BY DEF InfoOther
  <2>2. tx # <<>> \/ txDone # 0 BY <1>0, <2>1 DEF PlaceInv
  <2> QED BY <2>1, <2>2, Alone
<1> QED BY <1>1, <1>3, <1>4, <1>5, <1>6, <1>7

\* The main loop, the USB driver and the host stay in step.
LEMMA NextStep ==
  ASSUME AlwaysAnswers, TypeInv, StepInv, [Next]_vars
  PROVE  StepInv'
<1>1. CASE UNCHANGED <<evConnect, connected, rxVars, tx, txDone, dlVars, bufVars, timerVars,
                       mpc, job>> /\ TimerInv'
  BY <1>1 DEF StepInv, OneInAir, RxMatchesState, ReceiveInBounds, PlaceInv, Owes
<1>2. ASSUME NEW t \in Threads, Flasher(t) PROVE StepInv'
  <2>0. thr \in [Threads -> Job] BY DEF TypeInv, TypeOK, FlashTypeOK
  <2>1. thr[t].st # "none"
    BY <1>2 DEF Flasher, ThreadAcquire, ThreadBegin, ThreadWrite, ThreadEnd, CanWrite
  <2>2. MThread BY <2>1 DEF StepInv, TimerInv
  <2>3. UNCHANGED <<evConnect, connected, rxVars, tx, txDone, dlVars, bufVars, timerVars, mainVars>>
    BY <1>2 DEF Flasher, ThreadAcquire, ThreadBegin, ThreadWrite, ThreadEnd
  <2>4. TimerInv' BY <2>2, <2>3 DEF StepInv, TimerInv
  <2> QED BY <1>1, <2>3, <2>4
<1>3. CASE Done \/ UNCHANGED vars BY <1>1, <1>3 DEF Done, vars, StepInv, TimerInv
<1> QED BY <1>2, <1>3, HostStep, EventStep, ExchangeStep, MainStep DEF Next, Device

\* FastbootInitialize leaves one pending event: the first connection.
LEMMA InitStep == Init => StepInv
<1> SUFFICES ASSUME Init PROVE StepInv OBVIOUS
<1>1. ~Owes BY DEF Init, Owes
<1>2. OneInAir BY <1>1 DEF Init, OneInAir, One
<1>3. RxMatchesState /\ ReceiveInBounds /\ PlaceInv /\ TimerInv
  BY <1>1, FastbootAssumption DEF Init, RxMatchesState, ReceiveInBounds, PlaceInv, TimerInv, NoJob
<1> QED BY <1>2, <1>3 DEF StepInv

\* In both builds, for every image, partition and bound: as long as the code
\* answers every command, one transfer is in the air, it goes to the buffer that
\* the state machine expects, and it starts inside it.
THEOREM StaysInStep == ASSUME AlwaysAnswers PROVE Spec => []InStep
<1>1. TypeInv /\ StepInv /\ [Next]_vars => (TypeInv /\ StepInv)' BY NextType, NextStep
<1>2. TypeInv /\ StepInv => InStep BY StepInStep
<1> QED BY <1>1, <1>2, InitType, InitStep, PTL DEF Spec

-----------------------------------------------------------------------------
(***************************************************************************)
(* FlashResult without threads.  A flash that ends well overwrites it, so  *)
(* the argument is that no flash begins while a failure is unreported,     *)
(* and that two flashes are under way only when one overtook the other.    *)
(***************************************************************************)
RememberInv ==
  \/ overtaken
  \/ /\ failed => FlashResult = "err"
     /\ mpc \in {"flash", "inline"} => FlashResult = "ok"

\* AcceptCmd forgets a failure only when it refuses the command because of it.
LEMMA AcceptRemember ==
  ASSUME RememberInv, TimerInv, ~Owes, NEW c \in Cmd, AcceptCmd(c), mpc \in {"loop", "inline"}
  PROVE  RememberInv'
<1> USE DEF RememberInv
<1>0. overtaken => overtaken' BY DEF AcceptCmd
<1>1. CASE UNCHANGED <<mpc, FlashResult, failed>> BY <1>0, <1>1
<1>2. CASE FlashResult' = "ok" /\ failed' = FALSE BY <1>0, <1>2
<1>3. CASE mpc' \notin {"flash", "inline"} /\ UNCHANGED <<FlashResult, failed>> BY <1>0, <1>3
<1>4. CASE FlashResult = "ok" /\ UNCHANGED <<FlashResult, failed>> BY <1>0, <1>4
<1> QED BY <1>1, <1>2, <1>3, <1>4
   DEF AcceptCmd, PutOff, Dispatch, CmdDownload, CmdFlash, CmdGetVar, CmdGetVarAll, CmdReboot,
       CmdWait, CmdUnknown

\* Without threads every step keeps RememberInv.
LEMMA NextRemember ==
  ASSUME ~MThread, TypeInv, StepInv, RememberInv, [Next]_vars
  PROVE  RememberInv'
<1>0. gRx \in Cmd /\ TimerInv /\ \A t \in Threads : thr[t].st = "none"
  BY DEF TypeInv, TypeOK, UsbTypeOK, StepInv, TimerInv
<1>1. CASE /\ UNCHANGED <<FlashResult, failed, overtaken>>
           /\ mpc' = mpc \/ mpc' \notin {"flash", "inline"} \/ mpc = "flash"
  BY <1>1 DEF RememberInv
<1>10. CASE Return /\ UNCHANGED <<FlashResult, failed>>
  BY <1>0, <1>10 DEF Return, TimerInv, RememberInv
<1>2. CASE Host
  BY <1>1, <1>2 DEF Host, HostSend, HostSendData, HostRecv, Disconnect, Reconnect
<1>3. CASE HandleConnected \/ ProcessBulkXfrCompleteTx \/ FlashCompleteHandler
             \/ InlineWrite \/ CmdErase \/ RebootDevice \/ CmdContinue \/ InfoSent \/ InfoOther
  BY <1>1, <1>3, <1>10 DEF HandleConnected, ProcessBulkXfrCompleteTx, FlashCompleteHandler,
     InlineWrite, CmdErase, RebootDevice, CmdContinue, InfoSent, InfoOther
<1>4. CASE ProcessBulkXfrCompleteRx
  <2>1. ~Owes /\ mpc \in {"loop", "inline"}
    BY <1>4, Alone DEF ProcessBulkXfrCompleteRx, CanPoll, StepInv
  <2>2. AcceptData => UNCHANGED <<mpc, FlashResult, failed, overtaken>> BY DEF AcceptData
  <2> QED BY <1>0, <1>1, <1>4, <2>1, <2>2, AcceptRemember DEF ProcessBulkXfrCompleteRx
<1>5. CASE AcceptCmdHandler
  <2>1. ~Owes /\ mpc \in {"loop", "inline"}
    BY <1>5, Alone DEF AcceptCmdHandler, CanCallback, StepInv
  <2> QED BY <1>0, <1>5, <2>1, AcceptRemember DEF AcceptCmdHandler
<1>6. CASE ExchangeAndFlash
  <2>1. mpc = "flash" /\ UNCHANGED <<FlashResult, failed>> BY <1>6 DEF ExchangeAndFlash
  <2>2. UNCHANGED overtaken
    BY <1>6 DEF ExchangeAndFlash, FinishFlashCmd, FlashParallel, ResumeThread, BeginInline, Return
  <2> QED BY <1>1, <2>1, <2>2
<1>7. CASE InlineDone \/ InlineFail
  <2>1. mpc = "inline" BY <1>7 DEF InlineDone, InlineFail
  <2>2. ASSUME NEW result \in {"ok", "err"}, EndInline(result) PROVE RememberInv'
    <3>1. Return BY <2>2 DEF EndInline
    <3>2. CASE overtaken BY <3>1, <3>2 DEF Return, RememberInv
    <3>3. CASE ~overtaken
      <4>1. ~failed BY <2>1, <3>3 DEF RememberInv
      <4>2. failed' => FlashResult' = "err" BY <2>2, <4>1 DEF EndInline, ResultAfter, Answers
      <4>3. mpc' = "loop" BY <1>0, <3>1, <3>3 DEF Return, TimerInv
      <4> QED BY <4>2, <4>3 DEF RememberInv
    <3> QED BY <3>2, <3>3
  <2> QED BY <1>7, <2>2 DEF InlineDone, InlineFail
<1>8. ~(\E t \in Threads : Flasher(t))
  BY <1>0 DEF Flasher, ThreadAcquire, ThreadBegin, ThreadWrite, ThreadEnd, CanWrite
<1>9. CASE Done \/ UNCHANGED vars BY <1>1, <1>9 DEF Done, vars
<1> QED BY <1>2, <1>3, <1>4, <1>5, <1>6, <1>7, <1>8, <1>9 DEF Next, Device

\* Without threads, as long as the code answers every command, a flash that
\* fails after its OKAY is reported to the next flash or download: FlashResult
\* is not lost before, unless a command was let into a running flash.
THEOREM FailureRememberedInline ==
  ASSUME ~MThread, AlwaysAnswers PROVE Spec => []FailureRemembered
<1>1. Init => TypeInv /\ StepInv /\ RememberInv
  <2>1. Init => RememberInv BY DEF Init, RememberInv
  <2> QED BY <2>1, InitType, InitStep
<1>2. TypeInv /\ StepInv /\ RememberInv /\ [Next]_vars => (TypeInv /\ StepInv /\ RememberInv)'
  BY NextType, NextStep, NextRemember
<1>3. RememberInv => FailureRemembered BY DEF RememberInv, FailureRemembered
<1> QED BY <1>1, <1>2, <1>3, PTL DEF Spec

-----------------------------------------------------------------------------
(***************************************************************************)
(* Host and device agree on the command and on how far its data phase is:  *)
(* what the device has in hand, or on the line, is what the host waits     *)
(* for.                                                                    *)
(***************************************************************************)
\* An answer on the line is one the host waits for, and says where the device is.
LineInv ==
  tx # <<>> => /\ hostWait \in {"cmd", "dataend"}
               /\ (Head(tx) = "DATA") <=> (mState = "Data")
               /\ (Head(tx) = "INFO") <=> (mpc = "info")

\* What the device has in hand is the command the host waits for.
HandInv ==
  /\ okayDelay => hostWait = "dataend"
  /\ deferred \/ Owes \/ (rxDone /\ mState = "Cmd") \/ mpc = "info" => hostWait = "cmd"
  /\ rxDone /\ mState = "Data" => hostWait \in {"data", "dataend"}
  /\ deferred \/ (rxDone /\ mState = "Cmd") => gRx = hostCmd
  /\ mpc = "flash" => cur = hostCmd /\ hostCmd.op = "flash"

\* Host and device agree on a data phase and on how far it is.
DataInv ==
  /\ hostWait = "data" => mState = "Data" /\ hostSent < hostCmd.n
  /\ hostWait = "cmd" => hostSent = 0 /\ (mState = "Data" => tx # <<>>)
  /\ hostWait = "dataend" => /\ hostCmd.op = "download" /\ hostSent = hostCmd.n
                             /\ mNumDataBytes = hostCmd.n
  /\ mState = "Data" => /\ hostWait # "none" /\ hostCmd.op = "download"
                        /\ mNumDataBytes = hostCmd.n
                        /\ hostSent = mBytesReceivedSoFar + Count(rxDone)

\* What host and device know of each other.
PhaseInv == LineInv /\ HandInv /\ DataInv

\* The host moves to the next phase when the device has.
LEMMA HostPhaseStep ==
  ASSUME AlwaysAnswers, TypeInv, StepInv, PhaseInv, Host
  PROVE  PhaseInv'
<1> USE DEF PhaseInv
<1>0. /\ rx \in Receive /\ tx \in Seq(Responses) /\ drops \in Nat /\ hostCmd \in Cmd
      /\ hostSent \in Nat /\ mBytesReceivedSoFar \in Nat /\ mNumDataBytes \in Nat
      /\ hostCmd.n \in Nat /\ mState \in {"Cmd", "Data"}
      /\ connected /\ OneInAir
  BY DEF TypeInv, TypeOK, UsbTypeOK, HostTypeOK, DownloadTypeOK, Cmd, StepInv, PlaceInv
<1>1. CASE HostSend
  <2>1. /\ hostWait = "none" /\ rx.on /\ rxDone' = TRUE /\ hostWait' = "cmd" /\ hostSent' = 0
        /\ gRx' = hostCmd'
        /\ UNCHANGED <<tx, txDone, dlVars, timerVars, mainVars>>
    BY <1>1 DEF HostSend
  <2>2. mState = "Cmd" BY <1>0, <2>1 DEF DataInv
  <2>3. tx = <<>> /\ ~deferred /\ ~okayDelay /\ ~Owes /\ ~Owes' /\ mpc # "info" /\ mpc # "flash"
    BY <1>0, <2>1, Alone DEF Owes, HandInv
  <2>4. LineInv' BY <2>1, <2>3 DEF LineInv
  <2>5. HandInv' BY <2>1, <2>2, <2>3 DEF HandInv
  <2>6. DataInv' BY <2>1, <2>2 DEF DataInv
  <2> QED BY <2>4, <2>5, <2>6
<1>2. CASE HostSendData
  <2>1. /\ hostWait = "data" /\ rx.on /\ rxDone' = TRUE /\ hostSent' = hostSent + 1
        /\ hostWait' = IF hostSent + 1 = hostCmd.n THEN "dataend" ELSE "data"
        /\ UNCHANGED <<hostCmd, tx, txDone, dlVars, timerVars, mainVars>>
    BY <1>2 DEF HostSendData
  <2>2. mState = "Data" /\ hostSent < hostCmd.n /\ mNumDataBytes = hostCmd.n
        /\ hostCmd.op = "download"
    BY <2>1 DEF DataInv
  <2>3. tx = <<>> /\ ~rxDone /\ ~deferred /\ ~okayDelay /\ ~Owes /\ ~Owes'
    BY <1>0, <2>1, Alone DEF Owes
  <2>4. mpc # "info" /\ mpc # "flash" BY <2>1, <2>3 DEF HandInv, Owes
  <2>5. LineInv' BY <2>1, <2>3 DEF LineInv
  <2>6. HandInv' BY <2>1, <2>2, <2>3, <2>4 DEF HandInv
  <2>7. hostSent = mBytesReceivedSoFar BY <1>0, <2>2, <2>3 DEF DataInv, Count
  <2>8. DataInv' BY <1>0, <2>1, <2>2, <2>7 DEF DataInv, Count
  <2> QED BY <2>5, <2>6, <2>8
<1>3. CASE HostRecv
  <2> DEFINE r == Head(tx)
  <2>1. /\ hostWait \in {"cmd", "dataend"} /\ tx # <<>> /\ tx' = Tail(tx)
        /\ hostWait' = CASE r \in {"OKAY", "FAIL"} -> "none"
                        [] r = "DATA" /\ hostCmd.op = "download" -> "data"
                        [] OTHER -> hostWait
        /\ UNCHANGED <<hostCmd, hostSent, rxVars, dlVars, timerVars, mainVars>>
    BY <1>3 DEF HostRecv
  <2>2. Len(tx) = 1 BY <1>0, <2>1 DEF OneInAir
  <2>3. tx' = <<>> BY <1>0, <2>1, <2>2, RecvOne
  <2>4. ~rxDone /\ ~deferred /\ ~okayDelay /\ ~Owes /\ ~Owes' BY <1>0, <2>1, Alone DEF Owes
  <2>5. r \in Responses BY <1>0, <2>1
  <2>6. LineInv' BY <2>3 DEF LineInv
  <2>7. /\ r = "DATA" <=> mState = "Data"
        /\ r = "INFO" <=> mpc = "info"
    BY <2>1 DEF LineInv
  <2>8. HandInv'
    <3>1. mpc # "flash" BY <2>4 DEF Owes
    <3>2. mpc = "info" => hostWait' = "cmd" BY <2>1, <2>7 DEF HandInv
    <3> QED BY <2>1, <2>4, <3>1, <3>2 DEF HandInv
  <2>9. DataInv'
    <3>1. CASE r \in {"OKAY", "FAIL"}
      <4>1. hostWait' = "none" /\ mState = "Cmd" BY <1>0, <2>1, <2>7, <3>1
      <4> QED BY <2>1, <4>1 DEF DataInv
    <3>2. CASE r = "DATA"
      <4>1. mState = "Data" /\ hostCmd.op = "download" /\ mNumDataBytes = hostCmd.n
        BY <2>7, <3>2 DEF DataInv
      <4>2. hostWait' = "data" BY <2>1, <3>2, <4>1
      <4>3. hostSent = mBytesReceivedSoFar BY <1>0, <2>4, <4>1 DEF DataInv, Count
      <4>4. hostSent < hostCmd.n BY <4>1, <4>3 DEF StepInv, ReceiveInBounds
      <4> QED BY <2>1, <4>1, <4>2, <4>4 DEF DataInv
    <3>3. CASE r = "INFO"
      <4>1. hostWait' = hostWait /\ mState = "Cmd" BY <1>0, <2>1, <2>7, <3>3
      <4> QED BY <2>1, <4>1 DEF DataInv
    <3> QED BY <2>5, <3>1, <3>2, <3>3 DEF Responses
  <2> QED BY <2>6, <2>8, <2>9
<1>4. ~Disconnect BY <1>0 DEF Disconnect, AlwaysAnswers
<1>5. ~Reconnect BY <1>0 DEF Reconnect
<1> QED BY <1>1, <1>2, <1>3, <1>4, <1>5 DEF Host

\* A command that AcceptCmd takes is the host's.
LEMMA AcceptPhase ==
  ASSUME TypeInv, StepInv, PhaseInv, AcceptCmd(gRx), mpc \in {"loop", "inline"},
         mState = "Cmd", connected,
         hostWait = "cmd", gRx = hostCmd, tx = <<>>, ~okayDelay, ~Owes, rxDone' = FALSE,
         UNCHANGED <<hostWait, hostCmd, hostSent, gRx, okayDelay>>
  PROVE  PhaseInv'
<1> USE DEF PhaseInv
<1>0. mpc \in {"loop", "inline"} /\ hostSent = 0 BY DEF DataInv
<1>1. ASSUME NEW r \in {"OKAY", "FAIL", "DATA", "INFO"}, Send(<<r>>)
      PROVE  tx' # <<>> /\ Head(tx') = r
  BY <1>1, SendOne DEF Responses
<1>2. ASSUME deferred' = TRUE, UNCHANGED <<tx, dlVars, mpc, cur>> PROVE PhaseInv'
  <2>1. LineInv' BY <1>2 DEF LineInv
  <2>2. HandInv' BY <1>0, <1>2 DEF HandInv
  <2>3. DataInv' BY <1>0, <1>2 DEF DataInv
  <2> QED BY <2>1, <2>2, <2>3
<1>3. ASSUME NEW r \in {"OKAY", "FAIL", "INFO"}, Send(<<r>>), deferred' = FALSE, mState' = "Cmd",
             mpc' \in {mpc, "info", "reboot"}, (r = "INFO") <=> (mpc' = "info")
      PROVE  PhaseInv'
  <2>1. LineInv' BY <1>1, <1>3 DEF LineInv
  <2>2. HandInv' BY <1>0, <1>3 DEF HandInv
  <2>3. DataInv' BY <1>0, <1>3 DEF DataInv
  <2> QED BY <2>1, <2>2, <2>3
<1>4. CASE Dispatch(gRx) /\ deferred' = FALSE
  <2>1. CASE gRx.op = "download" /\ CmdDownload(gRx)
    <3>1. CASE BadSize(gRx.n) BY <1>0, <1>3, <1>4, <2>1, <3>1 DEF CmdDownload
    <3>2. CASE ~BadSize(gRx.n)
      <4>1. /\ tx' # <<>> /\ Head(tx') = "DATA" /\ mState' = "Data" /\ mBytesReceivedSoFar' = 0
            /\ mNumDataBytes' = gRx.n /\ mpc' = mpc
        BY <1>1, <2>1, <3>2 DEF CmdDownload
      <4>2. LineInv' BY <1>0, <4>1 DEF LineInv
      <4>3. ~Owes' BY <4>1 DEF AcceptCmd, Owes
      <4>4. HandInv' BY <1>0, <1>4, <4>1, <4>3 DEF HandInv
      <4>5. DataInv' BY <1>0, <2>1, <4>1 DEF DataInv, Count
      <4> QED BY <4>2, <4>4, <4>5
    <3> QED BY <3>1, <3>2
  <2>2. CASE gRx.op = "flash" /\ CmdFlash(gRx)
    <3>1. mpc' = "flash" /\ cur' = gRx /\ UNCHANGED <<tx, dlVars>> BY <2>2 DEF CmdFlash
    <3>2. LineInv' BY <3>1 DEF LineInv
    <3>3. HandInv' BY <1>4, <2>2, <3>1 DEF HandInv
    <3>4. DataInv' BY <1>0, <3>1 DEF DataInv
    <3> QED BY <3>2, <3>3, <3>4
  <2>3. CASE gRx.op \in {"erase", "continue"} /\ CmdWait(gRx)
    <3>1. mpc' \in {"erase", "continue"} /\ UNCHANGED <<tx, dlVars>> BY <2>3 DEF CmdWait
    <3>2. LineInv' BY <3>1 DEF LineInv
    <3>3. HandInv' BY <1>4, <3>1 DEF HandInv
    <3>4. DataInv' BY <1>0, <3>1 DEF DataInv
    <3> QED BY <3>2, <3>3, <3>4
  <2>4. CASE gRx.op = "getvar" /\ CmdGetVar(gRx)
    BY <1>0, <1>3, <1>4, <2>4 DEF CmdGetVar
  <2>5. CASE gRx.op = "getvarall" /\ CmdGetVarAll(gRx)
    BY <1>3, <1>4, <2>5 DEF CmdGetVarAll
  <2>6. CASE gRx.op = "reboot" /\ CmdReboot(gRx)
    BY <1>3, <1>4, <2>6 DEF CmdReboot
  <2>7. CASE gRx.op = "unknown" /\ CmdUnknown
    BY <1>0, <1>3, <1>4, <2>7 DEF CmdUnknown
  <2> QED BY <1>4, <2>1, <2>2, <2>3, <2>4, <2>5, <2>6, <2>7 DEF Dispatch
<1> QED BY <1>0, <1>2, <1>3, <1>4 DEF AcceptCmd, PutOff

\* What HandleUsbEvents and the timers do, the host is told.
LEMMA EventPhase ==
  ASSUME TypeInv, StepInv, PhaseInv,
         HandleConnected \/ ProcessBulkXfrCompleteTx \/ ProcessBulkXfrCompleteRx
           \/ AcceptCmdHandler \/ FlashCompleteHandler
  PROVE  PhaseInv'
<1> USE DEF PhaseInv
<1>0. /\ hostSent \in Nat /\ mBytesReceivedSoFar \in Nat /\ mNumDataBytes \in Nat
      /\ mState \in {"Cmd", "Data"} /\ rxDone \in BOOLEAN
      /\ connected /\ OneInAir
  BY DEF TypeInv, TypeOK, UsbTypeOK, HostTypeOK, DownloadTypeOK, Cmd, StepInv, PlaceInv
<1>1. CASE HandleConnected \/ ProcessBulkXfrCompleteTx
  <2>1. UNCHANGED <<hostVars, rxDone, gRx, tx, dlVars, timerVars, mainVars>>
    BY <1>1 DEF HandleConnected, ProcessBulkXfrCompleteTx
  <2>2. Owes' = Owes BY <2>1 DEF Owes
  <2>3. LineInv' /\ DataInv' BY <2>1 DEF LineInv, DataInv
  <2>4. HandInv' BY <2>1, <2>2 DEF HandInv
  <2> QED BY <2>3, <2>4
<1>2. CASE ProcessBulkXfrCompleteRx
  <2>1. /\ CanPoll /\ rxDone /\ rxDone' = FALSE
        /\ tx = <<>> /\ ~okayDelay /\ ~Owes /\ ~deferred
        /\ UNCHANGED <<hostWait, hostCmd, hostSent, gRx>>
    BY <1>0, <1>2, Alone DEF ProcessBulkXfrCompleteRx
  <2>2. CASE mState = "Cmd" /\ AcceptCmd(gRx) /\ UNCHANGED <<rx, okayDelay>>
    <3>1. hostWait = "cmd" /\ gRx = hostCmd BY <2>1, <2>2 DEF HandInv
    <3> QED BY <1>0, <2>1, <2>2, <3>1, AcceptPhase DEF CanPoll
  <2>3. CASE mState = "Data" /\ AcceptData
    <3> DEFINE got == mBytesReceivedSoFar + 1
    <3>1. /\ mBytesReceivedSoFar' = got /\ UNCHANGED <<mNumDataBytes, deferred, mpc, cur, job>>
      BY <2>3 DEF AcceptData
    <3>2. mpc \in {"loop", "inline"} BY <2>1 DEF CanPoll
    <3>3. ~Owes' BY <2>1, <3>1 DEF Owes
    <3>4. /\ hostSent = got /\ mNumDataBytes = hostCmd.n /\ hostCmd.op = "download"
          /\ hostWait \in {"data", "dataend"}
      BY <1>0, <2>1, <2>3 DEF DataInv, HandInv, Count
    <3>5. CASE got = mNumDataBytes
      <4>1. /\ mState' = "Cmd"
            /\ \/ Send(<<"OKAY">>) /\ okayDelay' = okayDelay
               \/ okayDelay' = TRUE /\ tx' = tx
               \/ Send(<<"FAIL">>) /\ okayDelay' = okayDelay
        BY <2>3, <3>5 DEF AcceptData
      <4>2. ASSUME NEW r \in {"OKAY", "FAIL"}, Send(<<r>>) PROVE tx' # <<>> /\ Head(tx') = r
        BY <1>0, <2>1, <4>2, SendOne DEF Responses
      <4>3. hostWait = "dataend" BY <1>0, <3>4, <3>5 DEF DataInv
      <4>4. LineInv' BY <2>1, <3>1, <3>2, <4>1, <4>2, <4>3 DEF LineInv
      <4>5. HandInv' BY <2>1, <3>1, <3>2, <3>3, <4>1, <4>3 DEF HandInv
      <4>6. DataInv' BY <2>1, <3>1, <3>4, <4>1, <4>3 DEF DataInv
      <4> QED BY <4>4, <4>5, <4>6
    <3>6. CASE got # mNumDataBytes
      <4>1. UNCHANGED <<mState, tx, okayDelay>> BY <2>3, <3>6 DEF AcceptData
      <4>2. LineInv' BY <2>1, <4>1 DEF LineInv
      <4>3. HandInv' BY <2>1, <2>3, <3>1, <3>2, <3>3, <4>1 DEF HandInv
      <4>4. DataInv' BY <1>0, <2>1, <2>3, <3>1, <3>4, <3>6, <4>1 DEF DataInv, Count
      <4> QED BY <4>2, <4>3, <4>4
    <3> QED BY <3>5, <3>6
  <2> QED BY <1>2, <2>2, <2>3 DEF ProcessBulkXfrCompleteRx
<1>3. CASE AcceptCmdHandler
  <2>1. /\ mpc \in {"loop", "inline"} /\ deferred /\ AcceptCmd(gRx)
        /\ tx = <<>> /\ ~okayDelay /\ ~Owes /\ ~rxDone
        /\ UNCHANGED <<hostWait, hostCmd, hostSent, gRx, rxDone, okayDelay>>
    BY <1>0, <1>3, Alone DEF AcceptCmdHandler, CanCallback
  <2>2. mState = "Cmd" BY <2>1 DEF StepInv, PlaceInv
  <2>3. rxDone' = FALSE BY <1>0, <2>1
  <2>4. hostWait = "cmd" /\ gRx = hostCmd BY <2>1 DEF HandInv
  <2> QED BY <1>0, <2>1, <2>2, <2>3, <2>4, AcceptPhase
<1>4. CASE FlashCompleteHandler
  <2>1. /\ okayDelay /\ okayDelay' = FALSE /\ mState = "Cmd" /\ mpc \in {"loop", "inline"}
        /\ hostWait = "dataend" /\ tx = <<>>
        /\ UNCHANGED <<hostVars, rxVars, dlVars, deferred, mainVars>>
    BY <1>0, <1>4, Alone DEF FlashCompleteHandler, CanCallback, StepInv, PlaceInv, HandInv
  <2>2. tx' # <<>> /\ Head(tx') \in {"OKAY", "FAIL"}
    BY <1>0, <1>4, <2>1, SendOne DEF FlashCompleteHandler, Responses
  <2>3. Owes' = Owes BY <2>1 DEF Owes
  <2>4. LineInv' BY <2>1, <2>2 DEF LineInv
  <2>5. HandInv' BY <2>1, <2>3 DEF HandInv
  <2>6. DataInv' BY <2>1 DEF DataInv
  <2> QED BY <2>4, <2>5, <2>6
<1> QED BY <1>1, <1>2, <1>3, <1>4

\* A command that ends owes nothing, whatever it goes back to.
LEMMA ReturnAnswered ==
  ASSUME TimerInv, Return PROVE ~Owes' /\ mpc' \in {"loop", "inline"}
BY DEF TimerInv, Return, Owes

\* The main loop answers the command the host waits for.
LEMMA MainPhase ==
  ASSUME AlwaysAnswers, TypeInv, StepInv, PhaseInv,
         ExchangeAndFlash \/ InlineWrite \/ InlineDone \/ InlineFail
           \/ CmdErase \/ RebootDevice \/ CmdContinue \/ InfoSent \/ InfoOther
  PROVE  PhaseInv'
<1> USE DEF PhaseInv
<1>0. /\ mState \in {"Cmd", "Data"} /\ job \in Job
      /\ connected /\ OneInAir /\ StepInv' /\ TimerInv
  BY ExchangeStep, MainStep
     DEF TypeInv, TypeOK, UsbTypeOK, DownloadTypeOK, FlashTypeOK, StepInv, PlaceInv
<1>1. ASSUME Owes, ~Owes', mpc' \in {"loop", "off", "inline"}, 
             UNCHANGED <<hostVars, rxDone, gRx, dlVars, okayDelay, deferred>>,
             Send(<<"OKAY">>) \/ Send(<<"FAIL">>)
      PROVE  PhaseInv'
  <2>1. hostWait = "cmd" /\ mState = "Cmd" /\ tx = <<>> /\ ~rxDone /\ ~deferred /\ ~okayDelay
    BY <1>0, <1>1, Alone DEF HandInv, StepInv, PlaceInv
  <2>2. tx' # <<>> /\ Head(tx') \in {"OKAY", "FAIL"}
    BY <1>0, <1>1, <2>1, SendOne DEF Responses
  <2>3. LineInv' BY <1>1, <2>1, <2>2 DEF LineInv
  <2>4. HandInv' BY <1>1, <2>1 DEF HandInv
  <2>5. DataInv' BY <1>1, <2>1 DEF DataInv
  <2> QED BY <2>3, <2>4, <2>5
<1>2. ASSUME Owes' = Owes, mpc' # "flash",
             mpc # "info" /\ mpc' # "info",
             UNCHANGED <<hostVars, rxDone, gRx, dlVars, okayDelay, deferred, tx>>
      PROVE  PhaseInv'
  <2>1. LineInv' BY <1>2 DEF LineInv
  <2>2. HandInv' BY <1>2 DEF HandInv
  <2>3. DataInv' BY <1>2 DEF DataInv
  <2> QED BY <2>1, <2>2, <2>3
<1>3. CASE ExchangeAndFlash
  <2> DEFINE b == mUsbDataBuffer
  <2>1. /\ mpc = "flash" /\ Owes
        /\ UNCHANGED <<hostVars, rxDone, gRx, dlVars, okayDelay, deferred>>
    BY <1>3 DEF ExchangeAndFlash, Owes
  <2>2. mpc' \in {"loop", "inline"}
    BY <1>3 DEF ExchangeAndFlash, FinishFlashCmd, FlashParallel, ResumeThread, BeginInline, Return
  <2>3. \/ (Send(<<"OKAY">>) \/ Send(<<"FAIL">>)) /\ ~Owes'
        \/ tx' = tx /\ Owes'
    <3>1. Header(b) \notin CritMetaImages BY DEF AlwaysAnswers
    <3>2. \/ FinishFlashCmd(<<"FAIL">>) \/ FlashParallel(b)
          \/ BeginInline(b, FALSE) /\ tx' = tx
      BY <1>3, <3>1 DEF ExchangeAndFlash
    <3>3. ASSUME NEW e \in BOOLEAN, BeginInline(b, e) PROVE mpc' = "inline" /\ job'.early = e
      BY <3>3 DEF BeginInline, NewJob
    <3>4. Return => ~Owes' BY <1>0, ReturnAnswered
    <3>5. CASE FinishFlashCmd(<<"FAIL">>) BY <3>4, <3>5 DEF FinishFlashCmd
    <3>6. CASE BeginInline(b, FALSE) /\ tx' = tx BY <3>3, <3>6 DEF Owes
    <3>7. CASE FlashParallel(b)
      <4>1. CASE \E t \in Threads : ResumeThread(t, b) BY <3>4, <4>1 DEF ResumeThread
      <4>2. CASE Send(<<"OKAY">>) /\ BeginInline(b, TRUE) BY <3>3, <4>2 DEF Owes
      <4> QED BY <3>6, <3>7, <4>1, <4>2 DEF FlashParallel, AlwaysAnswers
    <3> QED BY <3>2, <3>5, <3>6, <3>7
  <2>4. CASE ~Owes' BY <1>1, <2>1, <2>2, <2>3, <2>4
  <2>5. CASE tx' = tx /\ Owes' BY <1>2, <2>1, <2>2, <2>5 DEF Owes
  <2> QED BY <2>3, <2>4, <2>5
<1>4. CASE InlineWrite
  <2>1. /\ mpc = "inline" /\ mpc' = mpc /\ job' = [job EXCEPT !.k = job.k + 1]
        /\ UNCHANGED <<hostVars, rxDone, gRx, dlVars, okayDelay, deferred, tx>>
    BY <1>4 DEF InlineWrite
  <2>2. job'.early = job.early BY <1>0, <2>1 DEF Job
  <2>3. Owes' = Owes BY <2>1, <2>2 DEF Owes
  <2> QED BY <1>2, <2>1, <2>3
<1>5. ASSUME NEW result \in {"ok", "err"}, mpc = "inline", EndInline(result) PROVE PhaseInv'
  <2>1. /\ mpc' \in {"loop", "inline"} /\ ~Owes'
        /\ UNCHANGED <<hostVars, rxDone, gRx, dlVars, okayDelay, deferred>>
    BY <1>0, <1>5, ReturnAnswered DEF EndInline
  <2>2. ~Owes' /\ (Owes <=> ~job.early) BY <1>5, <2>1 DEF Owes
  <2>3. Answers(job) <=> ~job.early BY <1>5 DEF Answers, StepInv, TimerInv, AlwaysAnswers
  <2>4. CASE job.early
    <3>1. tx' = tx BY <1>5, <2>3, <2>4 DEF EndInline
    <3>2. Owes' = Owes BY <2>2, <2>4 DEF Owes
    <3> QED BY <1>2, <1>5, <2>1, <3>1, <3>2
  <2>5. CASE ~job.early
    <3>1. Send(<<"OKAY">>) \/ Send(<<"FAIL">>) BY <1>5, <2>3, <2>5 DEF EndInline
    <3> QED BY <1>1, <2>1, <2>2, <2>5, <3>1
  <2> QED BY <2>4, <2>5
<1>6. CASE InlineDone \/ InlineFail BY <1>5, <1>6 DEF InlineDone, InlineFail
<1>7. CASE CmdErase \/ CmdContinue
  <2>1. Owes /\ (Send(<<"OKAY">>) \/ Send(<<"FAIL">>)) /\ (Return \/ mpc' = "off")
    BY <1>7 DEF CmdErase, CmdContinue, Owes
  <2>2. ~Owes' /\ mpc' \in {"loop", "off", "inline"} BY <1>0, <2>1, ReturnAnswered DEF Owes
  <2>3. UNCHANGED <<hostVars, rxDone, gRx, dlVars, okayDelay, deferred>>
    BY <1>7 DEF CmdErase, CmdContinue
  <2> QED BY <1>1, <2>1, <2>2, <2>3
<1>8. CASE RebootDevice BY <1>2, <1>8 DEF RebootDevice, Owes
<1>9. CASE InfoSent
  <2>1. /\ mpc = "info" /\ mpc' \in {"loop", "inline"} /\ Send(<<"OKAY">>)
        /\ UNCHANGED <<hostVars, rxVars, dlVars, timerVars>>
    BY <1>0, <1>9, ReturnAnswered DEF InfoSent
  <2>2. tx = <<>> /\ ~rxDone /\ ~deferred /\ ~okayDelay
    <3>1. tx # <<>> \/ txDone > 0 BY <2>1 DEF StepInv, PlaceInv
    <3>2. txDone \in {0, 1} BY <1>0 DEF OneInAir
    <3> QED BY <1>0, <1>9, <3>1, <3>2, Alone DEF InfoSent
  <2>3. hostWait = "cmd" BY <2>1 DEF HandInv
  <2>4. mState = "Cmd" BY <1>0, <2>2, <2>3 DEF DataInv
  <2>5. tx' # <<>> /\ Head(tx') = "OKAY" BY <1>0, <2>1, <2>2, SendOne DEF Responses
  <2>6. LineInv' BY <2>1, <2>3, <2>4, <2>5 DEF LineInv
  <2>7. HandInv' BY <2>1, <2>2, <2>3 DEF HandInv
  <2>8. DataInv' BY <2>1, <2>3, <2>4 DEF DataInv
  <2> QED BY <2>6, <2>7, <2>8
<1>10. CASE InfoOther
  <2>1. mpc = "info" /\ (evConnect \/ rxDone) BY <1>10 DEF InfoOther
  <2>2. tx # <<>> \/ txDone # 0 BY <2>1 DEF StepInv, PlaceInv
  <2> QED BY <1>0, <2>1, <2>2, Alone
<1> QED BY <1>3, <1>4, <1>6, <1>7, <1>8, <1>9, <1>10

\* Every step keeps host and device agreed.
LEMMA NextPhase ==
  ASSUME AlwaysAnswers, TypeInv, StepInv, PhaseInv, [Next]_vars
  PROVE  PhaseInv'
<1>1. CASE UNCHANGED <<hostVars, rxVars, tx, dlVars, timerVars, mainVars>>
  BY <1>1 DEF PhaseInv, LineInv, HandInv, DataInv, Owes
<1>2. CASE \E t \in Threads : Flasher(t)
  BY <1>1, <1>2 DEF Flasher, ThreadAcquire, ThreadBegin, ThreadWrite, ThreadEnd
<1>3. CASE Done \/ UNCHANGED vars BY <1>1, <1>3 DEF Done, vars
<1> QED BY <1>2, <1>3, HostPhaseStep, EventPhase, MainPhase DEF Next, Device

-----------------------------------------------------------------------------
(***************************************************************************)
(* The image the host means to flash lies in the half of the buffer that   *)
(* USB fills, from its last byte until the halves are exchanged.           *)
(***************************************************************************)
\* Image x, if there is one, fills the first n units of m.
Holds(x, n, m) ==
  x # NoImage => /\ n = ImageSize[x] /\ n <= MaxDownLoadSize
                 /\ \A u \in 1..n : m[u] = x

\* The image the host means to flash lies in the half that USB fills, from its
\* last byte until the exchange.
KeptInv ==
  /\ hostWait # "none" /\ hostCmd.op \in {"download", "flash"} => hostImage = NoImage
  /\ Holds(hostImage, mNumDataBytes, mem[mUsbDataBuffer])
  /\ hostCmd.op = "flash" /\ (rxDone \/ deferred \/ mpc = "flash") =>
       Holds(hostCmd.img, mNumDataBytes, mem[mUsbDataBuffer])

\* What the host has sent of an image is in that half.
SentInv ==
  /\ hostCmd.op = "download" => hostCmd.n \in {0, ImageSize[hostCmd.img]}
  /\ hostWait \in {"data", "dataend"} =>
       /\ hostCmd.n = ImageSize[hostCmd.img] /\ hostCmd.n <= MaxDownLoadSize
       /\ \A u \in 1..hostSent : mem[mUsbDataBuffer][u] = hostCmd.img

\* Where the host's image is.
ImageInv == KeptInv /\ SentInv

\* A flash is of the image downloaded last, a download announces its size or none.
LEMMA CommandImage ==
  ASSUME NEW c \in HostCommands
  PROVE  /\ c.op = "flash" => c.img = hostImage
         /\ c.op = "download" => c.n \in {0, ImageSize[c.img]}
BY DEF HostCommands, Command, Ops

\* The host sends its image unit by unit to the next free place.
LEMMA HostImageStep ==
  ASSUME AlwaysAnswers, TypeInv, StepInv, PhaseInv, ImageInv, Host
  PROVE  ImageInv'
<1> USE DEF ImageInv
<1>0. /\ drops \in Nat /\ hostCmd \in Cmd /\ hostSent \in Nat /\ hostCmd.n \in Nat
      /\ mem \in [Buf -> [1..MaxDownLoadSize -> Units]] /\ mUsbDataBuffer \in Buf
      /\ MaxDownLoadSize \in Nat /\ connected /\ OneInAir /\ tx \in Seq(Responses)
      /\ hostWait \in {"none", "cmd", "data", "dataend"}
  BY FastbootAssumption
     DEF TypeInv, TypeOK, UsbTypeOK, HostTypeOK, DownloadTypeOK, Cmd, StepInv, PlaceInv
<1>1. CASE HostSend
  <2>1. PICK c \in HostCommands :
          /\ hostCmd' = c /\ gRx' = c
          /\ hostImage' = IF c.op \in {"download", "flash"} THEN NoImage ELSE hostImage
    BY <1>1 DEF HostSend
  <2>2. hostWait' = "cmd" /\ UNCHANGED <<dlVars, bufVars, mem>> BY <1>1 DEF HostSend
  <2>3. KeptInv' BY <2>1, <2>2, CommandImage DEF KeptInv, Holds
  <2>4. SentInv' BY <2>1, <2>2, CommandImage DEF SentInv
  <2> QED BY <2>3, <2>4
<1>2. CASE HostSendData
  <2>1. /\ hostWait = "data" /\ rx.on /\ hostSent' = hostSent + 1
        /\ hostWait' \in {"data", "dataend"}
        /\ mem' = IF rx.buf \in Buf
                  THEN [mem EXCEPT ![rx.buf][rx.off + 1] = hostCmd.img] ELSE mem
        /\ UNCHANGED <<hostCmd, hostImage, dlVars, bufVars, timerVars, mainVars>>
    BY <1>2 DEF HostSendData
  <2>2. mState = "Data" /\ hostSent < hostCmd.n /\ hostCmd.op = "download"
    BY <2>1 DEF PhaseInv, DataInv
  <2>3. ~rxDone BY <1>0, <2>1, Alone
  <2>4. hostSent = mBytesReceivedSoFar
    BY <1>0, <2>2, <2>3 DEF PhaseInv, DataInv, Count, TypeInv, TypeOK, DownloadTypeOK
  <2>5. rx.buf = mUsbDataBuffer /\ rx.off = hostSent
    BY <2>1, <2>2, <2>4 DEF StepInv, RxMatchesState
  <2>6. mem' = [mem EXCEPT ![mUsbDataBuffer][hostSent + 1] = hostCmd.img] BY <1>0, <2>1, <2>5
  <2>7. /\ mem'[mUsbDataBuffer][hostSent + 1] = hostCmd.img
        /\ \A u \in 1..hostSent : mem'[mUsbDataBuffer][u] = mem[mUsbDataBuffer][u]
    <3>1. hostSent + 1 \in 1..MaxDownLoadSize BY <1>0, <2>1, <2>2 DEF SentInv
    <3> QED BY <1>0, <2>6, <3>1
  <2>8. SentInv'
    <3>1. \A u \in 1..(hostSent + 1) : mem'[mUsbDataBuffer][u] = hostCmd.img
      <4>1. SUFFICES ASSUME NEW u \in 1..(hostSent + 1) PROVE mem'[mUsbDataBuffer][u] = hostCmd.img
        OBVIOUS
      <4>2. u = hostSent + 1 \/ u \in 1..hostSent BY <1>0
      <4> QED BY <2>1, <2>7, <4>2 DEF SentInv
    <3> QED BY <2>1, <3>1 DEF SentInv
  <2>9. hostImage' = NoImage BY <2>1, <2>2 DEF KeptInv
  <2>10. KeptInv' BY <2>1, <2>2, <2>9 DEF KeptInv, Holds
  <2> QED BY <2>8, <2>10
<1>3. CASE HostRecv
  <2> DEFINE r == Head(tx)
  <2>1. /\ hostWait \in {"cmd", "dataend"} /\ tx # <<>>
        /\ hostWait' = CASE r \in {"OKAY", "FAIL"} -> "none"
                        [] r = "DATA" /\ hostCmd.op = "download" -> "data"
                        [] OTHER -> hostWait
        /\ hostImage' = IF hostWait = "dataend" /\ r = "OKAY" THEN hostCmd.img ELSE hostImage
        /\ UNCHANGED <<hostCmd, hostSent, rxVars, dlVars, bufVars, mem, timerVars, mainVars>>
    BY <1>3 DEF HostRecv
  <2>2. CASE hostWait = "dataend" /\ r = "OKAY"
    <3>1. hostWait' = "none" /\ hostImage' = hostCmd.img BY <2>1, <2>2
    <3>2. mNumDataBytes = hostCmd.n /\ hostSent = hostCmd.n /\ hostCmd.op = "download"
      BY <2>2 DEF PhaseInv, DataInv
    <3>3. Holds(hostCmd.img, mNumDataBytes, mem[mUsbDataBuffer])
      BY <2>2, <3>2 DEF SentInv, Holds
    <3>4. KeptInv' BY <2>1, <3>1, <3>2, <3>3 DEF KeptInv
    <3>5. SentInv' BY <2>1, <3>1 DEF SentInv
    <3> QED BY <3>4, <3>5
  <2>3. CASE ~(hostWait = "dataend" /\ r = "OKAY")
    <3>1. hostImage' = hostImage BY <2>1, <2>3
    <3>2. KeptInv' BY <2>1, <3>1 DEF KeptInv
    <3>3. CASE r = "DATA" /\ hostCmd.op = "download"
      <4>1. mState = "Data" BY <2>1, <3>3 DEF PhaseInv, LineInv
      <4>2. mNumDataBytes = hostCmd.n /\ hostCmd.n <= MaxDownLoadSize /\ hostCmd.n > 0
        BY <4>1 DEF PhaseInv, DataInv, StepInv, ReceiveInBounds, TypeInv, TypeOK, DownloadTypeOK
      <4>3. hostWait' = "data" BY <2>1, <3>3
      <4>4. ~rxDone BY <1>0, <2>1, Alone
      <4>5. hostSent = 0
        BY <2>1, <4>1, <4>4 DEF PhaseInv, DataInv, Count, StepInv, PlaceInv
      <4> QED BY <2>1, <3>2, <3>3, <4>2, <4>3, <4>5 DEF SentInv
    <3>4. CASE ~(r = "DATA" /\ hostCmd.op = "download")
      <4>1. hostWait' \in {"none", hostWait} BY <2>1, <3>4
      <4> QED BY <2>1, <3>2, <4>1 DEF SentInv
    <3> QED BY <3>3, <3>4
  <2> QED BY <2>2, <2>3
<1>4. ~Disconnect BY <1>0 DEF Disconnect, AlwaysAnswers
<1>5. ~Reconnect BY <1>0 DEF Reconnect
<1> QED BY <1>1, <1>2, <1>3, <1>4, <1>5 DEF Host

\* A command taken by AcceptCmd: only a download touches what describes the image.
LEMMA AcceptImage ==
  ASSUME ImageInv, AcceptCmd(gRx), mState = "Cmd", rxDone' = FALSE, mpc # "flash",
         hostWait = "cmd", gRx = hostCmd, rxDone \/ deferred,
         UNCHANGED <<hostVars, bufVars, mem>>
  PROVE  ImageInv'
<1> USE DEF ImageInv
<1>1. SentInv' BY DEF SentInv
<1>2. CASE mNumDataBytes' = mNumDataBytes BY <1>1, <1>2 DEF KeptInv
<1>3. CASE gRx.op = "download" /\ CmdDownload(gRx)
  <2>1. hostImage' = NoImage BY <1>3 DEF KeptInv
  <2> QED BY <1>1, <1>3, <2>1 DEF KeptInv, Holds
<1> QED BY <1>2, <1>3
   DEF AcceptCmd, PutOff, Dispatch, CmdFlash, CmdGetVar, CmdGetVarAll, CmdReboot, CmdWait, CmdUnknown

\* No step touches the image between its download and its flash.
LEMMA NextImage ==
  ASSUME AlwaysAnswers, TypeInv, StepInv, PhaseInv, ImageInv, [Next]_vars
  PROVE  ImageInv'
<1> USE DEF ImageInv
<1>0. OneInAir BY DEF StepInv
<1>1. ASSUME UNCHANGED <<hostVars, mNumDataBytes, mem>>, UNCHANGED mUsbDataBuffer,
             rxDone' => rxDone, deferred' => deferred, mpc' = "flash" => mpc = "flash"
      PROVE  ImageInv'
  BY <1>1 DEF KeptInv, SentInv
<1>2. CASE Host BY <1>2, HostImageStep
<1>3. CASE HandleConnected \/ ProcessBulkXfrCompleteTx \/ FlashCompleteHandler \/ InlineWrite
             \/ InlineDone \/ InlineFail \/ CmdErase \/ RebootDevice \/ CmdContinue
             \/ InfoSent \/ InfoOther
  <2>1. UNCHANGED <<hostVars, mNumDataBytes, mem, mUsbDataBuffer, deferred>>
    BY <1>3 DEF HandleConnected, ProcessBulkXfrCompleteTx, FlashCompleteHandler, InlineWrite,
       InlineDone, InlineFail, EndInline, CmdErase, RebootDevice, CmdContinue, InfoSent, InfoOther
  <2>3. rxDone' => rxDone
    <3>1. CASE InfoOther BY <3>1 DEF InfoOther
    <3>2. CASE HandleConnected \/ ProcessBulkXfrCompleteTx \/ FlashCompleteHandler
                 \/ InlineWrite \/ InlineDone \/ InlineFail
      BY <3>2, Zenon DEF HandleConnected, ProcessBulkXfrCompleteTx, FlashCompleteHandler,
         InlineWrite, InlineDone, InlineFail, EndInline
    <3>3. CASE CmdErase \/ RebootDevice \/ CmdContinue \/ InfoSent
      BY <3>3, Zenon DEF CmdErase, RebootDevice, CmdContinue, InfoSent
    <3> QED BY <1>3, <3>1, <3>2, <3>3
  <2>2. mpc' = "flash" => mpc = "flash"
    BY <1>3 DEF HandleConnected, ProcessBulkXfrCompleteTx, FlashCompleteHandler, InlineWrite,
       InlineDone, InlineFail, EndInline, CmdErase, RebootDevice, CmdContinue, InfoSent, InfoOther, Return
  <2> QED BY <1>1, <2>1, <2>2, <2>3
<1>4. CASE ProcessBulkXfrCompleteRx
  <2>1. /\ rxDone /\ rxDone' = FALSE /\ mpc # "flash"
        /\ UNCHANGED <<hostVars, bufVars, mem>>
    BY <1>4 DEF ProcessBulkXfrCompleteRx, CanPoll
  <2>2. CASE mState = "Cmd" /\ AcceptCmd(gRx)
    <3>1. hostWait = "cmd" /\ gRx = hostCmd BY <2>1, <2>2 DEF PhaseInv, HandInv
    <3> QED BY <2>1, <2>2, <3>1, AcceptImage
  <2>3. CASE AcceptData BY <1>1, <2>1, <2>3 DEF AcceptData
  <2> QED BY <1>4, <2>2, <2>3 DEF ProcessBulkXfrCompleteRx
<1>5. CASE AcceptCmdHandler
  <2>1. /\ deferred /\ ~rxDone /\ mpc # "flash" /\ AcceptCmd(gRx)
        /\ UNCHANGED <<hostVars, bufVars, mem, rxDone>>
    BY <1>0, <1>5, Alone DEF AcceptCmdHandler, CanCallback
  <2>2. mState = "Cmd" /\ hostWait = "cmd" /\ gRx = hostCmd
    BY <2>1 DEF StepInv, PlaceInv, PhaseInv, HandInv
  <2>3. rxDone' = FALSE BY <2>1 DEF TypeInv, TypeOK, UsbTypeOK
  <2> QED BY <2>1, <2>2, <2>3, AcceptImage
<1>6. CASE ExchangeAndFlash
  <2>1. /\ mpc = "flash" /\ Owes /\ UNCHANGED <<hostVars, rxDone, deferred, dlVars, mem>>
    BY <1>6 DEF ExchangeAndFlash, Owes
  <2>2. mpc' # "flash"
    BY <1>6 DEF ExchangeAndFlash, FinishFlashCmd, FlashParallel, ResumeThread, BeginInline, Return
  <2>3. hostWait = "cmd" /\ hostCmd.op = "flash" /\ ~rxDone /\ ~deferred
    BY <1>0, <2>1, Alone DEF PhaseInv, HandInv
  <2>4. hostImage' = NoImage BY <2>1, <2>3 DEF KeptInv
  <2>5. KeptInv' BY <2>1, <2>2, <2>3, <2>4 DEF KeptInv, Holds
  <2>6. SentInv' BY <2>1, <2>3 DEF SentInv
  <2> QED BY <2>5, <2>6
<1>7. CASE \E t \in Threads : Flasher(t)
  BY <1>1, <1>7 DEF Flasher, ThreadAcquire, ThreadBegin, ThreadWrite, ThreadEnd
<1>8. CASE Done \/ UNCHANGED vars BY <1>1, <1>8 DEF Done, vars
<1> QED BY <1>2, <1>3, <1>4, <1>5, <1>6, <1>7, <1>8 DEF Next, Device

-----------------------------------------------------------------------------
(***************************************************************************)
(* A flash reads the half that USB does not fill, and is the only writer   *)
(* of the medium.                                                          *)
(***************************************************************************)
\* Flash j is under way from half f, and what it wrote to p and has still to
\* read from m is the image the host sent for it.
Faithful(j, f, m, p) ==
  /\ j.st = "flash" /\ j.buf = f /\ j.part \in Parts
  /\ j.exp # NoImage =>
       /\ j.n <= j.sz
       /\ \A u \in 1..j.n : IF u <= j.k THEN p[j.part][u] = j.exp
                            ELSE u <= MaxDownLoadSize /\ m[j.buf][u] = j.exp

\* Every flash that was not overtaken is faithful, and reads the half USB does not fill.
JobInv ==
  /\ mUsbDataBuffer # mFlashDataBuffer
  /\ \A t \in Threads : thr[t].st # "none" => Faithful(thr[t], mFlashDataBuffer, mem, part)
  /\ mpc = "inline" /\ ~overtaken => Faithful(job, mFlashDataBuffer, mem, part)

\* FlashFaithful says the same of the set of flashes under way.
LEMMA JobFaithful == ASSUME JobInv PROVE FlashFaithful
<1>1. ASSUME NEW j, Faithful(j, mFlashDataBuffer, mem, part), j.exp # NoImage
      PROVE  /\ \A u \in 1..j.n : IF u <= j.k THEN part[j.part][u] = j.exp
                                  ELSE ReadUnit(j.buf, u) = j.exp
             /\ j.n <= j.sz
  BY <1>1 DEF Faithful, ReadUnit
<1>2. \A j \in Active : ~overtaken => Faithful(j, mFlashDataBuffer, mem, part)
  BY DEF JobInv, Active, ActiveThreads
<1> QED BY <1>1, <1>2 DEF FlashFaithful

\* The flash that CmdFlash starts is of the image that lies in its half.
LEMMA NewJobFaithful ==
  ASSUME TypeInv, PhaseInv, ImageInv, NEW early \in BOOLEAN, mpc = "flash", cur.part \in Parts
  PROVE  Faithful(NewJob("flash", mUsbDataBuffer, early), mUsbDataBuffer, mem, part)
<1> DEFINE b == mUsbDataBuffer
           j == NewJob("flash", b, early)
<1>1. /\ j.st = "flash" /\ j.buf = b /\ j.part = cur.part /\ j.exp = cur.img /\ j.k = 0
      /\ j.sz = mNumDataBytes
      /\ j.n = IF IsSparse(b) THEN ImageSize[Header(b)] ELSE mNumDataBytes
  BY DEF NewJob
<1>2. Holds(cur.img, mNumDataBytes, mem[b])
  BY DEF PhaseInv, HandInv, ImageInv, KeptInv
<1>3. ASSUME cur.img # NoImage
      PROVE  /\ j.n = mNumDataBytes /\ mNumDataBytes <= MaxDownLoadSize
             /\ \A u \in 1..mNumDataBytes : mem[b][u] = cur.img
  <2>1. cur.img \in Images BY <1>3 DEF TypeInv, TypeOK, MainTypeOK, Cmd
  <2>2. /\ mNumDataBytes = ImageSize[cur.img] /\ mNumDataBytes <= MaxDownLoadSize
        /\ \A u \in 1..mNumDataBytes : mem[b][u] = cur.img
    BY <1>2, <1>3 DEF Holds
  <2>3. 1 \in 1..mNumDataBytes BY <2>1, <2>2, FastbootAssumption
  <2>4. Header(b) = cur.img BY <2>2, <2>3 DEF Header
  <2> QED BY <1>1, <2>2, <2>4
<1>4. mNumDataBytes \in Nat /\ MaxDownLoadSize \in Nat
  BY FastbootAssumption DEF TypeInv, TypeOK, DownloadTypeOK
<1> HIDE DEF j
<1>5. ASSUME j.exp # NoImage
      PROVE  /\ j.n <= j.sz
             /\ \A u \in 1..j.n : IF u <= j.k THEN part[j.part][u] = j.exp
                                  ELSE u <= MaxDownLoadSize /\ mem[j.buf][u] = j.exp
  <2>1. /\ j.n = mNumDataBytes /\ mNumDataBytes <= MaxDownLoadSize
        /\ \A u \in 1..mNumDataBytes : mem[b][u] = cur.img
    BY <1>1, <1>3, <1>5
  <2>2. j.n <= j.sz BY <1>1, <1>4, <2>1
  <2>3. ASSUME NEW u \in 1..j.n
        PROVE  ~(u <= j.k) /\ u <= MaxDownLoadSize /\ mem[j.buf][u] = j.exp
    BY <1>1, <1>4, <2>1
  <2> QED BY <2>2, <2>3
<1> QED BY <1>1, <1>5 DEF Faithful, j

\* One write of a flash, with nobody else writing.
LEMMA WrittenFaithful ==
  ASSUME TypeInv, NEW j \in Job, Faithful(j, mFlashDataBuffer, mem, part), CanWrite(j),
         part' = Written(j)
  PROVE  Faithful([j EXCEPT !.k = j.k + 1], mFlashDataBuffer, mem, part')
<1> DEFINE i == [j EXCEPT !.k = j.k + 1]
<1>1. /\ i.st = j.st /\ i.buf = j.buf /\ i.part = j.part /\ i.exp = j.exp /\ i.n = j.n
      /\ i.sz = j.sz /\ i.k = j.k + 1
  BY DEF Job
<1>2. j.k \in Nat /\ j.n \in Nat /\ j.k < j.n /\ j.n <= PartSize[j.part] /\ j.part \in Parts
  BY DEF Job, CanWrite, Faithful
<1>3. PartSize[j.part] \in Nat /\ MaxDownLoadSize \in Nat BY <1>2, FastbootAssumption
<1>4. part[j.part] \in [1..PartSize[j.part] -> Units] /\ DOMAIN part = Parts
  BY <1>2 DEF TypeInv, TypeOK, FlashTypeOK
<1>5. /\ part'[j.part][j.k + 1] = ReadUnit(j.buf, j.k + 1)
      /\ \A u \in 1..j.k : part'[j.part][u] = part[j.part][u]
  <2>1. j.k + 1 \in 1..PartSize[j.part] BY <1>2, <1>3
  <2>2. part'[j.part] = [part[j.part] EXCEPT ![j.k + 1] = ReadUnit(j.buf, j.k + 1)]
    BY <1>2, <1>4 DEF Written
  <2>3. ASSUME NEW u \in 1..j.k PROVE part'[j.part][u] = part[j.part][u]
    BY <1>2, <1>3, <1>4, <2>2, <2>3
  <2> QED BY <1>4, <2>1, <2>2, <2>3
<1> HIDE DEF i
<1>6. ASSUME j.exp # NoImage, NEW u \in 1..j.n
      PROVE  IF u <= j.k + 1 THEN part'[j.part][u] = j.exp
             ELSE u <= MaxDownLoadSize /\ mem[j.buf][u] = j.exp
  <2>1. IF u <= j.k THEN part[j.part][u] = j.exp
        ELSE u <= MaxDownLoadSize /\ mem[j.buf][u] = j.exp
    BY <1>6 DEF Faithful
  <2>2. CASE u <= j.k BY <1>2, <1>5, <2>1, <2>2
  <2>3. CASE u = j.k + 1
    <3>1. u <= MaxDownLoadSize /\ mem[j.buf][u] = j.exp BY <1>2, <2>1, <2>3
    <3> QED BY <1>5, <2>3, <3>1 DEF ReadUnit
  <2>4. CASE u > j.k + 1 BY <1>2, <2>1, <2>4
  <2> QED BY <1>2, <2>2, <2>3, <2>4
<1> QED BY <1>1, <1>6 DEF Faithful, i

\* An erase names a partition.
EraseInv ==
  /\ gRx.op = "erase" => gRx.part \in Parts
  /\ mpc = "erase" => cur.part \in Parts

\* Only the host names the partition of an erase.
LEMMA NextErase == EraseInv /\ [Next]_vars => EraseInv'
<1> SUFFICES ASSUME EraseInv, [Next]_vars PROVE EraseInv' OBVIOUS
<1>1. ASSUME gRx' = gRx, UNCHANGED cur, mpc' = "erase" => mpc = "erase" PROVE EraseInv'
  BY <1>1 DEF EraseInv
<1>2. CASE HostSend
  <2>1. PICK c \in HostCommands : gRx' = c BY <1>2 DEF HostSend
  <2>2. c.op = "erase" => c.part \in Parts BY DEF HostCommands, Command, Ops
  <2> QED BY <1>2, <2>1, <2>2 DEF HostSend, EraseInv
<1>3. CASE HostSendData
  <2>1. gRx' \in {gRx, Unknown} /\ UNCHANGED mainVars BY <1>3 DEF HostSendData
  <2>2. Unknown.op # "erase" BY DEF Unknown, NoCmd
  <2> QED BY <2>1, <2>2 DEF EraseInv
<1>4. CASE HostRecv \/ Disconnect \/ Reconnect
  BY <1>1, <1>4 DEF HostRecv, Disconnect, Reconnect
<1>5. CASE ProcessBulkXfrCompleteRx \/ AcceptCmdHandler
  <2>1. gRx' = gRx BY <1>5 DEF ProcessBulkXfrCompleteRx, AcceptCmdHandler
  <2>2. AcceptData => UNCHANGED <<mpc, cur>> BY DEF AcceptData
  <2>3. ASSUME AcceptCmd(gRx)
        PROVE  \/ UNCHANGED <<mpc, cur>> \/ mpc' # "erase"
               \/ mpc' = gRx.op /\ cur' = gRx
    BY <2>3 DEF AcceptCmd, PutOff, Dispatch, CmdDownload, CmdFlash, CmdGetVar, CmdGetVarAll,
       CmdReboot, CmdWait, CmdUnknown
  <2> QED BY <1>5, <2>1, <2>2, <2>3 DEF ProcessBulkXfrCompleteRx, AcceptCmdHandler, EraseInv
<1>6. CASE HandleConnected \/ ProcessBulkXfrCompleteTx \/ FlashCompleteHandler \/ InlineWrite
             \/ InlineDone \/ InlineFail \/ CmdErase \/ RebootDevice \/ CmdContinue
             \/ InfoSent \/ InfoOther
  <2>1. gRx' = gRx /\ UNCHANGED cur
    BY <1>6 DEF HandleConnected, ProcessBulkXfrCompleteTx, FlashCompleteHandler, InlineWrite,
       InlineDone, InlineFail, EndInline, CmdErase, RebootDevice, CmdContinue, InfoSent, InfoOther
  <2>2. mpc' = "erase" => mpc = "erase"
    BY <1>6 DEF HandleConnected, ProcessBulkXfrCompleteTx, FlashCompleteHandler, InlineWrite,
       InlineDone, InlineFail, EndInline, CmdErase, RebootDevice, CmdContinue, InfoSent, InfoOther, Return
  <2> QED BY <1>1, <2>1, <2>2
<1>7. CASE ExchangeAndFlash
  <2>1. mpc' # "erase"
    BY <1>7 DEF ExchangeAndFlash, FinishFlashCmd, FlashParallel, ResumeThread, BeginInline, Return
  <2> QED BY <1>7, <2>1 DEF ExchangeAndFlash, EraseInv
<1>8. CASE \E t \in Threads : Flasher(t)
  BY <1>1, <1>8 DEF Flasher, ThreadAcquire, ThreadBegin, ThreadWrite, ThreadEnd
<1>9. CASE Done \/ UNCHANGED vars BY <1>1, <1>9 DEF Done, vars
<1> QED BY <1>2, <1>3, <1>4, <1>5, <1>6, <1>7, <1>8, <1>9 DEF Next, Host, Device

\* The inductive invariant behind FlashFaithful and ImplementsStore.
FaithfulInv == WaitInv /\ StepInv /\ PhaseInv /\ ImageInv /\ JobInv /\ EraseInv

\* No flash is under way when the halves are exchanged.
LEMMA ExchangeIdle ==
  ASSUME WaitInv, StepInv, ExchangeAndFlash
  PROVE  mpc = "flash" /\ \A t \in Threads : thr[t].st = "none"
<1>1. mpc = "flash" /\ (MThread => lockFlash = "free")
  BY DEF ExchangeAndFlash, ExchangeFlashAndUsbDataBuf
<1> QED BY <1>1, FastbootAssumption DEF WaitInv, EagerInv, LockInv, FlashLock, StepInv, TimerInv

\* At most one thread flashes, and not beside the main loop.
LEMMA OneFlasher ==
  ASSUME WaitInv, NEW t \in Threads, thr[t].st # "none"
  PROVE  mpc # "inline" /\ \A s \in Threads \ {t} : thr[s].st = "none"
BY FastbootAssumption DEF WaitInv, EagerInv, LockInv, FlashLock

\* What overtook a flash stays recorded.
LEMMA OvertakenStays == ASSUME [Next]_vars PROVE overtaken => overtaken'
<1>1. CASE UNCHANGED overtaken BY <1>1
<1>2. CASE Host BY <1>1, <1>2 DEF Host, HostSend, HostSendData, HostRecv, Disconnect, Reconnect
<1>3. CASE ProcessBulkXfrCompleteRx \/ AcceptCmdHandler
  <2>1. AcceptCmd(gRx) => (overtaken => overtaken') BY DEF AcceptCmd
  <2>2. AcceptData => UNCHANGED overtaken BY DEF AcceptData
  <2> QED BY <1>3, <2>1, <2>2 DEF ProcessBulkXfrCompleteRx, AcceptCmdHandler
<1>4. CASE HandleConnected \/ ProcessBulkXfrCompleteTx \/ FlashCompleteHandler \/ InlineWrite
             \/ InlineDone \/ InlineFail \/ CmdErase \/ RebootDevice \/ CmdContinue
             \/ InfoSent \/ InfoOther
  BY <1>1, <1>4 DEF HandleConnected, ProcessBulkXfrCompleteTx, FlashCompleteHandler, InlineWrite,
     InlineDone, InlineFail, EndInline, CmdErase, RebootDevice, CmdContinue, InfoSent, InfoOther, Return
<1>5. CASE ExchangeAndFlash
  BY <1>1, <1>5 DEF ExchangeAndFlash, FinishFlashCmd, FlashParallel, ResumeThread, BeginInline, Return
<1>6. CASE \E t \in Threads : Flasher(t)
  BY <1>1, <1>6 DEF Flasher, ThreadAcquire, ThreadBegin, ThreadWrite, ThreadEnd
<1>7. CASE Done \/ UNCHANGED vars BY <1>1, <1>7 DEF Done, vars
<1> QED BY <1>2, <1>3, <1>4, <1>5, <1>6, <1>7 DEF Next, Device

\* A command that ends goes back to the main loop, or overtook a flash.
LEMMA ReturnsTo == ASSUME StepInv, Return PROVE mpc' = "loop" \/ (mpc' = "inline" /\ overtaken')
BY DEF StepInv, TimerInv, Return

\* Every step keeps every flash faithful.
LEMMA NextJob ==
  ASSUME EagerThreads, AlwaysAnswers, FaithfulInv, [Next]_vars
  PROVE  JobInv'
<1> USE DEF FaithfulInv
<1>0. TypeInv /\ thr \in [Threads -> Job] /\ job \in Job /\ OneInAir
  BY DEF WaitInv, TypeInv, TypeOK, FlashTypeOK, StepInv
<1>12. overtaken => overtaken' BY OvertakenStays
<1>13. Return => (mpc' = "inline" => overtaken') BY ReturnsTo
<1>1. ASSUME UNCHANGED <<bufVars, mem, thr, part>>,
             mpc' = "inline" => overtaken' \/ (mpc = "inline" /\ job' = job)
      PROVE  JobInv'
  BY <1>1, <1>12 DEF JobInv
<1>2. CASE HostSendData
  <2>1. /\ rx.on /\ UNCHANGED <<bufVars, thr, part, mainVars>>
        /\ mem' = IF rx.buf \in Buf
                  THEN [mem EXCEPT ![rx.buf][rx.off + 1] = hostCmd.img] ELSE mem
    BY <1>2 DEF HostSendData
  <2>2. mState = "Data" BY <1>2 DEF HostSendData, PhaseInv, DataInv
  <2>3. rx.buf = mUsbDataBuffer BY <2>1, <2>2 DEF StepInv, RxMatchesState
  <2>4. mFlashDataBuffer # mUsbDataBuffer BY DEF JobInv
  <2>5. mem'[mFlashDataBuffer] = mem[mFlashDataBuffer]
    BY <1>0, <2>1, <2>3, <2>4 DEF TypeInv, TypeOK, DownloadTypeOK
  <2>6. ASSUME NEW j, Faithful(j, mFlashDataBuffer, mem, part)
        PROVE  Faithful(j, mFlashDataBuffer, mem', part)
    BY <2>5, <2>6 DEF Faithful
  <2> QED BY <2>1, <2>6 DEF JobInv
<1>3. CASE HostSend \/ HostRecv \/ Disconnect \/ Reconnect
  BY <1>1, <1>3 DEF HostSend, HostRecv, Disconnect, Reconnect
<1>4. CASE HandleConnected \/ ProcessBulkXfrCompleteTx \/ FlashCompleteHandler
             \/ RebootDevice \/ CmdContinue \/ InfoSent \/ InfoOther
  BY <1>1, <1>4, <1>13 DEF HandleConnected, ProcessBulkXfrCompleteTx, FlashCompleteHandler,
     RebootDevice, CmdContinue, InfoSent, InfoOther
<1>5. CASE ProcessBulkXfrCompleteRx \/ AcceptCmdHandler
  <2>1. UNCHANGED <<bufVars, mem, thr, part>>
    BY <1>5 DEF ProcessBulkXfrCompleteRx, AcceptCmdHandler
  <2>2. ASSUME NEW c, AcceptCmd(c) PROVE mpc' # "inline" \/ (mpc' = mpc /\ job' = job)
    BY <2>2 DEF AcceptCmd, PutOff, Dispatch, CmdDownload, CmdFlash, CmdGetVar, CmdGetVarAll,
       CmdReboot, CmdWait, CmdUnknown
  <2>3. AcceptData => mpc' = mpc /\ job' = job BY DEF AcceptData
  <2> QED BY <1>1, <1>5, <2>1, <2>2, <2>3 DEF ProcessBulkXfrCompleteRx, AcceptCmdHandler
<1>6. CASE ExchangeAndFlash
  <2> DEFINE b == mUsbDataBuffer
  <2>1. mpc = "flash" /\ \A t \in Threads : thr[t].st = "none" BY <1>6, ExchangeIdle
  <2>2. /\ mUsbDataBuffer' = mFlashDataBuffer /\ mFlashDataBuffer' = b
        /\ UNCHANGED <<mem, part>>
    BY <1>6 DEF ExchangeAndFlash, ExchangeFlashAndUsbDataBuf
  <2>3. mUsbDataBuffer' # mFlashDataBuffer' BY <2>2 DEF JobInv
  <2>4. CASE FinishFlashCmd(<<"FAIL">>) BY <1>13, <2>1, <2>3, <2>4 DEF FinishFlashCmd, JobInv
  <2>5. ASSUME NEW e \in BOOLEAN, BeginInline(b, e), cur.part \in Parts PROVE JobInv'
    <3>1. job' = NewJob("flash", b, e) /\ mpc' = "inline" /\ thr' = thr BY <2>5 DEF BeginInline
    <3>2. Faithful(job', b, mem, part) BY <1>0, <2>1, <2>5, <3>1, NewJobFaithful
    <3> QED BY <2>1, <2>2, <2>3, <3>1, <3>2 DEF JobInv
  <2>6. ASSUME MThread, NEW t \in Threads, ResumeThread(t, b), cur.part \in Parts PROVE JobInv'
    <3>1. thr' = [thr EXCEPT ![t] = NewJob("flash", b, TRUE)] /\ (mpc' = "inline" => overtaken')
      BY <1>13, <2>6 DEF ResumeThread, EagerThreads
    <3>2. Faithful(NewJob("flash", b, TRUE), b, mem, part)
      BY <1>0, <2>1, <2>6, NewJobFaithful
    <3>3. Faithful(thr'[t], b, mem, part) /\ \A s \in Threads \ {t} : thr'[s] = thr[s]
      BY <1>0, <3>1, <3>2
    <3> QED BY <2>1, <2>2, <2>3, <3>1, <3>3 DEF JobInv
  <2>7. cur.part # NoPart => cur.part \in Parts
    BY <1>0 DEF TypeInv, TypeOK, MainTypeOK, Cmd
  <2>8. \/ FinishFlashCmd(<<"FAIL">>)
        \/ cur.part # NoPart /\ FlashParallel(b)
        \/ cur.part # NoPart /\ BeginInline(b, FALSE)
    <3>1. Header(b) \notin CritMetaImages BY DEF AlwaysAnswers
    <3> QED BY <1>6, <3>1 DEF ExchangeAndFlash
  <2>9. FlashParallel(b) => \/ MThread /\ \E t \in Threads : ResumeThread(t, b)
                            \/ BeginInline(b, FALSE) \/ BeginInline(b, TRUE)
    BY DEF FlashParallel, AlwaysAnswers
  <2> QED BY <2>4, <2>5, <2>6, <2>7, <2>8, <2>9
<1>7. CASE InlineWrite
  <2>1. /\ mpc = "inline" /\ CanWrite(job) /\ part' = Written(job) /\ mpc' = mpc
        /\ job' = [job EXCEPT !.k = job.k + 1] /\ UNCHANGED <<bufVars, mem, thr, overtaken>>
    BY <1>7 DEF InlineWrite
  <2>2. \A t \in Threads : thr[t].st = "none" BY <2>1 DEF WaitInv, EagerInv
  <2>3. ~overtaken => Faithful(job', mFlashDataBuffer, mem, part')
    BY <1>0, <2>1, WrittenFaithful DEF JobInv
  <2> QED BY <2>1, <2>2, <2>3 DEF JobInv
<1>8. CASE InlineDone \/ InlineFail
  BY <1>1, <1>8, <1>13 DEF InlineDone, InlineFail, EndInline
<1>9. CASE CmdErase
  <2>1. /\ mpc = "erase" /\ FlashFinished /\ (mpc' = "inline" => overtaken')
        /\ UNCHANGED <<bufVars, thr>>
    BY <1>9, <1>13 DEF CmdErase
  <2>2. ActiveThreads = {} BY <2>1, EagerFinished
  <2>3. \A t \in Threads : thr[t].st = "none" BY <2>2 DEF ActiveThreads
  <2> QED BY <2>1, <2>3 DEF JobInv
<1>10. ASSUME NEW t \in Threads, Flasher(t) PROVE JobInv'
  <2>1. thr[t].st # "none"
    BY <1>10 DEF Flasher, ThreadAcquire, ThreadBegin, ThreadWrite, ThreadEnd, CanWrite
  <2>2. thr[t].st = "flash" BY <2>1 DEF WaitInv, EagerInv
  <2>3. mpc # "inline" /\ \A s \in Threads \ {t} : thr[s].st = "none" BY <2>1, OneFlasher
  <2>4. CASE ThreadWrite(t)
    <3>1. /\ CanWrite(thr[t]) /\ part' = Written(thr[t]) /\ UNCHANGED <<bufVars, mem, mpc>>
          /\ thr'[t] = [thr[t] EXCEPT !.k = thr[t].k + 1]
          /\ \A s \in Threads \ {t} : thr'[s] = thr[s]
      BY <1>0, <2>4 DEF ThreadWrite
    <3>2. Faithful(thr'[t], mFlashDataBuffer, mem, part')
      BY <1>0, <2>1, <3>1, WrittenFaithful DEF JobInv
    <3> QED BY <2>3, <3>1, <3>2 DEF JobInv
  <2>5. CASE ThreadEnd(t)
    <3>1. thr'[t].st = "none" /\ \A s \in Threads \ {t} : thr'[s] = thr[s]
      BY <1>0, <2>5 DEF ThreadEnd, NoJob
    <3> QED BY <2>3, <2>5, <3>1 DEF ThreadEnd, JobInv
  <2> QED BY <1>10, <2>2, <2>4, <2>5 DEF Flasher, ThreadAcquire, ThreadBegin
<1>11. CASE Done \/ UNCHANGED vars BY <1>1, <1>11 DEF Done, vars
<1> QED BY <1>2, <1>3, <1>4, <1>5, <1>6, <1>7, <1>8, <1>9, <1>10, <1>11 DEF Next, Host, Device

\* FastbootInitialize leaves no command, image or flash under way.
LEMMA InitFaithful == Init => FaithfulInv
<1> SUFFICES ASSUME Init PROVE FaithfulInv OBVIOUS
<1>1. ~Owes BY DEF Init, Owes
<1>2. StepInv BY InitStep
<1>4. PhaseInv BY <1>1 DEF Init, PhaseInv, LineInv, HandInv, DataInv
<1>5. ImageInv BY DEF Init, ImageInv, KeptInv, SentInv, Holds, NoCmd
<1>6. JobInv BY DEF Init, JobInv, NoJob
<1>7. WaitInv BY InitType, InitLock DEF Init, WaitInv, EagerInv, NoJob
<1>8. EraseInv BY DEF Init, EraseInv, NoCmd
<1> QED BY <1>2, <1>4, <1>5, <1>6, <1>7, <1>8 DEF FaithfulInv

\* The invariant is inductive.
LEMMA NextFaithful ==
  ASSUME EagerThreads, AlwaysAnswers, FaithfulInv, [Next]_vars
  PROVE  FaithfulInv'
BY NextType, NextLock, NextEager, NextStep, NextPhase, NextImage, NextJob, NextErase DEF FaithfulInv, WaitInv

\* In both builds, when a resumed thread runs at once: what a flash has written
\* and has still to read is the image its host downloaded, whatever the host
\* downloads meanwhile into the other half, until a command is let into a
\* running flash.
THEOREM FlashesFaithfully ==
  ASSUME EagerThreads, AlwaysAnswers
  PROVE  Spec => []FlashFaithful
<1>1. FaithfulInv /\ [Next]_vars => FaithfulInv' BY NextFaithful
<1>2. FaithfulInv => FlashFaithful BY JobFaithful DEF FaithfulInv
<1> QED BY <1>1, <1>2, InitFaithful, PTL DEF Spec

-----------------------------------------------------------------------------
(***************************************************************************)
(* The pipeline implements FlashStore: every step begins, advances or ends *)
(* the one flash under way, erases a partition or leaves fastboot while    *)
(* none is, or is no step of the store at all.                             *)
(***************************************************************************)
\* No thread flashes.
NoThread == \A t \in Threads : thr[t].st = "none"

\* The job the store sees.
WritingRight ==
  /\ \A t \in Threads : thr[t].st # "none" => Writing = thr[t]
  /\ NoThread => Writing = IF mpc = "inline" THEN job ELSE NoJob

\* The job in hand is that of the one thread that flashes, of the main loop, or none.
LEMMA WritingIs == WaitInv => WritingRight
<1> SUFFICES ASSUME WaitInv PROVE WritingRight OBVIOUS
<1>1. ASSUME NEW t \in Threads, thr[t].st # "none" PROVE Writing = thr[t]
  <2>1. ActiveThreads = {t} BY <1>1, OneFlasher DEF ActiveThreads
  <2> QED BY <2>1 DEF Writing
<1>2. NoThread => ActiveThreads = {} BY DEF ActiveThreads, NoThread
<1> QED BY <1>1, <1>2 DEF Writing, WritingRight

\* So it is after a step.
LEMMA WritingNext == WaitInv' => WritingRight'
BY WritingIs, PTL

\* A step that leaves the medium and the flash alone is no step of the store.
LEMMA StoreStutters ==
  ASSUME Writing' = Writing, part' = part, (mpc' = "off") <=> (mpc = "off"), overtaken' = overtaken
  PROVE  [Store!Next]_(Store!vars)
BY DEF Store!vars

\* The start of a flash is Begin.
LEMMA StoreBegins ==
  ASSUME TypeInv, Writing = NoJob, Writing'.st = "flash", Writing'.part \in Parts, Writing'.k = 0,
         Writing'.exp \in Images \cup {NoImage}, part' = part, mpc # "off", mpc' # "off",
         overtaken' = overtaken
  PROVE  Store!Next
<1>1. Store!Begin(Writing'.part, Writing'.exp) BY DEF Store!Begin, Store!Idle, NoJob
<1> QED BY <1>1 DEF Store!Next, Store!Promised

\* One write of the flash under way is Write: the unit is of the host's image.
LEMMA StoreWrites ==
  ASSUME TypeInv, Writing \in Job, Faithful(Writing, mFlashDataBuffer, mem, part),
         CanWrite(Writing), part' = Written(Writing),
         Writing' = [Writing EXCEPT !.k = Writing.k + 1], mpc' = mpc, overtaken' = overtaken
  PROVE  Store!Next
<1> DEFINE j == Writing
<1>1. /\ j.st = "flash" /\ j.k \in Nat /\ j.n \in Nat /\ j.k < j.n /\ j.n <= PartSize[j.part]
      /\ j.part \in Parts
  BY DEF Job, CanWrite, Faithful
<1>2. PartSize[j.part] \in Nat /\ MaxDownLoadSize \in Nat BY <1>1, FastbootAssumption
<1>3. DOMAIN part = Parts /\ part[j.part] \in [1..PartSize[j.part] -> Units]
  BY <1>1 DEF TypeInv, TypeOK, FlashTypeOK
<1>4. j.k + 1 \in 1..PartSize[j.part] BY <1>1, <1>2
<1>5. /\ Writing'.st = j.st /\ Writing'.part = j.part /\ Writing'.exp = j.exp
      /\ Writing'.k = j.k + 1
  BY DEF Job
<1>6. part' = [part EXCEPT ![j.part][j.k + 1] = ReadUnit(j.buf, j.k + 1)] BY DEF Written
<1> DEFINE seen == [on |-> Writing.st # "none", part |-> Writing.part, img |-> Writing.exp,
                    k |-> Writing.k]
<1>10. seen = [on |-> TRUE, part |-> j.part, img |-> j.exp, k |-> j.k] BY <1>1
<1>11. seen' = [on |-> TRUE, part |-> j.part, img |-> j.exp, k |-> j.k + 1] BY <1>1, <1>5
<1>12. seen.on /\ seen.part = j.part /\ seen.img = j.exp /\ seen.k = j.k BY <1>1
<1>13. seen' = [seen EXCEPT !.k = seen.k + 1]
  <2>1. [[on |-> TRUE, part |-> j.part, img |-> j.exp, k |-> j.k] EXCEPT !.k = j.k + 1]
          = [on |-> TRUE, part |-> j.part, img |-> j.exp, k |-> j.k + 1]
    <3> DEFINE o == TRUE
               m == j.k + 1
    <3> HIDE DEF o, m
    <3>1. [[on |-> o, part |-> j.part, img |-> j.exp, k |-> j.k] EXCEPT !.k = m]
            = [on |-> o, part |-> j.part, img |-> j.exp, k |-> m]
      OBVIOUS
    <3> QED BY <3>1 DEF o, m
  <2>2. seen.k = j.k BY <1>12
  <2>3. [seen EXCEPT !.k = seen.k + 1] = [seen EXCEPT !.k = j.k + 1] BY <2>2
  <2> HIDE DEF seen, j
  <2> QED BY <1>10, <1>11, <2>1, <2>3
<1>14. seen.k < PartSize[seen.part] BY <1>1, <1>2
<1>15. UNCHANGED (mpc = "off") OBVIOUS
<1>7. CASE j.exp # NoImage
  <2>1. j.k + 1 \in 1..j.n /\ ~(j.k + 1 <= j.k) BY <1>1
  <2>2. ReadUnit(j.buf, j.k + 1) = j.exp BY <1>7, <2>1 DEF Faithful, ReadUnit
  <2>3. part' = [part EXCEPT ![j.part][j.k + 1] = j.exp] BY <1>6, <2>2
  <2>4. Store!Write
    <3>1. part' = [part EXCEPT ![seen.part][seen.k + 1] = seen.img] BY <2>3
    <3> QED BY <1>7, <1>12, <1>13, <1>14, <1>15, <3>1 DEF Store!Write
  <2> QED BY <2>4 DEF Store!Next, Store!Promised
<1>8. CASE j.exp = NoImage
  <2>1. ASSUME NEW p \in Parts, NEW v \in 1..PartSize[p], <<p, v>> # <<j.part, j.k + 1>>
        PROVE  part'[p][v] = part[p][v]
    BY <1>3, <1>6, <2>1
  <2>2. DOMAIN part' = Parts BY <1>3, <1>6
  <2>3. Store!Write BY <1>4, <1>8, <1>12, <1>13, <1>14, <1>15, <2>1, <2>2 DEF Store!Write
  <2> QED BY <2>3 DEF Store!Next, Store!Promised
<1> QED BY <1>7, <1>8

\* The end of a flash, done or failed, is End.
LEMMA StoreEnds ==
  ASSUME Writing.st # "none", Writing'.st = "none", part' = part, (mpc' = "off") <=> (mpc = "off"),
         overtaken' = overtaken
  PROVE  Store!Next
<1>1. Store!End BY DEF Store!End
<1> QED BY <1>1 DEF Store!Next, Store!Promised

\* CmdFlash begins a flash in the store, or refuses.
LEMMA ExchangeStores ==
  ASSUME EagerThreads, AlwaysAnswers, FaithfulInv, FaithfulInv', ExchangeAndFlash,
         ~overtaken, overtaken' = overtaken
  PROVE  [Store!Next]_(Store!vars)
<1> DEFINE b == mUsbDataBuffer
<1>0. /\ TypeInv /\ WritingRight /\ WritingRight' /\ thr \in [Threads -> Job] /\ cur \in Cmd
  BY WritingIs, WritingNext DEF FaithfulInv, WaitInv, TypeInv, TypeOK, MainTypeOK, FlashTypeOK
<1>1. mpc = "flash" /\ NoThread BY ExchangeIdle DEF FaithfulInv, NoThread
<1>2. Writing = NoJob BY <1>0, <1>1 DEF WritingRight
<1>3. part' = part BY DEF ExchangeAndFlash
<1>4. ASSUME FinishFlashCmd(<<"FAIL">>) PROVE [Store!Next]_(Store!vars)
  <2>1. mpc' = "loop" /\ thr' = thr BY <1>4, ReturnsTo DEF FinishFlashCmd, FaithfulInv
  <2>2. Writing' = NoJob BY <1>0, <1>1, <2>1 DEF WritingRight, NoThread
  <2> QED BY <1>1, <1>2, <1>3, <2>1, <2>2, StoreStutters
<1>5. cur.img \in Images \cup {NoImage} BY <1>0 DEF Cmd
<1>6. ASSUME NEW e \in BOOLEAN, BeginInline(b, e), cur.part \in Parts PROVE Store!Next
  <2>1. job' = NewJob("flash", b, e) /\ mpc' = "inline" /\ thr' = thr BY <1>6 DEF BeginInline
  <2>2. Writing' = job' BY <1>0, <1>1, <2>1 DEF WritingRight, NoThread
  <2>3. job'.st = "flash" /\ job'.part = cur.part /\ job'.exp = cur.img /\ job'.k = 0
    BY <2>1 DEF NewJob
  <2> QED BY <1>0, <1>1, <1>2, <1>3, <1>5, <1>6, <2>1, <2>2, <2>3, StoreBegins
<1>7. ASSUME MThread, NEW t \in Threads, ResumeThread(t, b), cur.part \in Parts PROVE Store!Next
  <2>1. thr'[t] = NewJob("flash", b, TRUE) /\ mpc' = "loop"
    BY <1>0, <1>7, ReturnsTo DEF ResumeThread, EagerThreads, FaithfulInv
  <2>2. thr'[t].st = "flash" /\ thr'[t].part = cur.part /\ thr'[t].exp = cur.img /\ thr'[t].k = 0
    BY <2>1 DEF NewJob
  <2>3. Writing' = thr'[t] BY <1>0, <2>2 DEF WritingRight
  <2> QED BY <1>0, <1>1, <1>2, <1>3, <1>5, <1>7, <2>1, <2>2, <2>3, StoreBegins
<1>8. cur.part # NoPart => cur.part \in Parts BY <1>0 DEF Cmd
<1>9. \/ FinishFlashCmd(<<"FAIL">>)
      \/ cur.part # NoPart /\ FlashParallel(b)
      \/ cur.part # NoPart /\ BeginInline(b, FALSE)
  <2>1. Header(b) \notin CritMetaImages BY DEF AlwaysAnswers
  <2> QED BY <2>1 DEF ExchangeAndFlash
<1>10. FlashParallel(b) => \/ MThread /\ \E t \in Threads : ResumeThread(t, b)
                           \/ BeginInline(b, FALSE) \/ BeginInline(b, TRUE)
  BY DEF FlashParallel, AlwaysAnswers
<1> QED BY <1>4, <1>6, <1>7, <1>8, <1>9, <1>10

\* CmdErase, RebootDevice and CmdContinue act on a store at rest.
LEMMA WaitersStore ==
  ASSUME FaithfulInv, FaithfulInv', CmdErase \/ RebootDevice \/ CmdContinue,
         ~overtaken, overtaken' = overtaken
  PROVE  [Store!Next]_(Store!vars)
<1>0. WritingRight /\ WritingRight' /\ FlashTypeOK
  BY WritingIs, WritingNext DEF FaithfulInv, WaitInv, TypeInv, TypeOK
<1>1. /\ mpc \in {"erase", "reboot", "continue"} /\ FlashFinished /\ thr' = thr
      /\ mpc' \in {"loop", "off"}
  BY ReturnsTo DEF CmdErase, RebootDevice, CmdContinue, FaithfulInv
<1>2. NoThread BY <1>1, EagerFinished DEF FaithfulInv, ActiveThreads, NoThread
<1>3. Writing = NoJob /\ Writing' = NoJob
  BY <1>0, <1>1, <1>2 DEF WritingRight, NoThread
<1>4. CASE UNCHANGED part
  <2>1. CASE mpc' = "loop" BY <1>1, <1>3, <1>4, <2>1, StoreStutters
  <2>2. CASE mpc' = "off"
    <3>1. Store!Leave BY <1>1, <1>3, <1>4, <2>2 DEF Store!Leave, Store!Idle, NoJob
    <3> QED BY <3>1 DEF Store!Next, Store!Promised
  <2> QED BY <1>1, <2>1, <2>2
<1>5. CASE CmdErase /\ part' = [part EXCEPT ![cur.part] = [u \in DOMAIN @ |-> Blank]]
  <2>1. DOMAIN part = Parts BY <1>0 DEF FlashTypeOK
  <2>2. cur.part \in Parts /\ mpc' = "loop" BY <1>5, ReturnsTo DEF CmdErase, FaithfulInv, EraseInv
  <2>3. \A q \in Parts \ {cur.part} : part'[q] = part[q] BY <1>5, <2>1
  <2>4. part[cur.part] \in [1..PartSize[cur.part] -> Units] BY <1>0, <2>2 DEF FlashTypeOK
  <2>5. \A u \in 1..PartSize[cur.part] : part'[cur.part][u] = Blank
    BY <1>5, <2>1, <2>2, <2>4
  <2>6. Store!Erase(cur.part)
    BY <1>1, <1>3, <2>2, <2>3, <2>5 DEF Store!Erase, Store!Idle, NoJob
  <2> QED BY <2>2, <2>6 DEF Store!Next, Store!Promised
<1> QED BY <1>4, <1>5 DEF CmdErase, RebootDevice, CmdContinue

\* A command that is taken interrupts no flash, or overtakes it.
LEMMA TakesOrOvertakes ==
  ASSUME StepInv, TypeInv, ProcessBulkXfrCompleteRx \/ AcceptCmdHandler
  PROVE  \/ mpc = "inline" /\ overtaken' /\ mpc' \notin {"inline", "off"}
         \/ mpc' = mpc /\ UNCHANGED <<job, overtaken>>
         \/ mpc = "loop" /\ mpc' \notin {"inline", "off"} /\ UNCHANGED overtaken
<1>0. gRx \in Cmd /\ TimerInv BY DEF TypeInv, TypeOK, UsbTypeOK, StepInv
<1>1. mpc \in {"loop", "inline"} /\ ~Owes
  BY Alone DEF ProcessBulkXfrCompleteRx, AcceptCmdHandler, CanPoll, CanCallback, StepInv
<1>2. AcceptData => mpc' = mpc /\ UNCHANGED <<job, overtaken>> BY DEF AcceptData
<1>3. ASSUME AcceptCmd(gRx)
      PROVE  \/ mpc = "inline" /\ overtaken' /\ mpc' \notin {"inline", "off"}
             \/ mpc' = mpc /\ UNCHANGED <<job, overtaken>>
             \/ mpc = "loop" /\ mpc' \notin {"inline", "off"} /\ UNCHANGED overtaken
  <2>1. mpc' = mpc \/ mpc' \notin {"inline", "off"}
    BY <1>3 DEF AcceptCmd, PutOff, Dispatch, CmdDownload, CmdFlash, CmdGetVar, CmdGetVarAll,
       CmdReboot, CmdWait, CmdUnknown
  <2>2. mpc' = mpc \/ mpc = "loop" => UNCHANGED <<job, overtaken>> BY <1>3 DEF AcceptCmd
  <2>3. mpc = "inline" /\ mpc' # "inline" => overtaken' BY <1>0, <1>1, <1>3, InterruptOvertakes
  <2> QED BY <1>1, <2>1, <2>2, <2>3
<1> QED BY <1>2, <1>3 DEF ProcessBulkXfrCompleteRx, AcceptCmdHandler

\* Until a flash is overtaken, every step of the pipeline is a step of the store,
\* or none.
LEMMA PromisedStore ==
  ASSUME EagerThreads, AlwaysAnswers, FaithfulInv, FaithfulInv', [Next]_vars,
         ~overtaken, overtaken' = overtaken
  PROVE  [Store!Next]_(Store!vars)
<1>0. /\ TypeInv /\ WritingRight /\ WritingRight' /\ thr \in [Threads -> Job] /\ job \in Job
      /\ WaitInv /\ (Return => mpc' = "loop")
  BY WritingIs, WritingNext, ReturnsTo
     DEF FaithfulInv, WaitInv, TypeInv, TypeOK, MainTypeOK, FlashTypeOK
<1>1. ASSUME UNCHANGED <<thr, part>>,
             (mpc' = "inline") <=> (mpc = "inline"), mpc = "inline" => job' = job,
             (mpc' = "off") <=> (mpc = "off")
      PROVE  [Store!Next]_(Store!vars)
  <2>1. CASE NoThread
    <3>1. NoThread' BY <1>1, <2>1 DEF NoThread
    <3> QED BY <1>0, <1>1, <2>1, <3>1, StoreStutters DEF WritingRight
  <2>2. CASE ~NoThread
    <3>1. PICK t \in Threads : thr[t].st # "none" BY <2>2 DEF NoThread
    <3>2. Writing = thr[t] /\ Writing' = thr'[t] BY <1>0, <1>1, <3>1 DEF WritingRight
    <3> QED BY <1>1, <3>2, StoreStutters
  <2> QED BY <2>1, <2>2
<1>2. CASE Host
  BY <1>1, <1>2 DEF Host, HostSend, HostSendData, HostRecv, Disconnect, Reconnect
<1>3. CASE HandleConnected \/ ProcessBulkXfrCompleteTx \/ FlashCompleteHandler
             \/ InfoSent \/ InfoOther
  BY <1>0, <1>1, <1>3 DEF HandleConnected, ProcessBulkXfrCompleteTx, FlashCompleteHandler,
     InfoSent, InfoOther
<1>4. CASE ProcessBulkXfrCompleteRx \/ AcceptCmdHandler
  <2>1. UNCHANGED <<thr, part>> BY <1>4 DEF ProcessBulkXfrCompleteRx, AcceptCmdHandler
  <2>2. \/ mpc' = mpc /\ job' = job
        \/ mpc = "loop" /\ mpc' \notin {"inline", "off"}
    BY <1>0, <1>4, TakesOrOvertakes DEF FaithfulInv
  <2> QED BY <1>1, <2>1, <2>2
<1>5. CASE ExchangeAndFlash BY <1>5, ExchangeStores
<1>6. CASE CmdErase \/ RebootDevice \/ CmdContinue BY <1>6, WaitersStore
<1>7. CASE InlineWrite \/ InlineDone \/ InlineFail
  <2>1. mpc = "inline" /\ thr' = thr
    BY <1>7 DEF InlineWrite, InlineDone, InlineFail, EndInline
  <2>2. NoThread /\ NoThread' BY <1>0, <2>1 DEF WaitInv, EagerInv, NoThread
  <2>3. Writing = job BY <1>0, <2>1, <2>2 DEF WritingRight
  <2>4. Faithful(job, mFlashDataBuffer, mem, part) BY <2>1 DEF FaithfulInv, JobInv
  <2>5. CASE InlineWrite
    <3>1. /\ CanWrite(job) /\ part' = Written(job) /\ mpc' = mpc
          /\ job' = [job EXCEPT !.k = job.k + 1]
      BY <2>5 DEF InlineWrite
    <3>2. Writing' = job' BY <1>0, <2>1, <2>2, <3>1 DEF WritingRight
    <3> QED BY <1>0, <2>3, <2>4, <3>1, <3>2, StoreWrites
  <2>6. CASE InlineDone \/ InlineFail
    <3>1. mpc' = "loop" /\ part' = part BY <1>0, <2>6 DEF InlineDone, InlineFail, EndInline
    <3>2. Writing' = NoJob BY <1>0, <2>2, <3>1 DEF WritingRight
    <3>3. Writing.st # "none" /\ Writing'.st = "none" BY <2>3, <2>4, <3>2 DEF Faithful, NoJob
    <3> QED BY <2>1, <3>1, <3>3, StoreEnds
  <2> QED BY <1>7, <2>5, <2>6
<1>8. ASSUME NEW t \in Threads, Flasher(t) PROVE [Store!Next]_(Store!vars)
  <2>1. thr[t].st # "none"
    BY <1>8 DEF Flasher, ThreadAcquire, ThreadBegin, ThreadWrite, ThreadEnd, CanWrite
  <2>2. thr[t].st = "flash" /\ Writing = thr[t]
    BY <1>0, <2>1 DEF WaitInv, EagerInv, WritingRight
  <2>3. mpc # "inline" /\ \A s \in Threads \ {t} : thr[s].st = "none" BY <1>0, <2>1, OneFlasher
  <2>4. CASE ThreadWrite(t)
    <3>1. /\ CanWrite(thr[t]) /\ part' = Written(thr[t]) /\ mpc' = mpc
          /\ thr'[t] = [thr[t] EXCEPT !.k = thr[t].k + 1]
      BY <1>0, <2>4 DEF ThreadWrite
    <3>2. thr'[t].st # "none" BY <1>0, <2>1, <3>1 DEF Job
    <3>3. Writing' = thr'[t] BY <1>0, <3>2 DEF WritingRight
    <3>4. Faithful(thr[t], mFlashDataBuffer, mem, part) BY <2>1 DEF FaithfulInv, JobInv
    <3> QED BY <1>0, <2>2, <3>1, <3>3, <3>4, StoreWrites
  <2>5. CASE ThreadEnd(t)
    <3>1. /\ mpc' = mpc /\ part' = part /\ thr'[t].st = "none"
          /\ \A s \in Threads \ {t} : thr'[s] = thr[s]
      BY <1>0, <2>5 DEF ThreadEnd, NoJob
    <3>2. NoThread' BY <2>3, <3>1 DEF NoThread
    <3>3. Writing' = NoJob BY <1>0, <2>3, <3>1, <3>2 DEF WritingRight
    <3>4. Writing.st # "none" /\ Writing'.st = "none" BY <2>1, <2>2, <3>3 DEF NoJob
    <3> QED BY <3>1, <3>4, StoreEnds
  <2> QED BY <1>8, <2>2, <2>4, <2>5 DEF Flasher, ThreadAcquire, ThreadBegin
<1>9. CASE Done \/ UNCHANGED vars BY <1>1, <1>9 DEF Done, vars
<1> QED BY <1>2, <1>3, <1>4, <1>5, <1>6, <1>7, <1>8, <1>9 DEF Next, Device

\* Every step of the pipeline is a step of the store, or none.
LEMMA NextStore ==
  ASSUME EagerThreads, AlwaysAnswers, FaithfulInv, FaithfulInv', [Next]_vars
  PROVE  [Store!Next]_(Store!vars)
<1>0. overtaken \in BOOLEAN /\ overtaken' \in BOOLEAN /\ (overtaken => overtaken')
  BY OvertakenStays DEF FaithfulInv, WaitInv, TypeInv, TypeOK, MainTypeOK
<1>1. CASE overtaken BY <1>0, <1>1 DEF Store!Next
<1>2. CASE ~overtaken /\ overtaken'
  <2>1. ProcessBulkXfrCompleteRx \/ AcceptCmdHandler
    <3>1. UNCHANGED overtaken => FALSE BY <1>0, <1>2
    <3> QED BY <3>1
        DEF Next, Host, HostSend, HostSendData, HostRecv, Disconnect, Reconnect, Device,
            HandleConnected, ProcessBulkXfrCompleteTx, FlashCompleteHandler, ExchangeAndFlash,
            FinishFlashCmd, FlashParallel, ResumeThread, BeginInline, InlineWrite, InlineDone,
            InlineFail, EndInline, CmdErase, RebootDevice, CmdContinue, InfoSent, InfoOther, Return,
            Flasher, ThreadAcquire, ThreadBegin, ThreadWrite, ThreadEnd, Done, vars
  <2>2. mpc = "inline" /\ mpc' \notin {"inline", "off"}
    BY <1>2, <2>1, TakesOrOvertakes DEF FaithfulInv, WaitInv
  <2>3. UNCHANGED part BY <2>1 DEF ProcessBulkXfrCompleteRx, AcceptCmdHandler
  <2>4. NoThread /\ WritingRight BY <2>2, WritingIs DEF FaithfulInv, WaitInv, EagerInv, NoThread
  <2>5. Writing = job BY <2>2, <2>4 DEF WritingRight
  <2>6. job.st = "flash" BY <1>2, <2>2 DEF FaithfulInv, JobInv, Faithful
  <2>7. Store!Overtake BY <1>2, <2>2, <2>3, <2>5, <2>6 DEF Store!Overtake
  <2> QED BY <2>7 DEF Store!Next
<1>3. CASE ~overtaken /\ overtaken' = overtaken BY <1>3, PromisedStore
<1> QED BY <1>0, <1>1, <1>2, <1>3

\* In both builds, when a resumed thread runs at once: the parallel pipeline does
\* to the medium what a device does that flashes, erases and leaves fastboot one
\* thing after the other, until a command is let into a running flash
\* (ImplementsStore).
THEOREM PipelineImplementsStore ==
  ASSUME EagerThreads, AlwaysAnswers
  PROVE  Spec => ImplementsStore
<1>1. FaithfulInv /\ [Next]_vars => FaithfulInv' BY NextFaithful
<1>2. Init => Store!Init
  <2> SUFFICES ASSUME Init PROVE Store!Init OBVIOUS
  <2>1. ActiveThreads = {} BY DEF Init, ActiveThreads, NoJob
  <2>2. Writing = NoJob BY <2>1 DEF Init, Writing
  <2> QED BY <2>2 DEF Init, Store!Init, Store!Idle, NoJob
<1>3. FaithfulInv /\ FaithfulInv' /\ [Next]_vars => [Store!Next]_(Store!vars) BY NextStore
<1> QED BY <1>1, <1>2, <1>3, InitFaithful, PTL DEF Spec, ImplementsStore, Store!Spec
=============================================================================
