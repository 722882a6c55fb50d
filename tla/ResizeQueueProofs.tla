------------------------- MODULE ResizeQueueProofs --------------------------
(***************************************************************************)
(* SuccessIsKept and ThumbsComplete of ResizeQueue, for any number of      *)
(* uploads, pictures, sizes, processes and goroutines, and however much    *)
(* fails.                                                                  *)
(***************************************************************************)
EXTENDS ResizeQueue, TLAPS

QueueTypes ==
  /\ image \in [Upload -> Image]
  /\ DOMAIN up = Upload
  /\ socket \subseteq Message /\ queue \subseteq Message
  /\ unacked \in [Process -> SUBSET Message]
  /\ DOMAIN work = Worker
  /\ \A w \in Worker : work[w].msg \in Message

(* A picture is in its place before its task is published.                 *)
MovedFirst ==
  \A u \in Upload : up[u] \in {"publish", "ok"} => image[u] \in original

(* Every task, wherever it is, finds its picture.                          *)
TasksHaveOriginals ==
  /\ \A m \in socket \cup queue : m # Foreign => image[m] \in original
  /\ \A p \in Process : \A m \in unacked[p] :
       m # Foreign => image[m] \in original
  /\ \A w \in Worker :
       work[w].msg # Foreign => image[work[w].msg] \in original

(* The task of an upload that succeeded is somewhere, or done, or went     *)
(* with a restart of RabbitMQ.                                             *)
Held(u) ==
  \/ u \in socket \cup queue \cup acked \cup lost
  \/ \E p \in Process : u \in unacked[p]

TasksAreHeld == \A u \in Upload : up[u] = "ok" => Held(u)

KeptInv == QueueTypes /\ MovedFirst /\ TasksHaveOriginals /\ TasksAreHeld

LEMMA KeptInvImplies == KeptInv => SuccessIsKept
<1> SUFFICES ASSUME KeptInv
             PROVE  SuccessIsKept
  OBVIOUS
<1>1. \A m : m \in UNION Range(unacked) <=> \E p \in Process : m \in unacked[p]
  BY DEF KeptInv, QueueTypes, Range
<1>2. \A m \in Pending \ {Foreign} : image[m] \in original
  BY <1>1 DEF KeptInv, TasksHaveOriginals, Pending, Outstanding
<1>3. \A u \in Upload : up[u] = "ok" =>
        image[u] \in original /\ u \in Outstanding \cup acked \cup lost
  BY <1>1 DEF KeptInv, MovedFirst, TasksAreHeld, Held, Outstanding
<1> QED
  BY <1>2, <1>3 DEF SuccessIsKept

(* KeptInv is inductive.                                                   *)
LEMMA KeptInvInvariant == Spec => []KeptInv
<1>1. Init => KeptInv
  BY DEF Init, KeptInv, QueueTypes, MovedFirst, TasksHaveOriginals,
         TasksAreHeld, Idle, Message
<1>2. KeptInv /\ [Next]_vars => KeptInv'
  <2> SUFFICES ASSUME KeptInv, [Next]_vars
               PROVE  KeptInv'
    OBVIOUS
  <2> USE ResizeQueueAssumption
      DEF KeptInv, QueueTypes, MovedFirst, TasksHaveOriginals, TasksAreHeld,
          Held, Fault, Goto, web, files, broker, marks
  <2>1. ASSUME NEW u \in Upload, BeginUpload(u)
        PROVE  KeptInv'
    BY <2>1 DEF BeginUpload
  <2>2. ASSUME NEW u \in Upload, CreateFile(u)
        PROVE  KeptInv'
    BY <2>2 DEF CreateFile
  <2>3. ASSUME NEW u \in Upload, CopyFile(u)
        PROVE  KeptInv'
    BY <2>3 DEF CopyFile
  <2>4. ASSUME NEW u \in Upload, RenameFile(u)
        PROVE  KeptInv'
    BY <2>4 DEF RenameFile
  <2>5. ASSUME NEW u \in Upload, Publish(u)
        PROVE  KeptInv'
    BY <2>5 DEF Publish, Message
  <2>6. CASE RestartWeb
    BY <2>6 DEF RestartWeb
  <2>7. ASSUME NEW m \in Message, Store(m)
        PROVE  KeptInv'
    BY <2>7 DEF Store
  <2>8. CASE PublishForeign
    BY <2>8 DEF PublishForeign, Message
  <2>9. ASSUME NEW w \in Worker, Deliver(w)
        PROVE  KeptInv'
    BY <2>9 DEF Deliver, Worker
  <2>10. ASSUME NEW w \in Worker, OpenResize(w)
        PROVE  KeptInv'
    <3>1. /\ UNCHANGED <<web, original, socket, queue, unacked, up>>
          /\ acked' = acked /\ lost' = lost
      BY <2>10 DEF OpenResize
    <3>2. DOMAIN work' = Worker /\ \A v \in Worker : work'[v].msg = work[v].msg
      <4>1. CASE work' = NextSize(w)
        BY <4>1 DEF NextSize
      <4>2. CASE work' # NextSize(w)
        <5>1. work' = [v \in Worker |->
                 CASE v = w -> [work[v] EXCEPT !.out = "own"]
                   [] v # w /\ SameFile(v, w) ->
                        [work[v] EXCEPT !.out = "shared"]
                   [] OTHER -> work[v]]
          BY <2>10, <4>2 DEF OpenResize
        <5> QED
          BY <5>1
      <4> QED
        BY <4>1, <4>2
    <3> QED
      BY <3>1, <3>2
  <2>11. ASSUME NEW w \in Worker, EncodeResize(w)
        PROVE  KeptInv'
    BY <2>11 DEF EncodeResize, NextSize
  <2>12. ASSUME NEW w \in Worker, Ack(w)
        PROVE  KeptInv'
    BY <2>12 DEF Ack, Worker, Idle, Message
  <2>13. CASE RestartBroker
    BY <2>13 DEF RestartBroker, Range
  <2>14. ASSUME NEW p \in Process, StartProcess(p)
        PROVE  KeptInv'
    BY <2>14 DEF StartProcess
  <2>15. ASSUME NEW p \in Process, StopProcess(p)
        PROVE  KeptInv'
    BY <2>15 DEF StopProcess, Idle, Message
  <2>16. CASE UNCHANGED vars
    BY <2>16 DEF vars
  <2> QED
    BY <2>1, <2>2, <2>3, <2>4, <2>5, <2>6, <2>7, <2>8, <2>9, <2>10, <2>11,
       <2>12, <2>13, <2>14, <2>15, <2>16 DEF Next, UploadStep, ResizeWorker
<1> QED
  BY <1>1, <1>2, PTL DEF Spec

(* form.go and resize_worker.go: no worker ever misses the file of a task, *)
(* and an upload reported as successful has its picture and its task, or   *)
(* the task has been done, or went with a restart of RabbitMQ.             *)
THEOREM SuccessIsKeptCorrect == Spec => []SuccessIsKept
BY KeptInvInvariant, KeptInvImplies, PTL

-----------------------------------------------------------------------------
(* A goroutine with a task is at one of its sizes, or behind the last.     *)
BusyTypes == \A w \in Worker : Busy(w) => work[w].k >= 1

(* A connected process owes what its goroutine works on, and no more; one  *)
(* that is down works on nothing.                                          *)
OwesItsTask ==
  \A w \in Worker : Busy(w) =>
    /\ proc[w[1]] # "down"
    /\ proc[w[1]] = "connected" =>
         /\ work[w].msg \in unacked[w[1]]
         /\ \A v \in Worker : v[1] = w[1] /\ Busy(v) => v = w

(* Size k of picture i has been opened by w.                               *)
Passed(w, k) == k < work[w].k \/ (k = work[w].k /\ work[w].out # "no")

(* What a goroutine has passed is there, or failed; and so is every size   *)
(* of a task that is acknowledged.                                         *)
(* Size k of picture i exists, or its resize failed.                       *)
There(i, k) == k \in failed[i] \/ thumb[i][k] # "none"

PassedIsThere ==
  /\ \A w \in Worker, k \in Size :
       Busy(w) /\ work[w].msg # Foreign /\ Passed(w, k)
         => There(image[work[w].msg], k)
  /\ \A m \in acked \ {Foreign}, k \in Size : There(image[m], k)

(* Somebody will write size k of picture i, or is the last to have         *)
(* truncated it.                                                           *)
Writes(w, i, k) ==
  /\ InResize(w) /\ image[work[w].msg] = i
  /\ work[w].k < k \/ (work[w].k = k /\ work[w].out # "shared")

WillBeWritten(i, k) ==
  \/ \E m \in queue \ {Foreign} : image[m] = i
  \/ \E w \in Worker : Writes(w, i, k)

PartialIsWritten ==
  \A i \in Image \ strayed, k \in Size :
    thumb[i][k] = "partial" /\ k \notin failed[i] => WillBeWritten(i, k)

(* Together they are inductive and imply ThumbsComplete.                   *)
ThumbInv ==
  TypeOK /\ BusyTypes /\ OwesItsTask /\ PassedIsThere /\ PartialIsWritten

(* The values of work[w] and of up[u].                                     *)
Task == [msg : Message, k : 0..Sizes + 1, out : {"no", "own", "shared"}]
UpStates == {"idle", "create", "copy", "rename", "publish", "ok", "error",
             "aborted"}

(* What going on with the next size makes of the tasks.                    *)
LEMMA NextSizeWork ==
  ASSUME TypeOK, NEW w \in Worker, InResize(w), work' = NextSize(w)
  PROVE  /\ work' \in [Worker -> Task]
         /\ work'[w].msg = work[w].msg /\ work'[w].k = work[w].k + 1
         /\ work'[w].out = "no"
         /\ \A v \in Worker \ {w} : work'[v] = work[v]
<1> DEFINE next == [work[w] EXCEPT !.k = @ + 1, !.out = "no"]
<1>1. /\ work \in [Worker -> Task] /\ work[w] \in Task
      /\ work[w].k \in Size
  BY DEF InResize, TypeOK, Task
<1>2. work' = [v \in Worker |-> IF v = w THEN next ELSE work[v]]
  BY <1>1 DEF NextSize
<1>3. /\ next \in Task /\ next.msg = work[w].msg
      /\ next.k = work[w].k + 1 /\ next.out = "no"
  <2>1. PICK m \in Message, k \in 0..Sizes + 1, o \in {"no", "own", "shared"} :
          work[w] = [msg |-> m, k |-> k, out |-> o]
    BY <1>1 DEF Task
  <2>2. next = [msg |-> m, k |-> k + 1, out |-> "no"]
    <3>1. [work[w] EXCEPT !.k = @ + 1] = [msg |-> m, k |-> k + 1, out |-> o]
      BY <2>1
    <3>2. [[msg |-> m, k |-> k + 1, out |-> o] EXCEPT !.out = "no"]
            = [msg |-> m, k |-> k + 1, out |-> "no"]
      OBVIOUS
    <3> QED
      BY <3>1, <3>2
  <2>3. k + 1 \in 0..Sizes + 1
    BY <1>1, <2>1, ResizeQueueAssumption DEF Size
  <2> HIDE DEF next
  <2> QED
    BY <2>1, <2>2, <2>3 DEF Task
<1>4. \A v \in Worker : work[v] \in Task
  BY <1>1
<1> HIDE DEF Task, next
<1> QED
  BY <1>2, <1>3, <1>4

(* What OpenResize makes of the tasks: its goroutine has opened the file   *)
(* as the last one, or goes on with the next size.                         *)
LEMMA OpenResizeWork ==
  ASSUME TypeOK, NEW w \in Worker, OpenResize(w)
  PROVE  LET i == image[work[w].msg]
             k == work[w].k
         IN
         /\ InResize(w)
         /\ work' \in [Worker -> Task]
         /\ \A v \in Worker : work'[v].msg = work[v].msg
         /\ \/ /\ \A v \in Worker : work'[v].k = work[v].k
               /\ work'[w].out = "own"
               /\ \A v \in Worker \ {w} :
                    work'[v].out = IF SameFile(v, w) THEN "shared"
                                                     ELSE work[v].out
               /\ thumb' = [thumb EXCEPT ![i][k] = "partial"]
               /\ failed' = failed
            \/ /\ work'[w].k = work[w].k + 1 /\ work'[w].out = "no"
               /\ \A v \in Worker \ {w} : work'[v] = work[v]
               /\ thumb' = thumb
               /\ failed' = [failed EXCEPT ![i] = @ \cup {k}]
<1> DEFINE i == image[work[w].msg]
           k == work[w].k
           own == [v \in Worker |->
                     CASE v = w -> [work[v] EXCEPT !.out = "own"]
                       [] v # w /\ SameFile(v, w) ->
                            [work[v] EXCEPT !.out = "shared"]
                       [] OTHER -> work[v]]
<1>1. /\ InResize(w) /\ work \in [Worker -> Task]
      /\ \/ /\ work' = own
            /\ thumb' = [thumb EXCEPT ![i][k] = "partial"]
            /\ failed' = failed
         \/ /\ work' = NextSize(w)
            /\ thumb' = thumb
            /\ failed' = [failed EXCEPT ![i] = @ \cup {k}]
  BY DEF OpenResize, TypeOK, Task
<1>2. CASE work' = NextSize(w) /\ thumb' = thumb
           /\ failed' = [failed EXCEPT ![i] = @ \cup {k}]
  BY <1>1, <1>2, NextSizeWork
<1>3. CASE work' = own /\ thumb' = [thumb EXCEPT ![i][k] = "partial"]
           /\ failed' = failed
  <2>1. ASSUME NEW v \in Worker
        PROVE  /\ work'[v] \in Task
               /\ work'[v].msg = work[v].msg /\ work'[v].k = work[v].k
               /\ work'[v].out = IF v = w THEN "own"
                                 ELSE IF SameFile(v, w) THEN "shared"
                                                        ELSE work[v].out
    BY <1>1, <1>3 DEF Task
  <2>2. work' \in [Worker -> Task]
    BY <1>3, <2>1
  <2> HIDE DEF own
  <2> QED
    BY <1>1, <1>3, <2>1, <2>2
<1> QED
  BY <1>1, <1>2, <1>3

(* The state keeps its types, in the code whatever fails: a task is at one *)
(* of its sizes, or one behind the last, and never further.                *)
LEMMA TypeInvariant == Spec => []TypeOK
<1>1. Init => TypeOK
  BY ResizeQueueAssumption DEF Init, TypeOK, Idle, Message
<1>2. TypeOK /\ [Next]_vars => TypeOK'
  <2> SUFFICES ASSUME TypeOK, [Next]_vars
               PROVE  TypeOK'
    OBVIOUS
  <2> USE ResizeQueueAssumption
      DEF TypeOK, Fault, Goto, Size, InResize, web, files, broker, marks
  <2>1. ASSUME NEW u \in Upload, BeginUpload(u)
        PROVE  TypeOK'
    <3>1. up' \in [Upload -> UpStates]
      BY <2>1 DEF BeginUpload, UpStates
    <3>2. faults' \in 0..MaxFaults
      BY <2>1 DEF BeginUpload
    <3> QED
      BY <2>1, <3>1, <3>2 DEF BeginUpload, UpStates
  <2>2. ASSUME NEW u \in Upload, CreateFile(u)
        PROVE  TypeOK'
    <3>1. up' \in [Upload -> UpStates]
      BY <2>2 DEF CreateFile, UpStates
    <3>2. faults' \in 0..MaxFaults /\ tmp' \subseteq Upload
      BY <2>2 DEF CreateFile
    <3>3. UNCHANGED <<image, webConn, files, broker, proc, work, marks>>
      BY <2>2 DEF CreateFile
    <3> QED
      BY <3>1, <3>2, <3>3 DEF UpStates
  <2>3. ASSUME NEW u \in Upload, CopyFile(u)
        PROVE  TypeOK'
    <3>1. up' \in [Upload -> UpStates]
      BY <2>3 DEF CopyFile, UpStates
    <3>2. faults' \in 0..MaxFaults
      BY <2>3 DEF CopyFile
    <3>3. UNCHANGED <<image, webConn, tmp, files, broker, proc, work, marks>>
      BY <2>3 DEF CopyFile
    <3> QED
      BY <3>1, <3>2, <3>3 DEF UpStates
  <2>4. ASSUME NEW u \in Upload, RenameFile(u)
        PROVE  TypeOK'
    BY <2>4 DEF RenameFile
  <2>5. ASSUME NEW u \in Upload, Publish(u)
        PROVE  TypeOK'
    BY <2>5 DEF Publish, Message
  <2>6. CASE RestartWeb
    BY <2>6 DEF RestartWeb, InUpload
  <2>7. ASSUME NEW m \in Message, Store(m)
        PROVE  TypeOK'
    BY <2>7 DEF Store
  <2>8. CASE PublishForeign
    BY <2>8 DEF PublishForeign, Message
  <2>9. ASSUME NEW w \in Worker, Deliver(w)
        PROVE  TypeOK'
    BY <2>9 DEF Deliver, Worker, Message
  <2>10. ASSUME NEW w \in Worker, OpenResize(w)
        PROVE  TypeOK'
    <3>1. work' \in [Worker -> [msg : Message, k : 0..Sizes + 1,
                               out : {"no", "own", "shared"}]]
      BY <2>10, OpenResizeWork DEF Task
    <3>2. PICK i \in Image, k \in Size :
            /\ thumb' = thumb \/ thumb' = [thumb EXCEPT ![i][k] = "partial"]
            /\ \/ failed' = failed
               \/ failed' = [failed EXCEPT ![i] = @ \cup {k}]
      <4>1. image[work[w].msg] \in Image /\ work[w].k \in Size
        BY <2>10 DEF OpenResize, Message, Busy
      <4> QED
        BY <2>10, <4>1 DEF OpenResize
    <3>3. /\ failed' \in [Image -> SUBSET Size]
          /\ thumb' \in [Image -> [Size -> {"none", "partial", "whole"}]]
      <4>1. /\ failed \in [Image -> SUBSET Size]
            /\ thumb \in [Image -> [Size -> {"none", "partial", "whole"}]]
        OBVIOUS
      <4> HIDE DEF Size, TypeOK
      <4> QED
        BY <3>2, <4>1
    <3>4. faults' \in 0..MaxFaults
      BY <2>10 DEF OpenResize
    <3>5. UNCHANGED <<web, original, broker, proc, acked, lost, strayed>>
      BY <2>10 DEF OpenResize
    <3> QED
      BY <3>1, <3>3, <3>4, <3>5
  <2>11. ASSUME NEW w \in Worker, EncodeResize(w)
        PROVE  TypeOK'
    BY <2>11 DEF EncodeResize, NextSize
  <2>12. ASSUME NEW w \in Worker, Ack(w)
        PROVE  TypeOK'
    <3>1. Idle \in Task
      BY DEF Idle, Task, Message
    <3>2. work' \in [Worker -> Task]
      <4> HIDE DEF Idle
      <4> QED BY <2>12, <3>1 DEF Ack, Task
    <3>3. w[1] \in Process /\ work[w].msg \in Message
      BY DEF Worker
    <3>4. /\ unacked' \in [Process -> SUBSET Message]
          /\ acked' \subseteq Message
      <4>1. \/ UNCHANGED <<unacked, acked>>
            \/ /\ unacked' = [unacked EXCEPT ![w[1]] = @ \ {work[w].msg}]
               /\ acked' = acked \cup {work[w].msg}
        BY <2>12 DEF Ack
      <4> QED
        BY <3>3, <4>1
    <3>5. UNCHANGED <<web, files, socket, queue, proc, faults, failed, lost,
                      strayed>>
      BY <2>12 DEF Ack
    <3> QED
      <4> HIDE DEF Fault, Goto, InResize, Size
      <4> QED BY <3>2, <3>4, <3>5 DEF Task
  <2>13. CASE RestartBroker
    <3>1. /\ socket' \subseteq Message /\ lost' \subseteq Message
          /\ webConn' \in BOOLEAN
          /\ unacked' \in [Process -> SUBSET Message]
      BY <2>13 DEF RestartBroker
    <3>2. queue' \subseteq Message
      <4>1. queue' = queue \cup UNION Range(unacked)
        BY <2>13 DEF RestartBroker
      <4>2. \A S \in Range(unacked) : S \subseteq Message
        BY DEF Range
      <4> HIDE DEF TypeOK
      <4>3. queue \subseteq Message
        BY DEF TypeOK
      <4> QED
        BY <4>1, <4>2, <4>3
    <3>3. proc' \in [Process -> {"down", "connected", "cut"}]
      BY <2>13 DEF RestartBroker
    <3>4. faults' \in 0..MaxFaults
      BY <2>13 DEF RestartBroker
    <3>5. UNCHANGED <<image, up, tmp, files, work, acked, failed, strayed>>
      BY <2>13 DEF RestartBroker
    <3> HIDE DEF Size
    <3> QED
      BY <3>1, <3>2, <3>3, <3>4, <3>5
  <2>14. ASSUME NEW p \in Process, StartProcess(p)
        PROVE  TypeOK'
    BY <2>14 DEF StartProcess
  <2>15. ASSUME NEW p \in Process, StopProcess(p)
        PROVE  TypeOK'
    BY <2>15 DEF StopProcess, Idle, Message
  <2>16. CASE UNCHANGED vars
    BY <2>16 DEF vars
  <2> QED
    BY <2>1, <2>2, <2>3, <2>4, <2>5, <2>6, <2>7, <2>8, <2>9, <2>10, <2>11,
       <2>12, <2>13, <2>14, <2>15, <2>16 DEF Next, UploadStep, ResizeWorker
<1> QED
  BY <1>1, <1>2, PTL DEF Spec

(* Qos(1) and StopProcess: a connected process owes RabbitMQ exactly the   *)
(* task its one busy goroutine has.                                        *)
LEMMA OwesInvariant == Spec => [](BusyTypes /\ OwesItsTask)
<1>1. Init => BusyTypes /\ OwesItsTask
  BY DEF Init, BusyTypes, OwesItsTask, Busy
<1>2. TypeOK /\ BusyTypes /\ OwesItsTask /\ [Next]_vars
        => (BusyTypes /\ OwesItsTask)'
  <2> SUFFICES ASSUME TypeOK, BusyTypes, OwesItsTask, [Next]_vars
               PROVE  (BusyTypes /\ OwesItsTask)'
    OBVIOUS
  <2> USE DEF TypeOK, BusyTypes, OwesItsTask, Busy, Idle, web, files, broker,
              marks
  <2>1. ASSUME NEW u \in Upload, BeginUpload(u)
        PROVE  (BusyTypes /\ OwesItsTask)'
    BY <2>1 DEF BeginUpload
  <2>2. ASSUME NEW u \in Upload, CreateFile(u)
        PROVE  (BusyTypes /\ OwesItsTask)'
    BY <2>2 DEF CreateFile
  <2>3. ASSUME NEW u \in Upload, CopyFile(u)
        PROVE  (BusyTypes /\ OwesItsTask)'
    BY <2>3 DEF CopyFile
  <2>4. ASSUME NEW u \in Upload, RenameFile(u)
        PROVE  (BusyTypes /\ OwesItsTask)'
    BY <2>4 DEF RenameFile
  <2>5. ASSUME NEW u \in Upload, Publish(u)
        PROVE  (BusyTypes /\ OwesItsTask)'
    BY <2>5 DEF Publish, Message
  <2>6. CASE RestartWeb
    BY <2>6 DEF RestartWeb, InUpload
  <2>7. ASSUME NEW m \in Message, Store(m)
        PROVE  (BusyTypes /\ OwesItsTask)'
    BY <2>7 DEF Store
  <2>8. CASE PublishForeign
    BY <2>8 DEF PublishForeign, Message
  <2>9. ASSUME NEW w \in Worker, Deliver(w)
        PROVE  (BusyTypes /\ OwesItsTask)'
    BY <2>9 DEF Deliver, Worker, Message
  <2>10. ASSUME NEW w \in Worker, OpenResize(w)
        PROVE  (BusyTypes /\ OwesItsTask)'
    <3>1. \A v \in Worker : /\ work'[v].msg = work[v].msg
                            /\ Busy(v)' => Busy(v) /\ work'[v].k >= 1
      <4>1. work[w].msg # Foreign
        BY <2>10, OpenResizeWork DEF InResize
      <4>2. ASSUME NEW v \in Worker, SameFile(v, w)
            PROVE  work[v].msg # Foreign
        BY <4>2 DEF SameFile, InResize
      <4> QED
        <5>1. /\ \A v \in Worker : work'[v].msg = work[v].msg
              /\ \A v \in Worker : work'[v].k \in {work[v].k, work[v].k + 1}
              /\ \A v \in Worker \ {w} :
                   SameFile(v, w) \/ work'[v] = work[v]
                     \/ (work'[v].k = work[v].k /\ work'[v].out = work[v].out)
          BY <2>10, OpenResizeWork
        <5>2. \A v \in Worker : work[v] \in Task /\ work'[v] \in Task
          BY <2>10, OpenResizeWork DEF Task
        <5> HIDE DEF TypeOK
        <5> QED
          BY <4>1, <4>2, <5>1, <5>2 DEF Task
    <3> QED
      <4>1. UNCHANGED <<proc, unacked>>
        BY <2>10 DEF OpenResize
      <4> HIDE DEF TypeOK, Idle
      <4> QED
        BY <3>1, <4>1
  <2>11. ASSUME NEW w \in Worker, EncodeResize(w)
        PROVE  (BusyTypes /\ OwesItsTask)'
    BY <2>11 DEF EncodeResize, NextSize
  <2>12. ASSUME NEW w \in Worker, Ack(w)
        PROVE  (BusyTypes /\ OwesItsTask)'
    <3>1. /\ w[1] \in Process /\ proc' = proc
          /\ \A v \in Worker : work'[v] = IF v = w THEN Idle ELSE work[v]
          /\ \A p \in Process \ {w[1]} : unacked'[p] = unacked[p]
      BY <2>12 DEF Ack, Worker
    <3>2. \A v \in Worker \ {w} :
            Busy(v) /\ proc[v[1]] = "connected" => v[1] # w[1]
      BY <2>12 DEF Ack, Worker
    <3>3. \A v \in Worker : v[1] \in Process
      BY DEF Worker
    <3>4. \A v \in Worker : Busy(v)' => v # w /\ Busy(v) /\ work'[v] = work[v]
      BY <3>1
    <3> HIDE DEF Idle, TypeOK
    <3> QED
      BY <3>1, <3>2, <3>3, <3>4
  <2>13. CASE RestartBroker
    <3>1. /\ work' = work
          /\ \A p \in Process : /\ proc'[p] # "connected"
                                /\ proc[p] # "down" => proc'[p] # "down"
      BY <2>13 DEF RestartBroker
    <3>2. \A w \in Worker : w[1] \in Process
      BY DEF Worker
    <3> HIDE DEF TypeOK
    <3> QED
      BY <3>1, <3>2
  <2>14. ASSUME NEW p \in Process, StartProcess(p)
        PROVE  (BusyTypes /\ OwesItsTask)'
    BY <2>14 DEF StartProcess
  <2>15. ASSUME NEW p \in Process, StopProcess(p)
        PROVE  (BusyTypes /\ OwesItsTask)'
    BY <2>15 DEF StopProcess, Idle, Message
  <2>16. CASE UNCHANGED vars
    BY <2>16 DEF vars
  <2> QED
    BY <2>1, <2>2, <2>3, <2>4, <2>5, <2>6, <2>7, <2>8, <2>9, <2>10, <2>11,
       <2>12, <2>13, <2>14, <2>15, <2>16 DEF Next, UploadStep, ResizeWorker
<1> QED
  BY <1>1, <1>2, TypeInvariant, PTL DEF Spec

(* A thumbnail never disappears, a failure is not forgotten, and no upload *)
(* changes its picture.                                                    *)
LEMMA FilesGrow ==
  ASSUME TypeOK, [Next]_vars
  PROVE  /\ image' = image
         /\ \A i \in Image, k \in Size : There(i, k) => There(i, k)'
<1> USE DEF web, files, broker, marks
<1>1. CASE \E w \in Worker : OpenResize(w)
  <2>1. PICK w \in Worker : OpenResize(w)
    BY <1>1
  <2>2. image[work[w].msg] \in Image /\ work[w].k \in Size
    BY <2>1 DEF OpenResize, TypeOK, InResize, Message
  <2>3. /\ thumb \in [Image -> [Size -> {"none", "partial", "whole"}]]
        /\ failed \in [Image -> SUBSET Size]
    BY DEF TypeOK
  <2>4. PICK i \in Image, k \in Size :
          /\ thumb' = thumb \/ thumb' = [thumb EXCEPT ![i][k] = "partial"]
          /\ failed' = failed \/ failed' = [failed EXCEPT ![i] = @ \cup {k}]
    BY <2>1, <2>2 DEF OpenResize
  <2>5. image' = image
    BY <2>1 DEF OpenResize
  <2> HIDE DEF TypeOK, Size
  <2> QED
    BY <2>3, <2>4, <2>5 DEF There
<1>2. CASE \E w \in Worker : EncodeResize(w)
  <2>1. PICK w \in Worker : EncodeResize(w)
    BY <1>2
  <2>2. image[work[w].msg] \in Image /\ work[w].k \in Size
    BY <2>1 DEF EncodeResize, TypeOK, InResize, Message
  <2>3. /\ thumb \in [Image -> [Size -> {"none", "partial", "whole"}]]
        /\ failed \in [Image -> SUBSET Size]
    BY DEF TypeOK
  <2>4. PICK i \in Image, k \in Size :
          /\ thumb' = thumb \/ thumb' = [thumb EXCEPT ![i][k] = "whole"]
          /\ failed' = failed \/ failed' = [failed EXCEPT ![i] = @ \cup {k}]
    BY <2>1, <2>2 DEF EncodeResize
  <2>5. image' = image
    BY <2>1 DEF EncodeResize
  <2> HIDE DEF TypeOK, Size
  <2> QED
    BY <2>3, <2>4, <2>5 DEF There
<1>3. CASE UNCHANGED <<image, thumb, failed>>
  BY <1>3 DEF There
<1> QED
  <2>1. ~(\E w \in Worker : OpenResize(w) \/ EncodeResize(w))
          => UNCHANGED <<image, thumb, failed>>
    BY DEF Next, UploadStep, ResizeWorker, vars, BeginUpload, CreateFile,
           CopyFile, RenameFile, Publish, RestartWeb, Store, PublishForeign,
           Deliver, Ack, RestartBroker, StartProcess, StopProcess
  <2> QED
    BY <1>1, <1>2, <1>3, <2>1

(* PassedIsThere is preserved: opening is what passes a size, and Ack only *)
(* takes a task whose sizes are all passed.                                *)
LEMMA PassedStep ==
  ASSUME TypeOK, BusyTypes, PassedIsThere, [Next]_vars
  PROVE  PassedIsThere'
<1> USE DEF web, files, broker, marks
<1>a. /\ image' = image
      /\ \A i \in Image, k \in Size : There(i, k) => There(i, k)'
  BY FilesGrow
<1>b. /\ \A m \in Message \ {Foreign} : image[m] \in Image
      /\ acked \subseteq Message
      /\ \A v \in Worker : work[v] \in Task
  BY DEF TypeOK, Message, Task
<1>c. \A v \in Worker, k \in Size :
        Busy(v) /\ work[v].msg # Foreign /\ Passed(v, k)
          => There(image[work[v].msg], k)
  BY DEF PassedIsThere
<1>d. \A m \in acked \ {Foreign}, k \in Size : There(image[m], k)
  BY DEF PassedIsThere
<1> SUFFICES
      /\ \A v \in Worker, k \in Size :
           Busy(v)' /\ work'[v].msg # Foreign /\ Passed(v, k)'
             => \/ There(image[work[v].msg], k)'
                \/ /\ Busy(v) /\ work'[v].msg = work[v].msg
                   /\ Passed(v, k)
      /\ \A m \in acked' \ {Foreign}, k \in Size :
           m \in acked \/ There(image[m], k)'
  <2>1. \A v \in Worker : work[v].msg \in Message
    BY <1>b DEF Task
  <2> HIDE DEF TypeOK, Size, Busy, Passed, There, PassedIsThere
  <2>2. \A v \in Worker, k \in Size :
          Busy(v)' /\ work'[v].msg # Foreign /\ Passed(v, k)'
            => There(image[work[v].msg], k)'
    BY <1>a, <1>b, <1>c, <2>1
  <2>3. \A m \in acked' \ {Foreign}, k \in Size : There(image[m], k)'
    BY <1>a, <1>b, <1>d
  <2> QED
    BY <1>a, <2>2, <2>3 DEF PassedIsThere
<1> HIDE DEF PassedIsThere
<1>1. CASE UNCHANGED <<work, acked>>
  BY <1>1 DEF Busy, Passed
<1>2. ASSUME NEW w \in Worker, Deliver(w)
      PROVE  /\ acked' = acked
             /\ \A v \in Worker : work'[v] = work[v]
                  \/ (work'[v].k = 1 /\ work'[v].out = "no")
  BY <1>2, <1>b DEF Deliver, TypeOK
<1>3. ASSUME NEW p \in Process, StopProcess(p)
      PROVE  acked' = acked /\ \A v \in Worker : work'[v] \in {work[v], Idle}
  BY <1>3 DEF StopProcess
<1>4. CASE \E w \in Worker : OpenResize(w)
  <2>1. PICK w \in Worker : OpenResize(w)
    BY <1>4
  <2> DEFINE i == image[work[w].msg]  k == work[w].k
  <2>2. /\ i \in Image /\ k \in Size /\ Busy(w) /\ work[w].out = "no"
        /\ acked' = acked
    BY <2>1 DEF OpenResize, InResize, TypeOK, Message
  <2>3. k \in failed'[i] \/ thumb'[i][k] # "none"
    <3>1. /\ thumb \in [Image -> [Size -> {"none", "partial", "whole"}]]
          /\ failed \in [Image -> SUBSET Size]
      BY DEF TypeOK
    <3>2. \/ thumb' = [thumb EXCEPT ![i][k] = "partial"]
          \/ failed' = [failed EXCEPT ![i] = @ \cup {k}]
      BY <2>1 DEF OpenResize
    <3> HIDE DEF i, k, TypeOK, Size
    <3> QED
      BY <2>2, <3>1, <3>2
  <2>4. /\ \A v \in Worker : work'[v].msg = work[v].msg
        /\ work'[w].k = k \/ (work'[w].k = k + 1 /\ work'[w].out = "no")
        /\ \A v \in Worker \ {w} :
             /\ work'[v].k = work[v].k
             /\ work'[v].out = work[v].out \/ work[v].out # "no"
    <3>1. /\ \A v \in Worker : work'[v].msg = work[v].msg
          /\ \/ /\ \A v \in Worker : work'[v].k = work[v].k
                /\ \A v \in Worker \ {w} : work'[v].out =
                     IF SameFile(v, w) THEN "shared" ELSE work[v].out
             \/ /\ work'[w].k = work[w].k + 1 /\ work'[w].out = "no"
                /\ \A v \in Worker \ {w} : work'[v] = work[v]
      BY <2>1, OpenResizeWork
    <3> HIDE DEF TypeOK
    <3> QED
      BY <3>1 DEF SameFile
  <2>5. ASSUME NEW v \in Worker, NEW n \in Size, Busy(v)',
               work[v].msg # Foreign, Passed(v, n)'
        PROVE  There(image[work[v].msg], n)' \/ (Busy(v) /\ Passed(v, n))
    <3>1. CASE v # w
      BY <2>4, <2>5, <3>1 DEF Passed, Busy, Idle
    <3>2. CASE v = w /\ n = k
      <4>1. image'[work'[v].msg] = i
        BY <1>a, <2>4, <3>2
      <4> HIDE DEF i, k
      <4> QED
        BY <2>3, <3>2, <4>1 DEF There
    <3>3. CASE v = w /\ n # k
      <4>1. k \in Int /\ n \in Int
        BY <2>2 DEF Size
      <4> HIDE DEF k, i
      <4>2. work[w].k = k
        BY DEF k
      <4> QED
        BY <2>2, <2>4, <2>5, <3>3, <4>1, <4>2 DEF Passed
    <3> QED
      BY <3>1, <3>2, <3>3
  <2> HIDE DEF i, k
  <2> QED
    BY <2>2, <2>4, <2>5
<1>5. CASE \E w \in Worker : EncodeResize(w)
  <2>1. PICK w \in Worker : EncodeResize(w)
    BY <1>5
  <2>2. /\ Busy(w) /\ work[w].out # "no" /\ work[w].k \in Size
        /\ acked' = acked
        /\ work'[w].msg = work[w].msg /\ work'[w].k = work[w].k + 1
        /\ work'[w].out = "no"
        /\ \A v \in Worker \ {w} : work'[v] = work[v]
    BY <2>1, NextSizeWork DEF EncodeResize, InResize
  <2> QED
    BY <2>2 DEF Busy, Passed, Size
<1>6. CASE \E w \in Worker : Ack(w)
  <2>1. PICK w \in Worker : Ack(w)
    BY <1>6
  <2>2. /\ Busy(w) /\ ~InResize(w)
        /\ acked' \in {acked, acked \cup {work[w].msg}}
        /\ \A v \in Worker : work'[v] \in {work[v], Idle}
    BY <2>1 DEF Ack, TypeOK
  <2>3. work[w].msg # Foreign => work[w].k > Sizes
    BY <1>b, <2>2, ResizeQueueAssumption DEF InResize, BusyTypes, Task, Size
  <2>4. work[w].msg # Foreign => \A k \in Size : There(image[work[w].msg], k)
    BY <1>b, <1>c, <2>2, <2>3, ResizeQueueAssumption DEF Passed, Size, Task
  <2> QED
    BY <1>a, <1>b, <2>2, <2>4 DEF Busy, Passed, Idle, Task
<1> QED
  <2>1. ~(\E w \in Worker : Deliver(w) \/ ResizeWorker(w))
        /\ ~(\E p \in Process : StopProcess(p))
          => UNCHANGED <<work, acked>>
    BY DEF Next, UploadStep, vars, BeginUpload, CreateFile,
           CopyFile, RenameFile, Publish, RestartWeb, Store, PublishForeign,
           RestartBroker, StartProcess
  <2>2. (\E w \in Worker : Deliver(w)) => acked' = acked
          /\ \A v \in Worker, k \in Size : Passed(v, k)' => work'[v] = work[v]
    BY <1>2 DEF Passed, Size
  <2>3. (\E p \in Process : StopProcess(p)) => acked' = acked
          /\ \A v \in Worker : Busy(v)' => work'[v] = work[v]
    BY <1>3 DEF Busy
  <2> QED
    BY <1>1, <1>4, <1>5, <1>6, <2>1, <2>2, <2>3
    DEF ResizeWorker, Busy, Passed

(* PartialIsWritten is preserved: whoever stops writing a torn thumbnail   *)
(* leaves the task to somebody else, or has failed.                        *)
LEMMA PartialStep ==
  ASSUME TypeOK, OwesItsTask, PartialIsWritten, [Next]_vars
  PROVE  PartialIsWritten'
<1> USE DEF web, files, broker, marks
<1>a. /\ \A m \in Message \ {Foreign} : image[m] \in Image
      /\ queue \subseteq Message
      /\ \A v \in Worker : work[v] \in Task
  BY DEF TypeOK, Message, Task
<1>b. /\ thumb \in [Image -> [Size -> {"none", "partial", "whole"}]]
      /\ failed \in [Image -> SUBSET Size]
  BY DEF TypeOK
<1>0. image' = image
  BY FilesGrow
<1> DEFINE Torn(i, k) == thumb[i][k] = "partial" /\ k \notin failed[i]
           QueueOf(i) == \E m \in queue \ {Foreign} : image[m] = i
<1>c. PartialIsWritten <=> \A i \in Image \ strayed, k \in Size :
        Torn(i, k) => QueueOf(i) \/ \E v \in Worker : Writes(v, i, k)
  BY DEF PartialIsWritten, WillBeWritten
<1>d. PartialIsWritten' <=> \A i \in Image \ strayed', k \in Size :
        Torn(i, k)' => QueueOf(i)' \/ \E v \in Worker : Writes(v, i, k)'
  BY DEF PartialIsWritten, WillBeWritten
<1>1. ASSUME NEW w \in Worker, OpenResize(w)
      PROVE  PartialIsWritten'
  <2> DEFINE i0 == image[work[w].msg]  k0 == work[w].k
  <2>1. /\ i0 \in Image /\ k0 \in Size /\ InResize(w) /\ work[w].out = "no"
        /\ strayed' = strayed /\ queue' = queue
    BY <1>1, <1>a DEF OpenResize, InResize, Task
  <2>2. \/ /\ \A v \in Worker : work'[v].k = work[v].k
           /\ work'[w].out = "own"
           /\ \A v \in Worker \ {w} :
                work'[v].out = IF SameFile(v, w) THEN "shared"
                                                 ELSE work[v].out
           /\ thumb' = [thumb EXCEPT ![i0][k0] = "partial"]
           /\ failed' = failed
        \/ /\ work'[w].k = k0 + 1 /\ work'[w].out = "no"
           /\ \A v \in Worker \ {w} : work'[v] = work[v]
           /\ thumb' = thumb
           /\ failed' = [failed EXCEPT ![i0] = @ \cup {k0}]
    BY <1>1, OpenResizeWork
  <2>3. /\ \A v \in Worker : work'[v].msg = work[v].msg
    BY <1>1, OpenResizeWork
  <2>4. ASSUME NEW v \in Worker, NEW i \in Image, NEW k \in Size,
               Writes(v, i, k), k # k0 \/ i # i0
        PROVE  Writes(v, i, k)'
    <3>1. CASE v # w
      BY <1>0, <2>2, <2>3, <2>4, <3>1
      DEF Writes, InResize, Busy, SameFile, Idle
    <3>2. CASE v = w
      <4>1. k0 \in 1..Sizes /\ k \in 1..Sizes /\ k0 < k
        BY <2>1, <2>4, <3>2 DEF Writes, Size
      <4>2. k0 + 1 \in 1..Sizes /\ (k0 + 1 < k \/ k0 + 1 = k)
        BY <4>1, ResizeQueueAssumption
      <4>3. work'[w].k = k0 \/ (work'[w].k = k0 + 1 /\ work'[w].out = "no")
        BY <2>2
      <4> HIDE DEF k0, i0
      <4> QED
        BY <1>0, <2>1, <2>3, <2>4, <3>2, <4>1, <4>2, <4>3
        DEF Writes, InResize, Busy, Idle, Size
    <3> QED
      BY <3>1, <3>2
  <2>5. ASSUME NEW i \in Image, NEW k \in Size, Torn(i, k)'
        PROVE  \/ Torn(i, k) /\ (k # k0 \/ i # i0)
               \/ i = i0 /\ k = k0 /\ work'[w].out = "own" /\ work'[w].k = k0
    <3>1. \/ /\ thumb' = [thumb EXCEPT ![i0][k0] = "partial"]
             /\ failed' = failed
             /\ work'[w].out = "own" /\ work'[w].k = k0
          \/ /\ thumb' = thumb
             /\ failed' = [failed EXCEPT ![i0] = @ \cup {k0}]
      BY <2>2
    <3> HIDE DEF i0, k0, Size
    <3> QED
      BY <1>b, <2>1, <2>5, <3>1
  <2>6. ASSUME work'[w].out = "own", work'[w].k = k0,
               NEW i \in Image, NEW k \in Size, i = i0, k = k0
        PROVE  Writes(w, i, k)'
    BY <1>0, <2>1, <2>3, <2>6 DEF Writes, InResize, Busy, Idle
  <2>7. \A i \in Image \ strayed, k \in Size : Torn(i, k)' =>
          QueueOf(i)' \/ \E v \in Worker : Writes(v, i, k)'
    <3>1. \A i \in Image : QueueOf(i) => QueueOf(i)'
      BY <1>0, <2>1
    <3>2. ASSUME NEW i \in Image \ strayed, NEW k \in Size, Torn(i, k)'
          PROVE  QueueOf(i)' \/ \E v \in Worker : Writes(v, i, k)'
      <4>1. CASE Torn(i, k) /\ (k # k0 \/ i # i0)
        <5>1. QueueOf(i) \/ \E v \in Worker : Writes(v, i, k)
          BY <1>c, <4>1
        <5> HIDE DEF Writes, i0, k0, Size, QueueOf, Torn
        <5> QED
          BY <2>4, <3>1, <4>1, <5>1
      <4>2. CASE i = i0 /\ k = k0 /\ work'[w].out = "own" /\ work'[w].k = k0
        BY <2>6, <4>2
      <4> QED
        BY <2>5, <3>2, <4>1, <4>2
    <3> QED
      BY <3>2
  <2> HIDE DEF Torn, QueueOf
  <2> QED
    BY <1>d, <2>1, <2>7
<1>2. ASSUME NEW w \in Worker, EncodeResize(w)
      PROVE  PartialIsWritten'
  <2> DEFINE i0 == image[work[w].msg]  k0 == work[w].k
  <2>1. /\ i0 \in Image /\ k0 \in Size /\ InResize(w)
        /\ strayed' = strayed /\ queue' = queue
    BY <1>2, <1>a DEF EncodeResize, InResize, Task
  <2>2. /\ work'[w].msg = work[w].msg /\ work'[w].k = k0 + 1
        /\ work'[w].out = "no"
        /\ \A v \in Worker \ {w} : work'[v] = work[v]
    BY <1>2, NextSizeWork DEF EncodeResize
  <2>3. ASSUME NEW i \in Image \ strayed, NEW k \in Size, Torn(i, k)'
        PROVE  Torn(i, k) /\ ~(i = i0 /\ k = k0 /\ work[w].out # "shared")
    <3>1. \/ thumb' = [thumb EXCEPT ![i0][k0] = "whole"] /\ failed' = failed
          \/ work[w].out = "shared" /\ UNCHANGED <<thumb, failed>>
          \/ failed' = [failed EXCEPT ![i0] = @ \cup {k0}] /\ thumb' = thumb
      BY <1>2 DEF EncodeResize
    <3>2. i \in Image
      OBVIOUS
    <3> HIDE DEF i0, k0, Size
    <3> QED
      BY <1>b, <2>1, <2>3, <3>1, <3>2
  <2>4. ASSUME NEW v \in Worker, NEW i \in Image, NEW k \in Size,
               Writes(v, i, k),
               ~(i = i0 /\ k = k0 /\ work[w].out # "shared")
        PROVE  Writes(v, i, k)'
    <3>1. CASE v # w
      BY <1>0, <2>2, <2>4, <3>1 DEF Writes, InResize, Busy
    <3>2. CASE v = w
      <4>1. k0 \in 1..Sizes /\ k \in 1..Sizes /\ k0 < k
        BY <2>1, <2>4, <3>2 DEF Writes, Size
      <4>2. k0 + 1 \in 1..Sizes /\ (k0 + 1 < k \/ k0 + 1 = k)
        BY <4>1, ResizeQueueAssumption
      <4> HIDE DEF k0, i0
      <4> QED
        BY <1>0, <2>1, <2>2, <2>4, <3>2, <4>2
        DEF Writes, InResize, Busy, Idle, Size
    <3> QED
      BY <3>1, <3>2
  <2>5. \A i \in Image \ strayed, k \in Size : Torn(i, k)' =>
          QueueOf(i)' \/ \E v \in Worker : Writes(v, i, k)'
    <3> HIDE DEF Writes, i0, k0, Size
    <3> QED
      BY <1>0, <1>c, <2>1, <2>3, <2>4
  <2> HIDE DEF Torn, QueueOf
  <2> QED
    BY <1>d, <2>1, <2>5
<1>3. ASSUME NEW w \in Worker, Deliver(w)
      PROVE  PartialIsWritten'
  <2>1. /\ work[w] = Idle /\ UNCHANGED <<thumb, failed, strayed>>
        /\ \A v \in Worker \ {w} : work'[v] = work[v]
    BY <1>3 DEF Deliver, TypeOK
  <2>2. PICK m \in queue : queue' = queue \ {m}
               /\ work'[w] = [msg |-> m, k |-> 1, out |-> "no"]
    BY <1>3 DEF Deliver, TypeOK
  <2>3. ASSUME NEW v \in Worker, NEW i \in Image, NEW k \in Size,
               Writes(v, i, k)
        PROVE  Writes(v, i, k)'
    BY <1>0, <2>1, <2>3 DEF Writes, InResize, Busy
  <2>4. ASSUME m # Foreign, NEW k \in Size
        PROVE  Writes(w, image[m], k)'
    BY <1>0, <2>2, <2>4, ResizeQueueAssumption
    DEF Writes, InResize, Busy, Idle, Size
  <2>5. \A i \in Image \ strayed, k \in Size : Torn(i, k)' =>
          QueueOf(i)' \/ \E v \in Worker : Writes(v, i, k)'
    <3> HIDE DEF Writes
    <3> QED
      BY <1>0, <1>c, <2>1, <2>2, <2>3, <2>4
  <2> HIDE DEF Torn, QueueOf
  <2> QED
    BY <1>d, <2>1, <2>5
<1>4. ASSUME NEW w \in Worker, Ack(w)
      PROVE  PartialIsWritten'
  <2>1. /\ ~InResize(w) /\ UNCHANGED <<thumb, failed, strayed, queue>>
        /\ \A v \in Worker \ {w} : work'[v] = work[v]
    BY <1>4 DEF Ack, TypeOK
  <2>2. \A v \in Worker, i \in Image, k \in Size :
          Writes(v, i, k) => Writes(v, i, k)'
    BY <1>0, <2>1 DEF Writes, InResize, Busy
  <2>3. \A i \in Image \ strayed, k \in Size : Torn(i, k)' =>
          QueueOf(i)' \/ \E v \in Worker : Writes(v, i, k)'
    BY <1>0, <1>c, <2>1, <2>2
  <2> HIDE DEF Torn, QueueOf
  <2> QED
    BY <1>d, <2>1, <2>3
<1>5. ASSUME NEW p \in Process, StopProcess(p)
      PROVE  PartialIsWritten'
  <2>1. /\ UNCHANGED <<thumb, failed>> /\ queue' = queue \cup unacked[p]
        /\ \A v \in Worker : v[1] # p => work'[v] = work[v]
        /\ strayed \subseteq strayed'
    BY <1>5 DEF StopProcess
  <2>2. ASSUME NEW v \in Worker, InResize(v), v[1] = p
        PROVE  /\ work[v].msg \in Message \ {Foreign}
               /\ work[v].msg \in queue' \/ image[work[v].msg] \in strayed'
    <3>1. CASE proc[p] = "connected"
      BY <1>a, <2>1, <2>2, <3>1 DEF OwesItsTask, InResize, Task
    <3>2. CASE proc[p] # "connected"
      <4>1. proc[p] = "cut"
        BY <1>5, <3>2 DEF StopProcess
      <4> QED
        BY <1>5, <1>a, <2>2, <4>1 DEF StopProcess, InResize, Task
    <3> QED
      BY <3>1, <3>2
  <2>3. ASSUME NEW v \in Worker, NEW i \in Image, NEW k \in Size,
               Writes(v, i, k)
        PROVE  Writes(v, i, k)' \/ QueueOf(i)' \/ i \in strayed'
    <3>1. CASE v[1] = p
      BY <1>0, <2>2, <2>3, <3>1 DEF Writes
    <3>2. CASE v[1] # p
      BY <1>0, <2>1, <2>3, <3>2 DEF Writes, InResize, Busy
    <3> QED
      BY <3>1, <3>2
  <2>4. \A i \in Image : QueueOf(i) => QueueOf(i)'
    BY <1>0, <2>1
  <2>5. \A i \in Image, k \in Size : Torn(i, k)' => Torn(i, k)
    BY <2>1
  <2> HIDE DEF Torn, QueueOf, Writes
  <2> QED
    BY <1>c, <1>d, <2>1, <2>3, <2>4, <2>5
<1>6. CASE UNCHANGED <<work, thumb, failed, strayed>> /\ queue \subseteq queue'
  <2>1. \A v \in Worker, i \in Image, k \in Size :
          Writes(v, i, k) => Writes(v, i, k)'
    BY <1>0, <1>6 DEF Writes, InResize, Busy
  <2>2. \A i \in Image : QueueOf(i) => QueueOf(i)'
    BY <1>0, <1>6
  <2>3. \A i \in Image, k \in Size : Torn(i, k)' => Torn(i, k)
    BY <1>6
  <2> HIDE DEF Torn, QueueOf, Writes
  <2> QED
    BY <1>c, <1>d, <1>6, <2>1, <2>2, <2>3
<1> QED
  <2>1. ~(\E w \in Worker : Deliver(w) \/ ResizeWorker(w))
        /\ ~(\E p \in Process : StopProcess(p))
          => /\ UNCHANGED <<work, thumb, failed, strayed>>
             /\ queue \subseteq queue'
    BY DEF Next, UploadStep, vars, BeginUpload, CreateFile,
           CopyFile, RenameFile, Publish, RestartWeb, Store, PublishForeign,
           RestartBroker, StartProcess
  <2> QED
    BY <1>1, <1>2, <1>3, <1>4, <1>5, <1>6, <2>1 DEF ResizeWorker

(* When nobody has a task for i, nobody will write its thumbnails, so none *)
(* of them is torn.                                                        *)
LEMMA ThumbInvImplies == ThumbInv => ThumbsComplete
<1> SUFFICES ASSUME ThumbInv, NEW i \in Image \ strayed, NEW k \in Size,
                    \A m \in Pending \ {Foreign} : image[m] # i,
                    k \notin failed[i]
             PROVE  /\ thumb[i][k] # "partial"
                    /\ (\E m \in acked \ {Foreign} : image[m] = i)
                         => thumb[i][k] = "whole"
  BY DEF ThumbsComplete
<1>1. ~WillBeWritten(i, k)
  BY DEF WillBeWritten, Writes, Pending, Outstanding, InResize
<1>2. thumb[i][k] # "partial"
  BY <1>1 DEF ThumbInv, PartialIsWritten
<1>3. (\E m \in acked \ {Foreign} : image[m] = i) => thumb[i][k] # "none"
  BY DEF ThumbInv, PassedIsThere, There
<1>4. thumb[i][k] \in {"none", "partial", "whole"}
  BY DEF ThumbInv, TypeOK
<1> QED
  BY <1>2, <1>3, <1>4

(* ThumbInv is inductive.                                                  *)
LEMMA ThumbInvInvariant == Spec => []ThumbInv
<1>1. Init => PassedIsThere /\ PartialIsWritten
  BY DEF Init, PassedIsThere, PartialIsWritten, Busy
<1>2. TypeOK /\ BusyTypes /\ PassedIsThere /\ [Next]_vars => PassedIsThere'
  BY PassedStep
<1>3. TypeOK /\ OwesItsTask /\ PartialIsWritten /\ [Next]_vars
        => PartialIsWritten'
  BY PartialStep
<1> QED
  BY <1>1, <1>2, <1>3, TypeInvariant, OwesInvariant, PTL DEF Spec, ThumbInv

(* resize_worker.go: once nobody has a task for a picture any more, none   *)
(* of its thumbnails is torn, and all of them exist if a task was          *)
(* acknowledged, except where a resize failed or a cut-off worker strayed. *)
THEOREM ThumbsCompleteCorrect == Spec => []ThumbsComplete
BY ThumbInvInvariant, ThumbInvImplies, PTL

-----------------------------------------------------------------------------
(* What TasksAreDone needs of a worker.                                    *)

(* RabbitMQ waits for a process only while one of its goroutines has the   *)
(* task.                                                                   *)
UnackedIsHeld ==
  \A p \in Process : \A m \in unacked[p] :
    /\ proc[p] = "connected"
    /\ \E w \in Worker : w[1] = p /\ Busy(w) /\ work[w].msg = m

(* A connected process can be given a task by any of its goroutines, or is *)
(* at work on the one task it owes: RabbitMQ never withholds deliveries    *)
(* from a process that has nothing to do.                                  *)
OneTaskAtATime ==
  \A p \in Process : proc[p] = "connected" =>
    \/ unacked[p] = {} /\ \A w \in Worker : w[1] = p => ~Busy(w)
    \/ \E w \in Worker :
         /\ w[1] = p /\ Busy(w) /\ unacked[p] = {work[w].msg}
         /\ \A v \in Worker \ {w} : v[1] = p => ~Busy(v)

LEMMA UnackedIsHeldInvariant == Spec => []UnackedIsHeld
<1>1. Init => UnackedIsHeld
  BY DEF Init, UnackedIsHeld
<1>2. TypeOK /\ BusyTypes /\ OwesItsTask /\ UnackedIsHeld /\ [Next]_vars => UnackedIsHeld'
  <2> SUFFICES ASSUME TypeOK, BusyTypes, OwesItsTask, UnackedIsHeld, [Next]_vars
               PROVE  UnackedIsHeld'
    OBVIOUS
  <2>0. /\ DOMAIN unacked = Process /\ DOMAIN proc = Process
        /\ \A w \in Worker : w[1] \in Process
        /\ work \in [Worker -> Task]
    BY DEF TypeOK, Worker, Task
  <2>1. ASSUME UNCHANGED <<proc, unacked>>,
               \A w \in Worker : Busy(w) => Busy(w)' /\ work'[w].msg = work[w].msg
        PROVE  UnackedIsHeld'
    BY <2>1 DEF UnackedIsHeld
  <2>2. ASSUME NEW u \in Upload, UploadStep(u)
        PROVE  UnackedIsHeld'
    <3>1. UNCHANGED <<proc, unacked, work>>
      BY <2>2 DEF UploadStep, BeginUpload, CreateFile, CopyFile, RenameFile,
                  Publish, broker
    <3> QED BY <2>1, <3>1 DEF Busy
  <2>3. CASE RestartWeb \/ PublishForeign \/ (\E m \in Message : Store(m)) \/ UNCHANGED vars
    <3>1. UNCHANGED <<proc, unacked, work>>
      BY <2>3 DEF RestartWeb, PublishForeign, Store, vars, broker
    <3> QED BY <2>1, <3>1 DEF Busy
  <2>4. ASSUME NEW w \in Worker, Deliver(w)
        PROVE  UnackedIsHeld'
    <3>1. PICK m \in queue :
            /\ unacked' = [unacked EXCEPT ![w[1]] = @ \cup {m}]
            /\ work' = [work EXCEPT ![w] = [msg |-> m, k |-> 1, out |-> "no"]]
      BY <2>4 DEF Deliver
    <3>2. proc' = proc /\ proc[w[1]] = "connected" /\ unacked[w[1]] = {}
      BY <2>4 DEF Deliver
    <3>3. Busy(w)' /\ work'[w].msg = m
      BY <2>0, <3>1 DEF Busy, Idle
    <3>4. \A p \in Process \ {w[1]} : unacked'[p] = unacked[p]
      BY <2>0, <3>1
    <3>5. unacked'[w[1]] = {m}
      BY <2>0, <3>1, <3>2
    <3>6. \A v \in Worker : v # w => work'[v] = work[v]
      BY <2>0, <3>1
    <3>7. ASSUME NEW p \in Process, NEW n \in unacked'[p]
          PROVE  /\ proc'[p] = "connected"
                 /\ \E v \in Worker : v[1] = p /\ Busy(v)' /\ work'[v].msg = n
      <4>1. CASE p = w[1]
        BY <3>2, <3>3, <3>5, <3>7, <4>1
      <4>2. CASE p # w[1]
        BY <3>2, <3>4, <3>6, <3>7, <4>2 DEF UnackedIsHeld, Busy
      <4> QED BY <4>1, <4>2
    <3> QED BY <3>7 DEF UnackedIsHeld
  <2>5. ASSUME NEW w \in Worker, OpenResize(w)
        PROVE  UnackedIsHeld'
    <3>1. /\ \A v \in Worker : work'[v].msg = work[v].msg
          /\ \A v \in Worker : work'[v].k \in {work[v].k, work[v].k + 1}
      BY <2>5, OpenResizeWork
    <3>2. UNCHANGED <<proc, unacked>>
      BY <2>5 DEF OpenResize, broker
    <3>3. \A v \in Worker : Busy(v) => Busy(v)'
      <4> SUFFICES ASSUME NEW v \in Worker, Busy(v) PROVE work'[v].k # Idle.k
        BY DEF Busy
      <4>1. work[v].k >= 1 /\ work[v].k \in Int
        BY <2>0 DEF BusyTypes, Task
      <4> QED BY <3>1, <4>1 DEF Idle
    <3> QED BY <2>1, <3>1, <3>2, <3>3
  <2>6. ASSUME NEW w \in Worker, EncodeResize(w)
        PROVE  UnackedIsHeld'
    <3>1. work' = NextSize(w) /\ InResize(w) /\ UNCHANGED <<proc, unacked>>
      BY <2>6 DEF EncodeResize, broker
    <3>2. /\ work'[w].msg = work[w].msg /\ work'[w].k = work[w].k + 1
          /\ \A v \in Worker \ {w} : work'[v] = work[v]
      BY <3>1, NextSizeWork
    <3>3. Busy(w) => work'[w].k # Idle.k
      <4>1. Busy(w) => work[w].k >= 1 /\ work[w].k \in Int
        BY <2>0 DEF BusyTypes, Task
      <4> QED BY <3>2, <4>1 DEF Idle
    <3>4. \A v \in Worker : Busy(v) => Busy(v)' /\ work'[v].msg = work[v].msg
      BY <3>2, <3>3 DEF Busy
    <3> QED BY <2>1, <3>1, <3>4
  <2>7. ASSUME NEW w \in Worker, Ack(w)
        PROVE  UnackedIsHeld'
    <3>1. /\ proc' = proc /\ Busy(w)
          /\ \A v \in Worker \ {w} : work'[v] = work[v]
          /\ \A p \in Process : unacked'[p] \subseteq unacked[p]
          /\ proc[w[1]] = "connected" => unacked'[w[1]] = unacked[w[1]] \ {work[w].msg}
      BY <2>0, <2>7 DEF Ack
    <3>2. ASSUME NEW p \in Process, NEW m \in unacked'[p]
          PROVE  /\ proc'[p] = "connected"
                 /\ \E v \in Worker : v[1] = p /\ Busy(v)' /\ work'[v].msg = m
      <4>1. PICK v \in Worker : v[1] = p /\ Busy(v) /\ work[v].msg = m
        BY <3>1, <3>2 DEF UnackedIsHeld
      <4>2. proc[p] = "connected"
        BY <3>1, <3>2 DEF UnackedIsHeld
      <4>3. v # w
        BY <3>1, <3>2, <4>1, <4>2
      <4> QED BY <3>1, <4>1, <4>2, <4>3 DEF Busy
    <3> QED BY <3>2 DEF UnackedIsHeld
  <2>8. CASE RestartBroker
    <3>1. \A p \in Process : unacked'[p] = {}
      BY <2>8 DEF RestartBroker
    <3> QED BY <3>1 DEF UnackedIsHeld
  <2>9. ASSUME NEW p \in Process, StartProcess(p)
        PROVE  UnackedIsHeld'
    <3>1. /\ UNCHANGED <<unacked, work>>
          /\ \A q \in Process : proc[q] = "connected" => proc'[q] = "connected"
      BY <2>0, <2>9 DEF StartProcess, broker
    <3> QED BY <3>1 DEF UnackedIsHeld, Busy
  <2>10. ASSUME NEW p \in Process, StopProcess(p)
         PROVE  UnackedIsHeld'
    <3>1. /\ unacked'[p] = {}
          /\ \A q \in Process \ {p} : unacked'[q] = unacked[q] /\ proc'[q] = proc[q]
          /\ \A w \in Worker : w[1] # p => work'[w] = work[w]
      BY <2>0, <2>10 DEF StopProcess
    <3> QED BY <3>1 DEF UnackedIsHeld, Busy
  <2> QED
    BY <2>2, <2>3, <2>4, <2>5, <2>6, <2>7, <2>8, <2>9, <2>10 DEF Next, ResizeWorker
<1> QED
  BY <1>1, <1>2, TypeInvariant, OwesInvariant, PTL DEF Spec

(* resize_worker.go, Qos(1): a connected process takes tasks or works on   *)
(* exactly one, for any number of goroutines and whatever fails: it cannot *)
(* end up connected and owing a task that none of them has.                *)
THEOREM OneTaskAtATimeCorrect == Spec => []OneTaskAtATime
<1>1. OwesItsTask /\ UnackedIsHeld => OneTaskAtATime
  <2> SUFFICES ASSUME OwesItsTask, UnackedIsHeld,
                      NEW p \in Process, proc[p] = "connected",
                      NEW w \in Worker, w[1] = p, Busy(w)
               PROVE  /\ unacked[p] = {work[w].msg}
                      /\ \A v \in Worker \ {w} : v[1] = p => ~Busy(v)
    BY DEF OneTaskAtATime, UnackedIsHeld
  <2> QED BY DEF OwesItsTask, UnackedIsHeld
<1> QED
  BY <1>1, OwesInvariant, UnackedIsHeldInvariant, PTL
=============================================================================
