---------------------------- MODULE ResizeQueue ----------------------------
(***************************************************************************)
(* The image resizing of src/database/rabbit: form.go stores an uploaded   *)
(* picture and publishes a task, resize_worker.go consumes the tasks of a  *)
(* durable RabbitMQ queue and writes one thumbnail per size.               *)
(*                                                                         *)
(* A task is identified with the upload that published it, a picture with  *)
(* its MD5 sum, a size with its index in sizes.  The queue is a set: with  *)
(* several consumers and redelivery nothing depends on its order.          *)
(***************************************************************************)
EXTENDS Integers, FiniteSets, Functions

CONSTANTS
  Upload,      \* requests to /upload
  Image,       \* what may be uploaded
  Jpeg,        \* the pictures jpeg.Decode can read
  Foreign,     \* a message of somebody else, whose body is not JSON
  Process,     \* running copies of resize_worker.go
  Thread,      \* the ResizeWorker goroutines of one process; 11 in the code
  Sizes,       \* how many thumbnails a task asks for; 3 in the code
  MaxFaults    \* bound: failed operations, crashes and restarts

ASSUME ResizeQueueAssumption ==
  /\ Jpeg \subseteq Image
  /\ Foreign \notin Upload
  /\ Sizes \in Nat \ {0} /\ MaxFaults \in Nat

VARIABLES
  image,       \* image[u]: the picture of upload u
  up,          \* up[u]: the next operation of uploadPage
  webConn,     \* the web server's channel to RabbitMQ is open
  tmp,         \* uploads whose temporary file is in ./images
  original,    \* pictures in ./images under their MD5 sum
  thumb,       \* thumb[i][k]: the file of picture i in size k
  socket,      \* published, not yet stored by RabbitMQ
  queue,       \* RabbitMQ: tasks to be delivered
  unacked,     \* RabbitMQ: unacked[p]: delivered to p, not acknowledged
  proc,        \* proc[p]: "down", "connected", or "cut" off from RabbitMQ
  work,        \* work[w]: the task of goroutine w and how far it is, or Idle
  faults,      \* faults so far
  acked,       \* tasks acknowledged (history)
  failed,      \* failed[i]: sizes in which a resize of i failed (history)
  lost,        \* tasks that never reached the queue (history)
  strayed      \* pictures whose resizing died after its task had been given
               \* to somebody else (history)

web == <<image, up, webConn, tmp>>
files == <<original, thumb>>
broker == <<socket, queue, unacked>>
marks == <<acked, failed, lost, strayed>>
vars == <<web, files, broker, proc, work, faults, marks>>

Worker == Process \X Thread
Message == Upload \cup {Foreign}
Size == 1..Sizes
Idle == [msg |-> Foreign, k |-> 0, out |-> "no"]

TypeOK ==
  /\ image \in [Upload -> Image]
  /\ up \in [Upload -> {"idle", "create", "copy", "rename", "publish", "ok",
                        "error", "aborted"}]
  /\ webConn \in BOOLEAN
  /\ tmp \subseteq Upload /\ original \subseteq Image
  /\ thumb \in [Image -> [Size -> {"none", "partial", "whole"}]]
  /\ socket \subseteq Message /\ queue \subseteq Message
  /\ unacked \in [Process -> SUBSET Message]
  /\ proc \in [Process -> {"down", "connected", "cut"}]
  /\ work \in [Worker -> [msg : Message, k : 0..Sizes + 1,
                         out : {"no", "own", "shared"}]]
  /\ faults \in 0..MaxFaults
  /\ acked \subseteq Message /\ lost \subseteq Message
  /\ failed \in [Image -> SUBSET Size]
  /\ strayed \subseteq Image

Init ==
  /\ image \in [Upload -> Image]
  /\ up = [u \in Upload |-> "idle"]
  /\ webConn = TRUE
  /\ tmp = {} /\ original = {}
  /\ thumb = [i \in Image |-> [k \in Size |-> "none"]]
  /\ socket = {} /\ queue = {}
  /\ unacked = [p \in Process |-> {}]
  /\ proc = [p \in Process |-> "down"]
  /\ work = [w \in Worker |-> Idle]
  /\ faults = 0
  /\ acked = {} /\ lost = {} /\ strayed = {}
  /\ failed = [i \in Image |-> {}]

Fault == faults < MaxFaults /\ faults' = faults + 1

-----------------------------------------------------------------------------
(* uploadPage of form.go.                                                  *)

InUpload(u) == up[u] \in {"create", "copy", "rename", "publish"}
Goto(u, label) == up' = [up EXCEPT ![u] = label]

(* FormFile: a request without a file just returns.                        *)
BeginUpload(u) ==
  /\ up[u] = "idle"
  /\ \/ Goto(u, "create") /\ UNCHANGED faults
     \/ Goto(u, "error") /\ Fault
  /\ UNCHANGED <<image, webConn, tmp, files, broker, proc, work, marks>>

CreateFile(u) ==
  /\ up[u] = "create"
  /\ \/ Goto(u, "copy") /\ tmp' = tmp \cup {u} /\ UNCHANGED faults
     \/ Goto(u, "error") /\ Fault /\ UNCHANGED tmp
  /\ UNCHANGED <<image, webConn, files, broker, proc, work, marks>>

(* A failed copy leaves the temporary file behind.                         *)
CopyFile(u) ==
  /\ up[u] = "copy"
  /\ \/ Goto(u, "rename") /\ UNCHANGED faults
     \/ Goto(u, "error") /\ Fault
  /\ UNCHANGED <<image, webConn, tmp, files, broker, proc, work, marks>>

(* Rename replaces the file of an earlier upload of the same picture.      *)
RenameFile(u) ==
  /\ up[u] = "rename"
  /\ \/ /\ Goto(u, "publish")
        /\ tmp' = tmp \ {u}
        /\ original' = original \cup {image[u]}
        /\ UNCHANGED faults
     \/ Goto(u, "error") /\ Fault /\ UNCHANGED <<tmp, original>>
  /\ UNCHANGED <<image, webConn, thumb, broker, proc, work, marks>>

(* Publish only writes to the connection.  On a closed channel it returns  *)
(* an error and panicOnError aborts the request; otherwise the upload is   *)
(* reported as successful.                                                 *)
Publish(u) ==
  /\ up[u] = "publish"
  /\ IF webConn
     THEN Goto(u, "ok") /\ socket' = socket \cup {u}
     ELSE Goto(u, "aborted") /\ UNCHANGED socket
  /\ UNCHANGED <<image, webConn, tmp, files, queue, unacked, proc, work,
                 faults, marks>>

(* The web server ends and is started again: its requests are gone, what   *)
(* they left in ./images stays.                                            *)
RestartWeb ==
  /\ Fault
  /\ up' = [u \in Upload |-> IF InUpload(u) THEN "aborted" ELSE up[u]]
  /\ webConn' = TRUE
  /\ UNCHANGED <<image, tmp, files, broker, proc, work, marks>>

UploadStep(u) ==
  BeginUpload(u) \/ CreateFile(u) \/ CopyFile(u) \/ RenameFile(u) \/ Publish(u)

-----------------------------------------------------------------------------
(* RabbitMQ.  The queue is durable and the messages are persistent.        *)

Store(m) ==
  /\ m \in socket
  /\ socket' = socket \ {m}
  /\ queue' = queue \cup {m}
  /\ UNCHANGED <<web, files, unacked, proc, work, faults, marks>>

(* Somebody else puts a message into the queue, once.                      *)
PublishForeign ==
  /\ Foreign \notin queue \cup acked \cup UNION Range(unacked)
  /\ Fault
  /\ queue' = queue \cup {Foreign}
  /\ UNCHANGED <<web, files, socket, unacked, proc, work, marks>>

(* Qos(1): a consumer is given a task only while it owes no acknowledgement.*)
(* The deliveries of a process go to one channel all its goroutines range  *)
(* over.                                                                   *)
Deliver(w) ==
  LET p == w[1] IN
  /\ proc[p] = "connected"
  /\ unacked[p] = {}
  /\ work[w] = Idle
  /\ \E m \in queue :
       /\ queue' = queue \ {m}
       /\ unacked' = [unacked EXCEPT ![p] = @ \cup {m}]
       /\ work' = [work EXCEPT ![w] = [msg |-> m, k |-> 1, out |-> "no"]]
  /\ UNCHANGED <<web, files, socket, proc, faults, marks>>

(* Faulty: the messages are not persistent.                                *)
RestartBroker_Transient ==
  /\ Fault
  /\ lost' = lost \cup socket
  /\ socket' = {} /\ queue' = {}
  /\ unacked' = [p \in Process |-> {}]
  /\ webConn' = FALSE
  /\ proc' = [p \in Process |-> IF proc[p] = "down" THEN "down" ELSE "cut"]
  /\ UNCHANGED <<image, up, tmp, files, work, acked, failed, strayed>>

(* RabbitMQ restarts.  What it had stored it has still, and what was not   *)
(* acknowledged is to be delivered again; its clients do not reconnect.    *)
RestartBroker ==
  /\ Fault
  /\ lost' = lost \cup socket
  /\ socket' = {}
  /\ queue' = queue \cup UNION Range(unacked)
  /\ unacked' = [p \in Process |-> {}]
  /\ webConn' = FALSE
  /\ proc' = [p \in Process |-> IF proc[p] = "down" THEN "down" ELSE "cut"]
  /\ UNCHANGED <<image, up, tmp, files, work, acked, failed, strayed>>

-----------------------------------------------------------------------------
(* resize_worker.go.                                                       *)

(* main: connect, consume, and start the goroutines.                       *)
StartProcess(p) ==
  /\ proc[p] = "down"
  /\ proc' = [proc EXCEPT ![p] = "connected"]
  /\ UNCHANGED <<web, files, broker, work, faults, marks>>

Busy(w) == work[w] # Idle
InResize(w) == Busy(w) /\ work[w].msg # Foreign /\ work[w].k \in Size

(* Done with one size: a failed resize is printed, and the next one tried. *)
NextSize(w) == [work EXCEPT ![w].k = @ + 1, ![w].out = "no"]

(* Two goroutines with the same file open, of two processes.               *)
SameFile(v, w) ==
  /\ InResize(v) /\ work[v].out # "no"
  /\ work[v].k = work[w].k /\ image[work[v].msg] = image[work[w].msg]

(* Faulty: a thumbnail that is there already is not made again.            *)
OpenResize_SkipsExisting(w) ==
  /\ InResize(w) /\ work[w].out = "no"
  /\ LET i == image[work[w].msg]
         k == work[w].k
     IN  IF thumb[i][k] = "none" /\ i \in original \cap Jpeg
         THEN /\ thumb' = [thumb EXCEPT ![i][k] = "partial"]
              /\ work' = [work EXCEPT ![w].out = "own"]
         ELSE work' = NextSize(w) /\ UNCHANGED thumb
  /\ UNCHANGED <<web, original, broker, proc, faults, marks>>

(* ResizeImage up to os.Create, which truncates what is there, also under  *)
(* somebody who is writing it.                                             *)
OpenResize(w) ==
  /\ InResize(w) /\ work[w].out = "no"
  /\ LET i == image[work[w].msg]
         k == work[w].k
     IN  \/ /\ i \in original \cap Jpeg
            /\ thumb' = [thumb EXCEPT ![i][k] = "partial"]
            /\ work' = [v \in Worker |->
                 CASE v = w -> [work[v] EXCEPT !.out = "own"]
                   [] v # w /\ SameFile(v, w) ->
                        [work[v] EXCEPT !.out = "shared"]
                   [] OTHER -> work[v]]
            /\ UNCHANGED <<faults, failed>>
         \/ /\ IF i \in original \cap Jpeg THEN Fault ELSE UNCHANGED faults
            /\ work' = NextSize(w)
            /\ failed' = [failed EXCEPT ![i] = @ \cup {k}]
            /\ UNCHANGED thumb
  /\ UNCHANGED <<web, original, broker, proc, acked, lost, strayed>>

(* jpeg.Encode writes the whole file, and its error is not looked at.  If  *)
(* somebody truncated the file meanwhile, part of what was written may be  *)
(* missing.                                                                *)
EncodeResize(w) ==
  /\ InResize(w) /\ work[w].out # "no"
  /\ work' = NextSize(w)
  /\ LET i == image[work[w].msg]
         k == work[w].k
     IN  \/ /\ thumb' = [thumb EXCEPT ![i][k] = "whole"]
            /\ UNCHANGED <<faults, failed>>
         \/ /\ work[w].out = "shared"
            /\ UNCHANGED <<thumb, faults, failed>>
         \/ /\ Fault
            /\ failed' = [failed EXCEPT ![i] = @ \cup {k}]
            /\ UNCHANGED thumb
  /\ UNCHANGED <<web, original, broker, proc, acked, lost, strayed>>

(* Faulty: a message that cannot be read is skipped without Ack.           *)
Ack_SkipsUnreadable(w) ==
  LET p == w[1]
      m == work[w].msg
  IN
  /\ Busy(w) /\ ~InResize(w)
  /\ IF proc[p] = "connected" /\ m # Foreign
     THEN /\ unacked' = [unacked EXCEPT ![p] = @ \ {m}]
          /\ acked' = acked \cup {m}
     ELSE UNCHANGED <<unacked, acked>>
  /\ work' = [work EXCEPT ![w] = Idle]
  /\ UNCHANGED <<web, files, socket, queue, proc, faults, failed, lost,
                 strayed>>

(* Ack after the last size, or at once when the body is not JSON.  On a    *)
(* closed channel it fails, and nobody looks at the error.                 *)
Ack(w) ==
  LET p == w[1]
      m == work[w].msg
  IN
  /\ Busy(w) /\ ~InResize(w)
  /\ IF proc[p] = "connected"
     THEN /\ unacked' = [unacked EXCEPT ![p] = @ \ {m}]
          /\ acked' = acked \cup {m}
     ELSE UNCHANGED <<unacked, acked>>
  /\ work' = [work EXCEPT ![w] = Idle]
  /\ UNCHANGED <<web, files, socket, queue, proc, faults, failed, lost,
                 strayed>>

(* The process ends: killed, or by the Go runtime once it is cut off and   *)
(* its goroutines have returned, since main waits for a WaitGroup nobody   *)
(* ever finishes.  RabbitMQ puts its task back.                            *)
StopProcess(p) ==
  LET held == {w \in Worker : w[1] = p /\ InResize(w)} IN
  /\ \/ proc[p] = "connected" /\ Fault
     \/ proc[p] = "cut" /\ held = {} /\ UNCHANGED faults
     \/ proc[p] = "cut" /\ held # {} /\ Fault
  /\ proc' = [proc EXCEPT ![p] = "down"]
  /\ queue' = queue \cup unacked[p]
  /\ unacked' = [unacked EXCEPT ![p] = {}]
  /\ work' = [w \in Worker |-> IF w[1] = p THEN Idle ELSE work[w]]
  /\ strayed' = IF proc[p] = "cut"
                THEN strayed \cup {image[work[w].msg] : w \in held}
                ELSE strayed
  /\ UNCHANGED <<web, files, socket, acked, failed, lost>>

ResizeWorker(w) == OpenResize(w) \/ EncodeResize(w) \/ Ack(w)

Next ==
  \/ \E u \in Upload : UploadStep(u)
  \/ RestartWeb
  \/ \E m \in Message : Store(m)
  \/ PublishForeign
  \/ \E w \in Worker : Deliver(w) \/ ResizeWorker(w)
  \/ RestartBroker
  \/ \E p \in Process : StartProcess(p) \/ StopProcess(p)

Spec == Init /\ [][Next]_vars

(* Requests, RabbitMQ and the goroutines go on.  Nobody has to upload, to  *)
(* fail, or to start a process.                                            *)
FairSpec ==
  /\ Spec
  /\ \A u \in Upload :
       WF_vars(CreateFile(u) \/ CopyFile(u) \/ RenameFile(u) \/ Publish(u))
  /\ \A m \in Message : WF_vars(Store(m))
  /\ \A p \in Process : WF_vars(\E t \in Thread : Deliver(<<p, t>>))
  /\ \A w \in Worker : WF_vars(ResizeWorker(w))

-----------------------------------------------------------------------------
(* What a task is to RabbitMQ: on its way, waiting, or with a consumer.    *)
Outstanding == socket \cup queue \cup UNION Range(unacked)

(* Tasks somebody is or will be working on.                                *)
Pending == Outstanding \cup {work[w].msg : w \in {v \in Worker : Busy(v)}}

(* resize_worker.go acknowledges after the last size.  So once nobody has  *)
(* a task for a picture any more, none of its thumbnails is torn, and all  *)
(* of them exist if a task was acknowledged: except where ResizeImage      *)
(* failed, and except for one way of losing a file (strayed): a worker cut *)
(* off from RabbitMQ goes on with a task that is already somebody else's,  *)
(* truncates a finished thumbnail and dies.                                *)
ThumbsComplete ==
  \A i \in Image \ strayed, k \in Size :
    /\ \A m \in Pending \ {Foreign} : image[m] # i
    /\ k \notin failed[i]
    => /\ thumb[i][k] # "partial"
       /\ (\E m \in acked \ {Foreign} : image[m] = i) => thumb[i][k] = "whole"

(* form.go: a task is published after its picture has been moved to the    *)
(* place the worker opens, so no worker ever misses the file, whatever     *)
(* crashes and however often the task is delivered; and an upload reported *)
(* as successful has its picture and its task, or the task has been done.  *)
(* Publish does not wait for a confirmation, so a restart of RabbitMQ      *)
(* before the task is stored is the exception.                             *)
SuccessIsKept ==
  /\ \A m \in Pending \ {Foreign} : image[m] \in original
  /\ \A u \in Upload : up[u] = "ok" =>
       /\ image[u] \in original
       /\ u \in Outstanding \cup acked \cup lost

(* resize_worker.go: every message is acknowledged in the end, readable or *)
(* not, as long as a worker stays connected.                               *)
TasksAreDone ==
  \A m \in Message :
    <>[](\E p \in Process : proc[p] = "connected")
      => (m \in queue ~> m \in acked)

=============================================================================
