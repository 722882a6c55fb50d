------------------------------ MODULE Translit ------------------------------
(***************************************************************************)
(* The transliteration by a stream of gRPC in src/microservices/           *)
(* grpc_stream and grpc_stream_2: a client that sends a few words from one *)
(* goroutine and prints what comes back in another, until both are done,   *)
(* and a server that answers word by word.  The n-th word stands for its   *)
(* transliteration too.  What is in transit in one direction keeps its     *)
(* order; when the connection breaks a part of it is lost.                 *)
(***************************************************************************)
EXTENDS Naturals, Sequences, SequencesExt

CONSTANT Words        \* the number of words

ASSUME TranslitAssumption == Words \in Nat

VARIABLES
  serving,       \* the server runs
  sender,        \* "none", "sends", "done" or "panic"
  receiver,      \* "none", "receives", "done" or "error"
  handler,       \* the server's goroutine: "none", "receives", "sends", "done"
  sent,          \* how often the sender has sent
  received,      \* the word the handler has
  inStream,      \* in transit to the server: words, EOF or Broken
  outStream,     \* and to the client
  printed        \* words the client has printed

translitVars == <<serving, sender, receiver, handler, sent, received,
                  inStream, outStream, printed>>

Word(n) == <<"word", n>>
EOF == <<"EOF">>
Broken == <<"error">>

TranslitInit ==
  /\ serving \in BOOLEAN
  /\ sender = "none" /\ receiver = "none" /\ handler = "none"
  /\ sent = 0 /\ received = 0
  /\ inStream = <<>> /\ outStream = <<>> /\ printed = <<>>

(* EnRu opens the stream.  main ignores its error: the first Send is then  *)
(* a call of nil and the program is over.                                  *)
EnRu ==
  /\ sender = "none"
  /\ IF serving
     THEN sender' = "sends" /\ receiver' = "receives" /\ handler' = "receives"
     ELSE sender' = "panic" /\ UNCHANGED <<receiver, handler>>
  /\ UNCHANGED <<serving, sent, received, inStream, outStream, printed>>

Ended(stream) == stream # <<>> /\ Last(stream) \in {EOF, Broken}
Put(stream, what) == IF Ended(stream) THEN stream ELSE Append(stream, what)

(* Faulty: the stream is closed instead of the last word.                  *)
Sender_ClosesEarly ==
  /\ sender = "sends"
  /\ sent' = sent + 1
  /\ inStream' = Put(inStream, IF sent' < Words THEN Word(sent') ELSE EOF)
  /\ sender' = IF sent' < Words THEN sender ELSE "done"
  /\ UNCHANGED <<serving, receiver, handler, received, outStream, printed>>

(* Send, whose error is ignored, for each word, then CloseSend.            *)
Sender ==
  /\ sender = "sends"
  /\ sent' = sent + 1
  /\ inStream' = Put(inStream, IF sent' <= Words THEN Word(sent') ELSE EOF)
  /\ sender' = IF sent' <= Words THEN sender ELSE "done"
  /\ UNCHANGED <<serving, receiver, handler, received, outStream, printed>>

(* The handler receives a word or the end; its stream ends as it returns.  *)
HandlerReceives ==
  /\ handler = "receives" /\ inStream # <<>>
  /\ LET got == Head(inStream) IN
     IF got \in {EOF, Broken}
     THEN /\ handler' = "done"
          /\ outStream' = Put(outStream, got)
          /\ UNCHANGED <<inStream, received>>
     ELSE /\ handler' = "sends" /\ received' = got[2]
          /\ inStream' = Tail(inStream)
          /\ UNCHANGED outStream
  /\ UNCHANGED <<serving, sender, receiver, sent, printed>>

HandlerSends ==
  /\ handler = "sends" /\ handler' = "receives"
  /\ outStream' = Put(outStream, Word(received))
  /\ UNCHANGED <<serving, sender, receiver, sent, received, inStream, printed>>

Receiver ==
  /\ receiver = "receives" /\ outStream # <<>>
  /\ LET got == Head(outStream) IN
     IF got \in {EOF, Broken}
     THEN /\ receiver' = IF got = EOF THEN "done" ELSE "error"
          /\ UNCHANGED <<outStream, printed>>
     ELSE /\ printed' = Append(printed, got[2])
          /\ outStream' = Tail(outStream) /\ UNCHANGED receiver
  /\ UNCHANGED <<serving, sender, handler, sent, received, inStream>>

(* The connection breaks, or the server stops.  Each side has a part of    *)
(* what was on the way, and then an error.                                 *)
Cut(stream) == {Append(SubSeq(stream, 1, n), Broken) : n \in 0..Len(stream)}

ConnectionBreaks ==
  /\ serving /\ handler # "none"
  /\ ~(Ended(outStream) /\ Last(outStream) = Broken)
  /\ inStream' \in Cut(inStream)
  /\ outStream' \in Cut(outStream)
  /\ \/ handler' = handler /\ UNCHANGED serving
     \/ handler' = "done" /\ serving' = FALSE
  /\ UNCHANGED <<sender, receiver, sent, received, printed>>

TranslitNext ==
  \/ EnRu \/ Sender \/ HandlerReceives \/ HandlerSends \/ Receiver
  \/ ConnectionBreaks

TranslitSpec == TranslitInit /\ [][TranslitNext]_translitVars

-----------------------------------------------------------------------------
(* The client prints the words in their order, each once, and ends the     *)
(* stream without an error only after all of them; and it always comes to  *)
(* its end: when nobody can go on both of its goroutines are done, which   *)
(* wg.Wait waits for, or it has panicked because there was no server.      *)
SomebodyGoesOn ==
  \/ sender \in {"none", "sends"}
  \/ handler = "sends" \/ (handler = "receives" /\ inStream # <<>>)
  \/ receiver = "receives" /\ outStream # <<>>

WordsComeBack ==
  /\ printed = [i \in 1..Len(printed) |-> i]
  /\ receiver = "done" => Len(printed) = Words
  /\ \/ SomebodyGoesOn
     \/ sender = "done" /\ receiver \in {"done", "error"}
     \/ sender = "panic" /\ ~serving
=============================================================================
