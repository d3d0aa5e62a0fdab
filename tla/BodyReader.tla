------------------------------ MODULE BodyReader ------------------------------
(***************************************************************************)
(* The reader of the body of one upload (internal/s3api/body.go): a        *)
(* verifyReader, which checks the length and the digests that the client   *)
(* declared, around the raw body or around a chunkReader, which undoes     *)
(* the aws-chunked framing and checks the signatures and the trailers.     *)
(* ObjectStore takes its verdict, whole or refused, as given (Receive,     *)
(* Reject); this module says what the verdict is worth.                    *)
(*                                                                         *)
(* The wire is a sequence of tokens: the size line of a frame, units of    *)
(* data, the line break after a frame, the trailers.  Hashes are the       *)
(* sequences they are taken of, and the signature of a frame is that of    *)
(* the frames up to it.  Every other way to write a line that the code     *)
(* refuses counts as a token that is missing; data never reads as a line   *)
(* of the framing, and a token of the framing, read as data, is one unit.  *)
(* A read hands on data or an error, not both: bufio passes data along     *)
(* with the end of the body only to a caller that asks for as much as its  *)
(* buffer holds, 64 KiB, and io.Copy asks for half of that.                *)
(***************************************************************************)
EXTENDS Integers, SequencesExt

CONSTANTS
    Datum,    \* units of data
    Frames,   \* the bodies that clients send, each a sequence of frames
    MaxChunk, \* the largest frame that is accepted (maxChunk)
    Limits    \* configured maximal sizes of an object, 0 for none

ASSUME FramesAssumption == Frames \subseteq Seq(Seq(Datum) \ {<<>>})
ASSUME LimitAssumption == MaxChunk \in Nat /\ Limits \subseteq Nat

VARIABLES
    req,    \* the request: what was sent, what was declared of it
    wire,   \* what is still to arrive of the body
    ends,   \* how the wire ends: "eof", or "lost" with the connection
    how,    \* what became of the body on its way: "whole", "cut", "damaged"
    c,      \* the chunkReader
    got,    \* the data handed on so far; what the digests have seen
    verr,   \* verifyReader.err
    answer  \* the error of the last call: "more" stands for nil

body == <<req, wire, ends, how, c, got, verr, answer>>

-------------------------------------------------------------------------------
(* What a client sends. *)
Size(n, sig) == [kind |-> "size", n |-> n, sig |-> sig]
Data(d) == [kind |-> "data", d |-> d]
CRLF == [kind |-> "crlf"]
Trailers(sum, sig) == [kind |-> "trailers", sum |-> sum, sig |-> sig]

DataOf(frame) == [i \in 1..Len(frame) |-> Data(frame[i])]
BodyOf(frames) == DataOf(FlattenSeq(frames))

(* The signature of the last of these frames, which covers those before it. *)
Signature(frames) == [i \in 1..Len(frames) |-> DataOf(frames[i])]

FrameOf(frames, i) ==
    <<Size(Len(frames[i]), Signature(SubSeq(frames, 1, i)))>> \o DataOf(frames[i]) \o <<CRLF>>

(* These frames in this order, the closing one, and the trailers. *)
Encoding(frames, order, trailers) ==
    LET last == Append(Signature(frames), <<>>) IN
    FlattenSeq([i \in 1..Len(order) |-> FrameOf(frames, order[i])])
        \o <<Size(0, last)>>
        \o IF trailers THEN <<Trailers(BodyOf(frames), <<last, BodyOf(frames)>>)>> ELSE <<>>

(* What may become of the order of the frames: one is lost or comes twice,   *)
(* two change places.                                                        *)
InOrder(frames) == [i \in 1..Len(frames) |-> i]
Disorders(frames) ==
    LET o == InOrder(frames) IN
    {RemoveAt(o, i) : i \in DOMAIN o} \cup {InsertAt(o, i, i) : i \in DOMAIN o}
        \cup ({[o EXCEPT ![i] = j, ![j] = i] : i, j \in DOMAIN o} \ {o})

(* What may become of one token: it is altered, or lost. *)
Altered(t) ==
    CASE t.kind = "data" -> {Data(d) : d \in Datum \ {t.d}}
      [] t.kind = "size" -> {[t EXCEPT !.n = n] : n \in (0..t.n + 2) \ {t.n}}
      [] t.kind = "trailers" -> {[t EXCEPT !.sum = <<>>]}
      [] OTHER -> {}

Damaged(w) ==
    {RemoveAt(w, i) : i \in DOMAIN w}
        \cup UNION {{ReplaceAt(w, i, t) : t \in Altered(w[i])} : i \in DOMAIN w}

(* What arrives of w: a beginning of it.  A plain body that stops early is a *)
(* lost connection, which net/http tells apart; the frames of a chunked one  *)
(* may also stop early in a request that is complete.                        *)
Cuts(w, framed) ==
    {<<SubSeq(w, 1, n), e>> : n \in 0..Len(w) - 1,
                              e \in {"lost"} \cup IF framed THEN {"eof"} ELSE {}}

(* A request: frames is its body (one frame if it is sent as it is), declared *)
(* its declared length (-1 for none), digest whether a header declares a      *)
(* digest of the body, max the configured limit.                              *)
Request(frames, framed, signed, trailers, digest, declared, max) ==
    [body |-> BodyOf(frames), framed |-> framed, signed |-> signed, trailers |-> trailers,
     digest |-> digest, declared |-> declared, max |-> max,
     fits |-> \A i \in DOMAIN frames : Len(frames[i]) <= MaxChunk]

Arrives(w, others, framed) ==
    \/ wire = w /\ ends = "eof" /\ how = "whole"
    \/ \E a \in Cuts(w, framed) : wire = a[1] /\ ends = a[2] /\ how = "cut"
    \/ \E v \in others : \E a \in {<<v, "eof">>} \cup Cuts(v, framed) :
          wire = a[1] /\ ends = a[2] /\ how = "damaged"

NoChunk == [left |-> 0, sum |-> <<>>, sig |-> <<>>, prev |-> <<>>, eof |-> FALSE, err |-> "none"]

ReaderInit ==
    /\ c = NoChunk
    /\ got = <<>>
    /\ verr = "none"
    /\ answer = "unopened"

(* Frames are signed, or followed by trailers, or both. *)
BodyInit ==
    /\ ReaderInit
    /\ \E frames \in Frames, digest \in BOOLEAN, max \in Limits :
         LET n == Len(BodyOf(frames)) IN
         \/ /\ \E declared \in {n, -1} :
                  req = Request(frames, FALSE, FALSE, FALSE, digest, declared, max)
            /\ Arrives(BodyOf(frames), Damaged(BodyOf(frames)), FALSE)
         \/ \E signed, trailers \in BOOLEAN :
              LET w == Encoding(frames, InOrder(frames), trailers) IN
              /\ signed \/ trailers
              /\ \E declared \in {n, n - 1, -1} :
                   req = Request(frames, TRUE, signed, trailers, digest, declared, max)
              /\ Arrives(w,
                         Damaged(w) \cup {Encoding(frames, o, trailers) : o \in Disorders(frames)},
                         TRUE)

(* A request without a body. *)
NoBody ==
    /\ ReaderInit
    /\ req = Request(<<>>, FALSE, FALSE, FALSE, FALSE, 0, 0)
    /\ wire = <<>> /\ ends = "eof" /\ how = "whole"

-------------------------------------------------------------------------------
openBody ==
    /\ answer = "unopened"
    /\ answer' = IF req.framed /\ req.declared < 0 THEN "format"
                 ELSE IF req.max > 0 /\ req.declared > req.max THEN "toolarge"
                 ELSE "more"
    /\ verr' = IF answer' = "more" THEN "none" ELSE answer'
    /\ UNCHANGED <<req, wire, ends, how, c, got>>

(* The end of the body, when data is what arrived: length, then digests. *)
finish(data) ==
    IF req.declared >= 0 /\ Len(data) # req.declared THEN "incomplete"
    ELSE IF req.digest /\ data # req.body THEN "digest"
    ELSE "eof"

(* verifyReader.Read after the reader inside it has returned data and e. *)
HandOn(data, e) ==
    /\ got' = got \o data
    /\ answer' = IF data # <<>> /\ req.max > 0 /\ Len(got') > req.max THEN "toolarge"
                 ELSE IF e = "eof" THEN finish(got')
                 ELSE e
    /\ verr' = IF answer' \in {"more", "eof"} THEN "none" ELSE answer'

(* The body of the request as it is; its end may come with its last data. *)
PlainRead ==
    /\ \/ /\ wire = <<>>
          /\ HandOn(<<>>, ends)
          /\ UNCHANGED wire
       \/ \E n \in 1..Len(wire) :
            /\ wire' = SubSeq(wire, n + 1, Len(wire))
            /\ \E e \in {"more"} \cup IF n = Len(wire) THEN {ends} ELSE {} :
                  HandOn(SubSeq(wire, 1, n), e)
    /\ UNCHANGED <<req, ends, how, c>>

-------------------------------------------------------------------------------
(* The chunkReader. *)
ReadAgain ==
    /\ c.eof \/ c.err # "none"
    /\ HandOn(<<>>, IF c.eof THEN "eof" ELSE c.err)
    /\ UNCHANGED <<req, wire, ends, how, c>>

Active == ~ c.eof /\ c.err = "none"

(* The next line is a size line that is accepted.  (The first two operators  *)
(* are mistakes, not part of the model: a limit that is off by one, none.)   *)
SizeLineBelow == wire # <<>> /\ Head(wire).kind = "size" /\ Head(wire).n < MaxChunk
SizeLineAny == wire # <<>> /\ Head(wire).kind = "size"

SizeLine == wire # <<>> /\ Head(wire).kind = "size" /\ Head(wire).n <= MaxChunk

(* The error of any other line, or of none.  (The first operator is a        *)
(* mistake, not part of the model: the error of the line that could not be   *)
(* read is handed on, io.EOF for one.)                                       *)
LineErrorAsRead == IF wire = <<>> THEN ends ELSE "format"

LineError == "format"

BadSizeLine ==
    /\ Active /\ c.left = 0 /\ ~ SizeLine
    /\ c' = [c EXCEPT !.err = LineError]
    /\ HandOn(<<>>, LineError)
    /\ UNCHANGED <<req, wire, ends, how>>

(* verifyChunk, of a frame with these data under the signature sig.          *)
(* (The first operator is a mistake, not part of the model: a signature that *)
(* does not depend on the frames before.)                                    *)
SignatureHoldsAlone(sig, data) == req.signed => Last(sig) = data

SignatureHolds(sig, data) == req.signed => sig = Append(c.prev, data)

(* readTrailers, from w, after a closing frame with the signature prev. *)
TrailerAnswer(w, prev) ==
    IF w = <<>> \/ Head(w).kind # "trailers" THEN "format"
    ELSE IF req.signed /\ Head(w).sig # <<prev, Head(w).sum>> THEN "signature"
    ELSE IF Head(w).sum # got THEN "digest"
    ELSE "eof"

(* The reader after its closing frame.  (The first operator is a mistake,    *)
(* not part of the model: the end of the body is not remembered.)            *)
ClosedForgotten(e) == IF e = "eof" THEN c ELSE [c EXCEPT !.err = e]

Closed(e) == IF e = "eof" THEN [c EXCEPT !.eof = TRUE] ELSE [c EXCEPT !.err = e]

ClosingFrame ==
    /\ Active /\ c.left = 0 /\ SizeLine /\ Head(wire).n = 0
    /\ LET sig == Head(wire).sig
           e == IF ~ SignatureHolds(sig, <<>>) THEN "signature"
                ELSE IF req.trailers THEN TrailerAnswer(Tail(wire), sig)
                ELSE "eof"
       IN /\ c' = Closed(e)
          /\ HandOn(<<>>, e)
    /\ wire' = Tail(wire)
    /\ UNCHANGED <<req, ends, how>>

(* openChunk of a frame with data: the reader in the frame, and what follows.*)
InFrame == IF c.left > 0 THEN c
           ELSE [c EXCEPT !.left = Head(wire).n, !.sig = Head(wire).sig, !.sum = <<>>]
InWire == IF c.left > 0 THEN wire ELSE Tail(wire)

HasFrame == Active /\ (c.left > 0 \/ (SizeLine /\ Head(wire).n > 0))

(* The error of a Read inside a frame of which nothing is left to arrive.    *)
(* (The first operator is a mistake, not part of the model: no error.)       *)
NothingLeftQuietly == "more"

NothingLeft == ends

StopInFrame ==
    /\ HasFrame /\ InWire = <<>>
    /\ c' = [InFrame EXCEPT !.err = NothingLeft]
    /\ wire' = <<>>
    /\ HandOn(<<>>, NothingLeft)
    /\ UNCHANGED <<req, ends, how>>

(* finishChunk: the frame f has been read, and w follows. *)
FrameAnswer(f, w) ==
    IF w = <<>> \/ Head(w) # CRLF THEN "format"
    ELSE IF ~ SignatureHolds(f.sig, f.sum) THEN "signature"
    ELSE "more"

(* n units of the frame, in a buffer that takes no more or because no more   *)
(* have arrived.                                                             *)
ReadFrame(n) ==
    /\ HasFrame /\ n <= InFrame.left /\ n <= Len(InWire)
    /\ LET data == SubSeq(InWire, 1, n)
           w == SubSeq(InWire, n + 1, Len(InWire))
           f == [InFrame EXCEPT !.sum = @ \o data, !.left = @ - n]
           e == IF f.left > 0 THEN "more" ELSE FrameAnswer(f, w)
       IN /\ wire' = IF f.left = 0 /\ e = "more" THEN Tail(w) ELSE w
          /\ c' = IF e # "more" THEN [f EXCEPT !.err = e]
                  ELSE IF f.left = 0 /\ req.signed THEN [f EXCEPT !.prev = f.sig]
                  ELSE f
          /\ HandOn(data, e)
    /\ UNCHANGED <<req, ends, how>>

ChunkRead ==
    \/ ReadAgain
    \/ BadSizeLine
    \/ ClosingFrame
    \/ StopInFrame
    \/ \E n \in 1..MaxChunk : ReadFrame(n)

(* verifyReader.Read: what it has refused once it refuses again. *)
Refuse ==
    /\ verr # "none"
    /\ answer' = verr
    /\ UNCHANGED <<req, wire, ends, how, c, got, verr>>

Read ==
    /\ answer # "unopened"
    /\ \/ Refuse
       \/ verr = "none" /\ ~ req.framed /\ PlainRead
       \/ verr = "none" /\ req.framed /\ ChunkRead

-------------------------------------------------------------------------------
Errors == {"format", "signature", "digest", "incomplete", "toolarge", "lost"}

(* Types: what the reader hands on has arrived, its place in a frame is      *)
(* within the largest one, and it refuses with one of its errors.            *)
BodyTypeOK ==
    /\ ends \in {"eof", "lost"}
    /\ answer \in {"unopened", "more", "eof"} \cup Errors
    /\ verr \in {"none"} \cup Errors
    /\ c.left \in 0..MaxChunk
    /\ c.eof \in BOOLEAN
    /\ c.err \in {"none", "eof", "lost", "format", "signature", "digest"}
    /\ IsSuffix(c.sum, got)

(* README.md: an object is put into place only if its body arrived complete  *)
(* and the checksums agree.  A body that ends without an error has the       *)
(* declared length, is within the limit, and agrees with what was sent       *)
(* wherever a header declares a digest or the closing frame was read: no     *)
(* loss, alteration or exchange of data gets past the signatures or the      *)
(* trailers.                                                                 *)
AcceptedIsWhole ==
    answer = "eof" =>
        /\ req.declared >= 0 => Len(got) = req.declared
        /\ req.max > 0 => Len(got) <= req.max
        /\ req.digest \/ c.eof => got = req.body

(* A body that is cut is accepted only if the cut falls inside a frame and   *)
(* the client declared less than its frames hold.  A chunked one without its *)
(* closing frame, or without its trailers, is refused even if all its data   *)
(* have arrived.                                                             *)
CutIsNoticed ==
    answer = "eof" /\ how = "cut" => c.left > 0 /\ req.declared < Len(req.body)

(* A body that arrived as it was sent, within the limits and of the declared *)
(* length, is not refused, however the network cut it into pieces.           *)
RefusedForCause ==
    answer \in Errors =>
        \/ how # "whole" \/ ~ req.fits
        \/ req.declared # Len(req.body) /\ (req.framed \/ req.declared >= 0)
        \/ req.max > 0 /\ Len(req.body) > req.max

(* The verdict stands: whoever reads on after the end or after an error gets *)
(* the same answer, and no more data.                                        *)
VerdictStands ==
    [][answer \notin {"unopened", "more"} => answer' = answer /\ got' = got]_body
===============================================================================
