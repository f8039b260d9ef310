-------------------------- MODULE ShimClientProof ---------------------------
(***************************************************************************)
(* ShimClient, proved.  The four properties ask whether what the shim       *)
(* believes of its call is what the proxy did with it, while the answer is  *)
(* on its way in pieces.  IInv follows an answer through the wire and the   *)
(* buffer: what is written there is true (Truthful), an exit code that was  *)
(* answered is still ahead of its reader (Awaited), and the two connections *)
(* are used one after the other (Transport).  Texts are looked at only as   *)
(* the sets of their tokens and by their last one, so that the lemmas about *)
(* sequences come first and no step takes more of them than these.          *)
(***************************************************************************)
EXTENDS ShimClient, SequenceTheorems, WellFoundedInduction, TLAPS

(* A set of numbers that is not empty has a least element.                  *)
LEMMA LeastIsMember ==
  ASSUME NEW S \in SUBSET Nat, S # {}
  PROVE  Min(S) \in S
<1> DEFINE less == OpToRel(<, Nat)
<1>1. \A x, y \in Nat : <<x, y>> \in less <=> x < y
  BY DEF OpToRel
<1>2. IsWellFoundedOn(less, Nat)
  BY NatLessThanWellFounded
<1> HIDE DEF less
<1>3. PICK x \in S : \A y \in S : ~(<<y, x>> \in less)
  BY <1>2, WFMin
<1>4. ASSUME NEW y \in S PROVE x <= y
  <2>1. x \in Nat /\ y \in Nat
    OBVIOUS
  <2>2. ~(y < x)
    BY <1>1, <1>3, <2>1
  <2>3. QED
    BY <2>1, <2>2
<1>5. QED
  BY <1>4 DEF Min

(* Where the headers of an answer are over, or 0.                           *)
HeadersEnd(text) == SelectInSeq(text, LAMBDA t : t \in {"plain", "prelude"})

(* It is the place of a token that ends the headers, if there is one.        *)
LEMMA HeadersEndFound ==
  ASSUME NEW text \in Seq(Token)
  PROVE  /\ HeadersEnd(text) \in 0..Len(text)
         /\ HeadersEnd(text) = 0 => \A i \in 1..Len(text) : text[i] \notin {"plain", "prelude"}
         /\ HeadersEnd(text) # 0 => text[HeadersEnd(text)] \in {"plain", "prelude"}
<1> DEFINE I == {i \in 1..Len(text) : text[i] \in {"plain", "prelude"}}
<1>1. HeadersEnd(text) = IF I # {} THEN Min(I) ELSE 0
  BY DEF HeadersEnd, SelectInSeq
<1>2. Len(text) \in Nat /\ I \in SUBSET Nat
  BY LenProperties
<1>3. I # {} => Min(I) \in I
  BY <1>2, LeastIsMember
<1>4. QED
  BY <1>1, <1>2, <1>3

(* Texts that are put together, or taken apart: what they consist of, and   *)
(* what they end with.  First the tokens of a text.                         *)
LEMMA RangeIs ==
  ASSUME NEW S, NEW s \in Seq(S)
  PROVE  Range(s) = {s[i] : i \in 1..Len(s)} /\ Len(s) \in Nat
  BY LenProperties DEF Range

(* A text and another behind it.                                            *)
LEMMA Joined ==
  ASSUME NEW S, NEW s \in Seq(S), NEW t \in Seq(S)
  PROVE  /\ s \o t \in Seq(S)
         /\ Range(s \o t) = Range(s) \cup Range(t)
         /\ t # <<>> => s \o t # <<>> /\ (s \o t)[Len(s \o t)] = t[Len(t)]
<1>1. /\ s \o t \in Seq(S) /\ Len(s \o t) = Len(s) + Len(t)
      /\ \A i \in 1..Len(s) + Len(t) : (s \o t)[i] = IF i <= Len(s) THEN s[i] ELSE t[i - Len(s)]
  BY ConcatProperties
<1>2. /\ Range(s) = {s[i] : i \in 1..Len(s)} /\ Len(s) \in Nat
      /\ Range(t) = {t[i] : i \in 1..Len(t)} /\ Len(t) \in Nat
      /\ Range(s \o t) = {(s \o t)[i] : i \in 1..Len(s \o t)}
  BY <1>1, RangeIs
<1>3. ASSUME NEW i \in 1..Len(s) PROVE i \in 1..Len(s \o t) /\ (s \o t)[i] = s[i]
  BY <1>1, <1>2
<1>4. ASSUME NEW i \in 1..Len(t)
      PROVE  Len(s) + i \in 1..Len(s \o t) /\ (s \o t)[Len(s) + i] = t[i]
  BY <1>1, <1>2
<1>5. ASSUME NEW i \in 1..Len(s \o t)
      PROVE  (i \in 1..Len(s) /\ (s \o t)[i] = s[i])
               \/ (i - Len(s) \in 1..Len(t) /\ (s \o t)[i] = t[i - Len(s)])
  BY <1>1, <1>2
<1>6. Range(s \o t) = Range(s) \cup Range(t)
  <2>1. Range(s) \cup Range(t) \subseteq Range(s \o t)
    BY <1>2, <1>3, <1>4
  <2>2. Range(s \o t) \subseteq Range(s) \cup Range(t)
    BY <1>2, <1>5
  <2>3. QED
    BY <2>1, <2>2
<1>7. ASSUME t # <<>> PROVE s \o t # <<>> /\ (s \o t)[Len(s \o t)] = t[Len(t)]
  <2>1. Len(t) \in Nat \ {0}
    BY <1>7, EmptySeq
  <2>2. Len(s \o t) # 0
    BY <1>1, <1>2, <2>1
  <2>3. s \o t # <<>>
    BY <2>2, EmptySeq
  <2>4. (s \o t)[Len(s) + Len(t)] = t[Len(t)]
    BY <1>4, <2>1
  <2>5. QED
    BY <1>1, <2>3, <2>4
<1>8. QED
  BY <1>1, <1>6, <1>7

(* A text in two parts.                                                     *)
LEMMA SplitAt ==
  ASSUME NEW S, NEW s \in Seq(S), NEW n \in 0..Len(s)
  PROVE  /\ SubSeq(s, 1, n) \in Seq(S) /\ SubSeq(s, n + 1, Len(s)) \in Seq(S)
         /\ Range(s) = Range(SubSeq(s, 1, n)) \cup Range(SubSeq(s, n + 1, Len(s)))
         /\ n # Len(s) => /\ SubSeq(s, n + 1, Len(s)) # <<>>
                          /\ SubSeq(s, n + 1, Len(s))[Len(SubSeq(s, n + 1, Len(s)))] = s[Len(s)]
<1> DEFINE a == SubSeq(s, 1, n)
           z == SubSeq(s, n + 1, Len(s))
<1>1. Len(s) \in Nat /\ n \in Nat
  BY LenProperties
<1>2. /\ a \in Seq(S) /\ Len(a) = n /\ \A i \in 1..n : a[i] = s[i]
  BY <1>1, SubSeqProperties, ElementOfSeq
<1>3. /\ z \in Seq(S) /\ Len(z) = Len(s) - n /\ \A i \in 1..Len(s) - n : z[i] = s[n + i]
  BY <1>1, SubSeqProperties, ElementOfSeq
<1> HIDE DEF a, z
<1>4. /\ Range(s) = {s[i] : i \in 1..Len(s)} /\ Range(a) = {a[i] : i \in 1..n}
      /\ Range(z) = {z[i] : i \in 1..Len(s) - n}
  <2>1. Range(s) = {s[i] : i \in 1..Len(s)}
    BY RangeIs
  <2>2. Range(a) = {a[i] : i \in 1..Len(a)}
    BY <1>2, RangeIs
  <2>3. Range(z) = {z[i] : i \in 1..Len(z)}
    BY <1>3, RangeIs
  <2>4. QED
    BY <1>2, <1>3, <2>1, <2>2, <2>3
<1>5. Range(s) \subseteq Range(a) \cup Range(z)
  <2>1. ASSUME NEW i \in 1..Len(s) PROVE s[i] \in Range(a) \cup Range(z)
    <3>1. CASE i <= n
      BY <1>1, <1>2, <1>4, <3>1
    <3>2. CASE i > n
      <4>1. i - n \in 1..Len(s) - n /\ n + (i - n) = i
        BY <1>1, <3>2
      <4>2. z[i - n] = s[i]
        BY <1>3, <4>1
      <4>3. QED
        BY <1>4, <4>1, <4>2
    <3>3. QED
      BY <1>1, <3>1, <3>2
  <2>2. QED
    BY <1>4, <2>1
<1>6. Range(a) \cup Range(z) \subseteq Range(s)
  <2>1. \A i \in 1..n : i \in 1..Len(s)
    BY <1>1
  <2>2. \A i \in 1..Len(s) - n : n + i \in 1..Len(s)
    BY <1>1
  <2>3. QED
    BY <1>2, <1>3, <1>4, <2>1, <2>2
<1>7. n # Len(s) => z # <<>> /\ z[Len(z)] = s[Len(s)]
  BY <1>1, <1>3, EmptySeq
<1>8. QED
  BY <1>2, <1>3, <1>5, <1>6, <1>7 DEF a, z

(* A text without its beginning.                                            *)
LEMMA CutOff ==
  ASSUME NEW S, NEW s \in Seq(S), NEW n \in 0..Len(s)
  PROVE  /\ SubSeq(s, n + 1, Len(s)) \in Seq(S)
         /\ Range(SubSeq(s, n + 1, Len(s))) \subseteq Range(s)
         /\ n # Len(s) => /\ SubSeq(s, n + 1, Len(s)) # <<>>
                          /\ SubSeq(s, n + 1, Len(s))[Len(SubSeq(s, n + 1, Len(s)))] = s[Len(s)]
<1> DEFINE a == SubSeq(s, 1, n)
           z == SubSeq(s, n + 1, Len(s))
<1>1. /\ z \in Seq(S) /\ Range(s) = Range(a) \cup Range(z)
      /\ n # Len(s) => z # <<>> /\ z[Len(z)] = s[Len(s)]
  BY SplitAt
<1> HIDE DEF a, z
<1>2. z \in Seq(S) /\ Range(z) \subseteq Range(s) /\ (n # Len(s) => z # <<>> /\ z[Len(z)] = s[Len(s)])
  BY <1>1
<1>3. QED
  BY <1>2 DEF z

(* A text without its first token.                                          *)
LEMMA TakenOff ==
  ASSUME NEW S, NEW s \in Seq(S), s # <<>>
  PROVE  /\ Head(s) \in S /\ Tail(s) \in Seq(S)
         /\ Range(s) = {Head(s)} \cup Range(Tail(s))
<1>1. Head(s) \in S /\ Tail(s) \in Seq(S)
  BY HeadTailProperties
<1>2. Len(s) \in Nat \ {0} /\ 1 \in 0..Len(s)
  BY EmptySeq
<1>3. Range(s) = Range(SubSeq(s, 1, 1)) \cup Range(SubSeq(s, 2, Len(s)))
  <2>1. Range(s) = Range(SubSeq(s, 1, 1)) \cup Range(SubSeq(s, 1 + 1, Len(s)))
    BY <1>2, SplitAt
  <2>2. QED
    BY <2>1
<1>4. Tail(s) = SubSeq(s, 2, Len(s))
  BY TailIsSubSeq
<1>5. Range(SubSeq(s, 1, 1)) = {Head(s)}
  <2>1. SubSeq(s, 1, 1) \in Seq(S) /\ Len(SubSeq(s, 1, 1)) = 1 /\ SubSeq(s, 1, 1)[1] = s[1]
    BY <1>2, SubSeqProperties, ElementOfSeq
  <2>2. Head(s) = s[1]
    BY <1>2
  <2>3. Range(SubSeq(s, 1, 1)) = {SubSeq(s, 1, 1)[i] : i \in 1..1}
    BY <2>1, RangeIs
  <2>4. QED
    BY <2>1, <2>2, <2>3
<1>6. QED
  BY <1>1, <1>3, <1>4, <1>5

-----------------------------------------------------------------------------
(* The proxy writes, answers and closes only what was posted; it concludes  *)
(* a call by closing its connection; and the group file names a tool.       *)
Concluded ==
  /\ \A c \in Conn \ posted : /\ tool[c] = "none" /\ reply[c] = "none"
                              /\ wire[c] = <<>> /\ printed[c] = 0
                              /\ c \notin closed
  /\ \A c \in Conn : reply[c] # "none" => c \in closed
  /\ group # None => tool[group] # "none"

(* What a text that the proxy wrote says of its answer is true.             *)
Told(c, text) ==
  \A t \in Range(text) : /\ t \in Codes => reply[c] = t
                         /\ t = "plain" => reply[c] = "refused"
                         /\ t = "timeout" => reply[c] = "124"

Truthful ==
  /\ \A c \in Conn : Told(c, wire[c])
  /\ Told("native", buf)
  /\ header \in Codes => reply["curl"] = header

(* The connections are used one after the other, and the second after the   *)
(* first only when the output has broken.                                   *)
Transport ==
  /\ pc = "start" => posted = {} /\ ~marker
  /\ pc \in {"head", "lines", "drain"} => "native" \in posted
  /\ pc \in {"start", "head", "lines", "drain", "spawn"} => curl = "no"
  /\ curl = "no" => "curl" \notin posted /\ header = None
  /\ stdout = "open" /\ (pc = "spawn" \/ curl # "no") => "native" \notin posted

CodeIsLast(c) == wire[c] # <<>> /\ wire[c][Len(wire[c])] = reply[c]

(* An exit code that was answered is still to be read, or was read, and a   *)
(* curl that is over has it, or there is none.                              *)
Awaited ==
  /\ pc = "head" /\ reply["native"] \in Codes =>
       CodeIsLast("native") /\ "prelude" \in Range(wire["native"])
  /\ pc = "head" /\ printed["native"] > 0 => "prelude" \in Range(wire["native"])
  /\ pc = "lines" /\ reply["native"] \in Codes =>
       reply["native"] \in Range(buf) \cup Range(wire["native"])
  /\ curl = "running" /\ reply["curl"] = "tool" =>
       header = "tool" \/ "tool" \in Range(wire["curl"])
  /\ pc = "poll" /\ curl = "done" /\ stdout = "open" /\ ints = 0 =>
       /\ "curl" \in posted => "curl" \in closed
       /\ reply["curl"] = "tool" => header = "tool"

NothingToCome ==
  /\ posted \subseteq closed
  /\ reply["native"] \notin Codes /\ reply["curl"] # "tool"

(* What is true of a shim that has decided how it exits.                    *)
Decided ==
  /\ exit # None <=> pc \in {"INT", "TERM", "KILL", "leaving", "exited"}
  /\ pc \in {"INT", "TERM", "KILL"} => exit = "lost"
  /\ exit = "lost" /\ stdout = "open" => NothingToCome \/ (curl = "done" /\ ints > 0)
  /\ pc \in {"leaving", "exited"} /\ marker =>
       exit = "signalled" \/ (exit = "86" /\ curl = "no")

IInv == TypeOK /\ Concluded /\ Truthful /\ Transport /\ Awaited /\ Decided /\ ExitIsReplied

(* It holds at the start.                                                   *)
LEMMA InitIInv == Init => IInv
<1> SUFFICES ASSUME Init PROVE IInv
  OBVIOUS
<1>1. TypeOK
  <2>1. Proxy!TypeOK
    BY DEF Init, Proxy!Init, Proxy!TypeOK, Proxy!Causes
  <2>2. <<>> \in Seq(Token) /\ 0 \in 0..MaxInts /\ 0 \in 0..MaxChunks
    BY ShimAssumption, EmptySeq
  <2>3. QED
    BY <2>1, <2>2 DEF Init, TypeOK
<1>2. Concluded
  BY DEF Init, Concluded, None, Conn, Proxy!Init
<1>3. Range(<<>>) = {}
  BY DEF Range
<1>4. Truthful
  BY <1>3 DEF Init, Truthful, Told, Conn, Codes, None
<1>5. Transport /\ Awaited /\ Decided /\ ExitIsReplied
  BY DEF Init, Transport, Awaited, Decided, ExitIsReplied, None, Conn, Codes
<1>6. QED
  BY <1>1, <1>2, <1>4, <1>5 DEF IInv

-----------------------------------------------------------------------------
(* The steps that neither read nor write anything.                          *)

(* Where nothing was read, written or answered, what there is stays true.   *)
LEMMA AnswersUntouched ==
  ASSUME IInv, UNCHANGED <<call, group, wire, printed, closed, buf, header>>,
         posted \subseteq posted'
  PROVE  Concluded' /\ Truthful'
  BY DEF IInv, Concluded, Truthful, Told, call

(* The shim's quiet steps.                                                  *)
Quiet == \/ RunLocally \/ NotConfigured \/ PostNative \/ NativeUnavailable
         \/ HeadersMissing \/ Drained \/ Trailer \/ StreamEnds
         \/ SpawnFails \/ SpawnCurl \/ CurlEnds \/ CurlAnswered \/ CurlLost \/ Leave
         \/ Interrupt \/ Terminate \/ OutputBreaks

(* The quiet steps preserve the invariant.                                  *)
LEMMA QuietSteps ==
  ASSUME IInv, Quiet
  PROVE  IInv'
<1> USE DEF IInv, pending, process, call, stream
<1>1. UNCHANGED <<call, group, wire, printed, closed, buf, header>> /\ posted \subseteq posted'
  BY DEF Quiet, RunLocally, NotConfigured, PostNative, NativeUnavailable, HeadersMissing, Drained,
         Trailer, StreamEnds, SpawnFails, SpawnCurl, CurlEnds, CurlAnswered, CurlLost, Leave,
         Interrupt, Terminate, OutputBreaks
<1>2. Concluded' /\ Truthful'
  BY <1>1, AnswersUntouched
<1>3. CASE RunLocally \/ NotConfigured
  <2>1. TypeOK'
    BY <1>3 DEF RunLocally, NotConfigured, TypeOK, Proxy!TypeOK
  <2>2. Transport' /\ Awaited' /\ Decided' /\ ExitIsReplied'
    BY <1>3 DEF RunLocally, NotConfigured, Transport, Awaited, Decided, ExitIsReplied, Codes, None,
                CodeIsLast
  <2>3. QED
    BY <1>2, <2>1, <2>2
<1>4. CASE PostNative \/ NativeUnavailable
  <2>1. TypeOK'
    BY <1>4 DEF PostNative, NativeUnavailable, TypeOK, Proxy!TypeOK, Conn
  <2>2. reply["native"] = "none" /\ printed["native"] = 0
    BY <1>4 DEF PostNative, NativeUnavailable, Transport, Concluded, Conn
  <2>3. Transport' /\ Awaited' /\ Decided' /\ ExitIsReplied'
    BY <1>4, <2>2 DEF PostNative, NativeUnavailable, Transport, Awaited, Decided, ExitIsReplied,
                      Codes, None, Conn, CodeIsLast
  <2>4. QED
    BY <1>2, <2>1, <2>3
<1>5. CASE HeadersMissing \/ StreamEnds
  <2>1. TypeOK'
    BY <1>5 DEF HeadersMissing, StreamEnds, Finish, TypeOK, Proxy!TypeOK
  <2>2. Range(<<>>) = {}
    BY DEF Range
  <2>3. reply["native"] \notin Codes
    BY <1>5, <2>2 DEF HeadersMissing, StreamEnds, Over, Awaited
  <2>4. NothingToCome
    <3>1. "native" \in closed /\ "curl" \notin posted
      BY <1>5 DEF HeadersMissing, StreamEnds, Over, Transport
    <3>2. reply["curl"] = "none"
      BY <3>1 DEF Concluded, Conn
    <3>3. QED
      BY <2>3, <3>1, <3>2 DEF NothingToCome, TypeOK, Conn
  <2>5. Transport' /\ Awaited' /\ Decided' /\ ExitIsReplied'
    BY <1>5, <2>4 DEF HeadersMissing, StreamEnds, Finish, Transport, Awaited, Decided,
                      ExitIsReplied, NothingToCome, Codes, None
  <2>6. QED
    BY <1>2, <2>1, <2>5
<1>6. CASE Drained
  <2>1. TypeOK'
    BY <1>6 DEF Drained, Finish, TypeOK, Proxy!TypeOK
  <2>2. Transport' /\ Awaited' /\ Decided' /\ ExitIsReplied'
    BY <1>6 DEF Drained, Finish, Transport, Awaited, Decided, ExitIsReplied, Codes, None
  <2>3. QED
    BY <1>2, <2>1, <2>2
<1>7. CASE Trailer
  <2>1. Head(buf) \in Codes /\ Head(buf) \in Range(buf)
    BY <1>7, TakenOff DEF Trailer, TypeOK
  <2>2. reply["native"] = Head(buf) /\ "curl" \notin posted
    BY <1>7, <2>1 DEF Trailer, Truthful, Told, Transport
  <2>3. TypeOK'
    BY <1>7, <2>1 DEF Trailer, Finish, TypeOK, Proxy!TypeOK
  <2>4. Transport' /\ Awaited' /\ Decided' /\ ExitIsReplied'
    BY <1>7, <2>1, <2>2 DEF Trailer, Finish, Transport, Awaited, Decided, ExitIsReplied, Codes, None
  <2>5. QED
    BY <1>2, <2>3, <2>4
<1>8. CASE SpawnFails \/ SpawnCurl
  <2>1. TypeOK'
    BY <1>8 DEF SpawnFails, SpawnCurl, TypeOK, Proxy!TypeOK, Conn
  <2>2. reply["curl"] = "none"
    BY <1>8 DEF SpawnFails, SpawnCurl, Transport, Concluded, Conn
  <2>3. Transport' /\ Awaited' /\ Decided' /\ ExitIsReplied'
    BY <1>8, <2>2 DEF SpawnFails, SpawnCurl, Transport, Awaited, Decided, ExitIsReplied, Codes, None
  <2>4. QED
    BY <1>2, <2>1, <2>3
<1>9. CASE CurlEnds
  <2>1. TypeOK'
    BY <1>9 DEF CurlEnds, TypeOK, Proxy!TypeOK
  <2>2. Range(<<>>) = {}
    BY DEF Range
  <2>3. Transport' /\ Awaited' /\ Decided' /\ ExitIsReplied'
    BY <1>9, <2>2 DEF CurlEnds, Transport, Awaited, Decided, ExitIsReplied, NothingToCome, Codes,
                      None, TypeOK, CodeIsLast
  <2>4. QED
    BY <1>2, <2>1, <2>3
<1>10. CASE CurlAnswered
  <2>1. TypeOK' /\ header \in Codes \cup {"86"}
    BY <1>10 DEF CurlAnswered, Finish, TypeOK, Proxy!TypeOK
  <2>2. header \in Codes => reply["curl"] = header /\ "curl" \in posted
    BY DEF Truthful, Concluded, Conn, Codes
  <2>3. Transport' /\ Awaited' /\ Decided' /\ ExitIsReplied'
    BY <1>10, <2>1, <2>2 DEF CurlAnswered, Finish, Transport, Awaited, Decided, ExitIsReplied,
                             Codes, None
  <2>4. QED
    BY <1>2, <2>1, <2>3
<1>11. CASE CurlLost
  <2>1. TypeOK'
    BY <1>11 DEF CurlLost, TypeOK, Proxy!TypeOK
  <2>2. stdout = "open" => NothingToCome \/ (curl = "done" /\ ints > 0)
    <3>1. SUFFICES ASSUME stdout = "open", ~(ints > 0) PROVE NothingToCome
      BY <1>11 DEF CurlLost
    <3>2. ints = 0
      BY <3>1 DEF TypeOK
    <3>3. "native" \notin posted /\ reply["native"] = "none"
      BY <1>11, <3>1 DEF CurlLost, Transport, Concluded, Conn
    <3>4. reply["curl"] # "tool" /\ ("curl" \in posted => "curl" \in closed)
      BY <1>11, <3>1, <3>2 DEF CurlLost, Awaited, None
    <3>5. QED
      BY <3>3, <3>4 DEF NothingToCome, Codes, TypeOK, Conn
  <2>3. Transport' /\ Awaited' /\ Decided' /\ ExitIsReplied'
    BY <1>11, <2>2 DEF CurlLost, Transport, Awaited, Decided, ExitIsReplied, NothingToCome, Codes,
                       None
  <2>4. QED
    BY <1>2, <2>1, <2>3
<1>12. CASE Leave
  <2>1. TypeOK'
    BY <1>12 DEF Leave, TypeOK, Proxy!TypeOK
  <2>2. Transport' /\ Awaited' /\ Decided' /\ ExitIsReplied'
    BY <1>12 DEF Leave, Transport, Awaited, Decided, ExitIsReplied, NothingToCome, None
  <2>3. QED
    BY <1>2, <2>1, <2>2
<1>13. CASE Interrupt \/ Terminate \/ OutputBreaks
  <2>1. TypeOK'
    <3>1. Proxy!TypeOK'
      BY <1>13 DEF Interrupt, Terminate, OutputBreaks, TypeOK, Proxy!TypeOK
    <3>2. ints' \in 0..MaxInts /\ term' \in BOOLEAN /\ stdout' \in {"open", "broken"}
      <4>1. \/ ints < MaxInts /\ ints' = ints + 1
            \/ ints' = ints
        BY <1>13 DEF Interrupt, Terminate, OutputBreaks
      <4>2. ints' \in 0..MaxInts
        BY <4>1, ShimAssumption DEF TypeOK
      <4>3. /\ term' = TRUE \/ term' = term
            /\ stdout' = "broken" \/ stdout' = stdout
        BY <1>13 DEF Interrupt, Terminate, OutputBreaks
      <4>4. term' \in BOOLEAN /\ stdout' \in {"open", "broken"}
        BY <4>3 DEF TypeOK
      <4>5. QED
        BY <4>2, <4>4
    <3>3. UNCHANGED <<pc, posted, buf, curl, header, marker, exit, group, signalled, wire,
                      printed, closed>>
      BY <1>13 DEF Interrupt, Terminate, OutputBreaks
    <3>4. QED
      BY <3>1, <3>2, <3>3 DEF TypeOK
  <2>2. /\ UNCHANGED <<pc, posted, process, call, stream>>
        /\ stdout' = "open" => stdout = "open" /\ (ints' = 0 => ints = 0) /\ (ints > 0 => ints' > 0)
    BY <1>13 DEF Interrupt, Terminate, OutputBreaks, TypeOK
  <2>3. Transport' /\ Awaited' /\ Decided' /\ ExitIsReplied'
    BY <2>2 DEF Transport, Awaited, Decided, ExitIsReplied, NothingToCome, None, CodeIsLast
  <2>4. QED
    BY <1>2, <2>1, <2>3
<1>14. QED
  BY <1>3, <1>4, <1>5, <1>6, <1>7, <1>8, <1>9, <1>10, <1>11, <1>12, <1>13 DEF Quiet

-----------------------------------------------------------------------------
(* Signals.                                                                 *)

(* A signal ends a tool or does nothing; it answers nothing.                *)
LEMMA SignalEffect ==
  ASSUME TypeOK, NEW sig, PostSignal(sig)
  PROVE  /\ Proxy!TypeOK' /\ signalled' \in BOOLEAN /\ reply' = reply
         /\ \A c \in Conn : tool[c] = "none" <=> tool'[c] = "none"
<1>1. CASE UNCHANGED call
  BY <1>1 DEF TypeOK, PostSignal, call, Proxy!TypeOK
<1>2. CASE group # None /\ Proxy!End({group}, "signal")
  <2>1. group \in Conn
    BY <1>2 DEF TypeOK
  <2>2. /\ tool[group] = "running" /\ reply' = reply
        /\ tool' = [c \in Conn |-> IF c \in {group} THEN "over" ELSE tool[c]]
        /\ cause' = [c \in Conn |-> IF c \in {group} THEN "signal" ELSE cause[c]]
    BY <1>2 DEF Proxy!End
  <2>3. \A c \in Conn : tool[c] = "none" <=> tool'[c] = "none"
    BY <2>1, <2>2
  <2>4. Proxy!TypeOK'
    BY <2>2 DEF TypeOK, Proxy!TypeOK, Proxy!Causes
  <2>5. QED
    BY <2>2, <2>3, <2>4 DEF TypeOK, PostSignal
<1>3. QED
  BY <1>1, <1>2 DEF PostSignal, call

(* The steps that post a signal preserve the invariant.                     *)
LEMMA SignalSteps ==
  ASSUME IInv, HeadSignalled \/ PollSignalled \/ EscalateOnDisconnect
  PROVE  IInv'
<1> USE DEF IInv, pending, process, stream
<1>1. PICK sig : PostSignal(sig)
  BY DEF HeadSignalled, PollSignalled, EscalateOnDisconnect, PostAndLeave
<1>2. /\ Proxy!TypeOK' /\ signalled' \in BOOLEAN /\ reply' = reply
      /\ \A c \in Conn : tool[c] = "none" <=> tool'[c] = "none"
  BY <1>1, SignalEffect
<1>3. UNCHANGED <<pending, stdout, posted, buf, header, group, stream>>
  BY DEF HeadSignalled, PollSignalled, EscalateOnDisconnect
<1>4. /\ Pending => pending = pending
      /\ \/ pc \in {"head", "poll"} /\ pc' = "leaving" /\ exit' = "signalled"
            /\ marker' = marker
            /\ \/ pc = "head" /\ curl' = curl
               \/ pc = "poll" /\ curl = "running" /\ curl' = "done"
         \/ /\ pc \in {"INT", "TERM", "KILL"} /\ pc' \in {"TERM", "KILL", "leaving"}
            /\ curl' = curl /\ exit' = exit
            /\ pc' = "leaving" => marker' = FALSE
            /\ pc' # "leaving" => marker' = marker
  BY DEF HeadSignalled, PollSignalled, EscalateOnDisconnect, PostAndLeave
<1>5. TypeOK'
  <2>1. marker' \in BOOLEAN
    BY <1>4 DEF TypeOK
  <2>2. QED
    BY <1>2, <1>3, <1>4, <2>1 DEF TypeOK
<1>6. Concluded'
  <2>1. group # None => group \in Conn
    BY DEF TypeOK
  <2>2. QED
    BY <1>2, <1>3, <2>1 DEF Concluded
<1>7. Truthful'
  BY <1>2, <1>3 DEF Truthful, Told
<1>8. Transport'
  BY <1>3, <1>4 DEF Transport
<1>9. Awaited'
  BY <1>2, <1>3, <1>4 DEF Awaited
<1>10. Decided'
  BY <1>2, <1>3, <1>4 DEF Decided, NothingToCome, None
<1>11. ExitIsReplied'
  BY <1>2, <1>3, <1>4 DEF ExitIsReplied, Codes
<1>12. QED
  BY <1>5, <1>6, <1>7, <1>8, <1>9, <1>10, <1>11

-----------------------------------------------------------------------------
(* The native client reads.                                                 *)

(* What is taken off the connection is what it gets; the rest stays there.  *)
LEMMA TakeEffect ==
  ASSUME TypeOK, NEW n \in Arrived, Take(n)
  PROVE  /\ wire' \in [Conn -> Seq(Token)] /\ wire'["curl"] = wire["curl"]
         /\ Got(n) \in Seq(Token)
         /\ Range(wire["native"]) = Range(Got(n)) \cup Range(wire'["native"])
         /\ n # Len(wire["native"]) =>
              /\ wire'["native"] # <<>>
              /\ wire'["native"][Len(wire'["native"])] = wire["native"][Len(wire["native"])]
         /\ n = Len(wire["native"]) => Got(n) = wire["native"] /\ Range(wire'["native"]) = {}
<1> DEFINE w == wire["native"]
<1>1. w \in Seq(Token) /\ n \in 0..Len(w) /\ Len(w) \in Nat /\ n \in 1..Len(w)
  <2>1. w \in Seq(Token)
    BY DEF TypeOK, Conn
  <2>2. QED
    BY <2>1, LenProperties DEF Arrived
<1>2. /\ SubSeq(w, 1, n) \in Seq(Token) /\ SubSeq(w, n + 1, Len(w)) \in Seq(Token)
      /\ Range(w) = Range(SubSeq(w, 1, n)) \cup Range(SubSeq(w, n + 1, Len(w)))
      /\ n # Len(w) => /\ SubSeq(w, n + 1, Len(w)) # <<>>
                       /\ SubSeq(w, n + 1, Len(w))[Len(SubSeq(w, n + 1, Len(w)))] = w[Len(w)]
  BY <1>1, SplitAt
<1>3. wire' = [wire EXCEPT !["native"] = SubSeq(w, n + 1, Len(w))]
  BY DEF Take
<1>4. /\ wire'["native"] = SubSeq(w, n + 1, Len(w)) /\ wire'["curl"] = wire["curl"]
      /\ wire' \in [Conn -> Seq(Token)]
  BY <1>2, <1>3 DEF TypeOK, Conn
<1>5. ASSUME n = Len(w) PROVE Got(n) = w /\ Range(wire'["native"]) = {}
  <2>1. SubSeq(w, n + 1, Len(w)) = <<>>
    BY <1>1, <1>5, SubSeqEmpty
  <2>2. SubSeq(w, 1, n) = w
    BY <1>1, <1>5, SubSeqFull
  <2>3. wire'["native"] = <<>>
    BY <1>4, <2>1
  <2>4. Range(<<>>) = {}
    BY DEF Range
  <2>5. Got(n) = w
    BY <2>2 DEF Got
  <2>6. QED
    BY <2>3, <2>4, <2>5
<1>6. QED
  BY <1>2, <1>4, <1>5 DEF Got

(* Asking, answering and deciding have no part in a read.                   *)
LEMMA ReadUntouched ==
  ASSUME IInv, UNCHANGED <<tool, reply, group, printed, closed, posted>>,
         Range(wire'["native"]) \subseteq Range(wire["native"]),
         Range(buf') \subseteq Range(buf) \cup Range(wire["native"]),
         wire'["curl"] = wire["curl"], header' = header,
         "native" \in posted
  PROVE  Concluded' /\ Truthful'
<1>1. Concluded'
  <2>1. \A c \in Conn \ posted : c = "curl"
    BY DEF Conn
  <2>2. QED
    BY <2>1 DEF IInv, Concluded
<1>2. Told("native", buf)' /\ Told("native", wire["native"])' /\ Told("curl", wire["curl"])'
  BY DEF IInv, Truthful, Told, Conn
<1>3. Truthful'
  BY <1>2 DEF IInv, Truthful, Conn
<1>4. QED
  BY <1>1, <1>3

(* A read of the headers: the code that ends an answer is behind them.      *)
LEMMA HeadReadStep ==
  ASSUME IInv, HeadRead
  PROVE  IInv'
<1> USE DEF IInv, pending, call
<1>0. /\ pc = "head" /\ "native" \in posted /\ curl = "no"
      /\ UNCHANGED <<pending, stdout, posted, curl, header, marker, exit, call, group,
                     signalled, printed, closed>>
  BY DEF HeadRead, Transport
<1>1. PICK n \in Arrived :
        LET text == buf \o Got(n)
            at == HeadersEnd(text)
        IN /\ Take(n)
           /\ buf' = IF at = 0 THEN text ELSE SubSeq(text, at + 1, Len(text))
           /\ pc' = IF at = 0 THEN "head" ELSE IF text[at] = "plain" THEN "drain" ELSE "lines"
  BY DEF HeadRead, HeadersEnd
<1> DEFINE text == buf \o Got(n)
           at == HeadersEnd(text)
           w == wire["native"]
<1>2. /\ wire' \in [Conn -> Seq(Token)] /\ wire'["curl"] = wire["curl"]
      /\ Got(n) \in Seq(Token)
      /\ Range(w) = Range(Got(n)) \cup Range(wire'["native"])
      /\ n # Len(w) => /\ wire'["native"] # <<>>
                       /\ wire'["native"][Len(wire'["native"])] = w[Len(w)]
      /\ n = Len(w) => Got(n) = w /\ Range(wire'["native"]) = {}
  BY <1>1, TakeEffect
<1>3. /\ text \in Seq(Token) /\ Range(text) = Range(buf) \cup Range(Got(n))
      /\ Got(n) # <<>> => text # <<>> /\ text[Len(text)] = Got(n)[Len(Got(n))]
  BY <1>2, Joined DEF TypeOK
<1>4. /\ at \in 0..Len(text) /\ Len(text) \in Nat
      /\ at = 0 => "prelude" \notin Range(text)
      /\ at # 0 => text[at] \in {"plain", "prelude"}
  <2>1. Range(text) = {text[i] : i \in 1..Len(text)} /\ Len(text) \in Nat
    BY <1>3, RangeIs
  <2>2. QED
    BY <1>3, <2>1, HeadersEndFound
<1>5. /\ SubSeq(text, at + 1, Len(text)) \in Seq(Token)
      /\ Range(SubSeq(text, at + 1, Len(text))) \subseteq Range(text)
      /\ at # Len(text) =>
           /\ SubSeq(text, at + 1, Len(text)) # <<>>
           /\ SubSeq(text, at + 1, Len(text))[Len(SubSeq(text, at + 1, Len(text)))] = text[Len(text)]
  <2>1. text \in Seq(Token) /\ at \in 0..Len(text)
    BY <1>3, <1>4
  <2> HIDE DEF text, at
  <2>2. QED
    BY <2>1, CutOff
<1>6. /\ buf' = IF at = 0 THEN text ELSE SubSeq(text, at + 1, Len(text))
      /\ pc' = IF at = 0 THEN "head" ELSE IF text[at] = "plain" THEN "drain" ELSE "lines"
  BY <1>1
<1> HIDE DEF text, at
<1>7. buf' \in Seq(Token) /\ Range(buf') \subseteq Range(text)
  BY <1>3, <1>5, <1>6
<1>8. TypeOK'
  <2>1. Proxy!TypeOK'
    BY <1>0 DEF TypeOK, Proxy!TypeOK
  <2>2. QED
    BY <1>0, <1>2, <1>6, <1>7, <2>1 DEF TypeOK
<1>9. Concluded' /\ Truthful'
  BY <1>0, <1>2, <1>3, <1>7, ReadUntouched
<1>10. Transport'
  BY <1>0, <1>6 DEF Transport
<1>11. Awaited'
  <2>1. ASSUME pc' = "head", "prelude" \in Range(w) PROVE "prelude" \in Range(wire'["native"])
    BY <1>2, <1>3, <1>4, <1>6, <2>1
  <2>2. ASSUME pc' = "head", reply["native"] \in Codes
        PROVE  CodeIsLast("native")' /\ "prelude" \in Range(wire'["native"])
    <3>1. CodeIsLast("native") /\ "prelude" \in Range(wire'["native"])
      BY <1>0, <2>1, <2>2 DEF Awaited
    <3>2. n # Len(w)
      BY <1>2, <3>1
    <3>3. QED
      BY <1>0, <1>2, <3>1, <3>2 DEF CodeIsLast
  <2>3. ASSUME pc' = "lines", reply["native"] \in Codes
        PROVE  reply["native"] \in Range(buf') \cup Range(wire'["native"])
    <3>1. w # <<>> /\ w[Len(w)] = reply["native"]
      BY <1>0, <2>3 DEF Awaited, CodeIsLast
    <3>2. CASE n # Len(w)
      <4>1. wire'["native"] \in Seq(Token) /\ wire'["native"] # <<>>
        BY <1>2, <3>2 DEF Conn
      <4>2. wire'["native"][Len(wire'["native"])] \in Range(wire'["native"])
        <5>1. Len(wire'["native"]) \in 1..Len(wire'["native"])
          BY <4>1, EmptySeq
        <5>2. QED
          BY <4>1, <5>1, RangeIs
      <4>3. QED
        BY <1>2, <3>1, <3>2, <4>2
    <3>3. CASE n = Len(w)
      <4>1. text[Len(text)] = reply["native"]
        BY <1>2, <1>3, <3>1, <3>3
      <4>2. at # 0 /\ text[at] = "prelude"
        BY <1>4, <1>6, <2>3
      <4>3. at # Len(text)
        BY <2>3, <4>1, <4>2 DEF Codes
      <4>4. buf' # <<>> /\ buf'[Len(buf')] = reply["native"]
        BY <1>5, <1>6, <4>1, <4>2, <4>3
      <4>5. buf'[Len(buf')] \in Range(buf')
        <5>1. Len(buf') \in 1..Len(buf')
          BY <1>7, <4>4, EmptySeq
        <5>2. QED
          BY <1>7, <5>1, RangeIs
      <4>6. QED
        BY <4>4, <4>5
    <3>4. QED
      BY <3>2, <3>3
  <2>4. QED
    BY <1>0, <1>2, <1>6, <2>1, <2>2, <2>3 DEF Awaited
<1>12. Decided' /\ ExitIsReplied'
  BY <1>0, <1>6 DEF Decided, ExitIsReplied, None, Codes
<1>13. QED
  BY <1>8, <1>9, <1>10, <1>11, <1>12

(* A read of the body.                                                      *)
LEMMA ReadLineStep ==
  ASSUME IInv, ReadLine
  PROVE  IInv'
<1> USE DEF IInv, pending
<1>0. /\ pc = "lines" /\ "native" \in posted /\ curl = "no" /\ buf = <<>> /\ exit = None
      /\ UNCHANGED <<pending, stdout, posted, curl, header, group, printed, closed>>
  BY DEF ReadLine, Transport, Decided
<1>1. PICK n \in Arrived : Take(n) /\ buf' = Got(n)
  BY DEF ReadLine
<1>2. /\ wire' \in [Conn -> Seq(Token)] /\ wire'["curl"] = wire["curl"]
      /\ buf' \in Seq(Token)
      /\ Range(wire["native"]) = Range(buf') \cup Range(wire'["native"])
  BY <1>1, TakeEffect
<1>3. /\ Proxy!TypeOK' /\ signalled' \in BOOLEAN /\ reply' = reply
      /\ \A c \in Conn : tool[c] = "none" <=> tool'[c] = "none"
  <2>1. CASE UNCHANGED <<call, signalled>>
    BY <2>1 DEF TypeOK, call, Proxy!TypeOK
  <2>2. CASE PostAndLeave
    BY <2>2, SignalEffect DEF PostAndLeave
  <2>3. QED
    BY <2>1, <2>2 DEF ReadLine
<1>4. \/ UNCHANGED <<pc, marker, exit>>
      \/ pc' = "leaving" /\ exit' = "signalled" /\ marker' = FALSE
  BY DEF ReadLine, PostAndLeave
<1>5. TypeOK'
  <2>1. marker' \in BOOLEAN /\ pc' \in {"lines", "leaving"} /\ exit' \in {None, "signalled"}
    BY <1>0, <1>4 DEF TypeOK
  <2>2. QED
    BY <1>0, <1>2, <1>3, <2>1 DEF TypeOK
<1>6. Concluded'
  <2>1. group # None => group \in Conn
    BY DEF TypeOK
  <2>2. \A c \in Conn \ posted : c = "curl"
    BY <1>0 DEF Conn
  <2>3. QED
    BY <1>0, <1>2, <1>3, <2>1, <2>2 DEF Concluded
<1>7. Truthful'
  <2>1. Told("native", buf)' /\ Told("native", wire["native"])' /\ Told("curl", wire["curl"])'
    BY <1>2, <1>3 DEF Truthful, Told, Conn
  <2>2. QED
    BY <1>0, <1>3, <2>1 DEF Truthful, Conn
<1>8. Transport'
  BY <1>0, <1>4 DEF Transport
<1>9. Awaited'
  <2>1. Range(buf) = {}
    BY <1>0 DEF Range
  <2>2. QED
    BY <1>0, <1>2, <1>3, <1>4, <2>1 DEF Awaited
<1>10. Decided' /\ ExitIsReplied'
  BY <1>0, <1>4 DEF Decided, ExitIsReplied, None, Codes
<1>11. QED
  BY <1>5, <1>6, <1>7, <1>8, <1>9, <1>10

(* A chunk is copied; no exit code is lost with it.                         *)
LEMMA CopyChunkStep ==
  ASSUME IInv, CopyChunk
  PROVE  IInv'
<1> USE DEF IInv, pending, stream, call
<1>0. /\ pc = "lines" /\ "native" \in posted /\ curl = "no" /\ buf # <<>> /\ exit = None
      /\ Head(buf) \in {"chunk", "timeout"}
      /\ UNCHANGED <<pending, stdout, posted, curl, header, call, group, signalled, stream>>
  BY DEF CopyChunk, Transport, Decided
<1>1. \/ buf' = Tail(buf) /\ UNCHANGED <<pc, marker, exit>>
      \/ stdout = "broken" /\ pc' = "spawn" /\ buf' = <<>> /\ UNCHANGED <<marker, exit>>
      \/ stdout = "broken" /\ pc' = "exited" /\ exit' = "lost" /\ marker' = FALSE /\ buf' = buf
  BY DEF CopyChunk, Finish
<1>2. /\ Tail(buf) \in Seq(Token) /\ Range(buf) = {Head(buf)} \cup Range(Tail(buf))
      /\ <<>> \in Seq(Token) /\ Range(<<>>) = {}
  <2>1. buf \in Seq(Token)
    BY DEF TypeOK
  <2>2. Range(<<>>) = {}
    BY DEF Range
  <2>3. QED
    BY <1>0, <2>1, <2>2, TakenOff, EmptySeq
<1>3. TypeOK'
  <2>1. Proxy!TypeOK'
    BY <1>0 DEF TypeOK, Proxy!TypeOK
  <2>2. /\ marker' \in BOOLEAN /\ pc' \in {"lines", "spawn", "exited"} /\ exit' \in {None, "lost"}
        /\ buf' \in Seq(Token)
    BY <1>0, <1>1, <1>2 DEF TypeOK
  <2>3. QED
    BY <1>0, <2>1, <2>2 DEF TypeOK
<1>4. Concluded' /\ Truthful'
  BY <1>0, <1>1, <1>2, ReadUntouched
<1>5. Transport'
  BY <1>0, <1>1 DEF Transport
<1>6. Awaited'
  BY <1>0, <1>1, <1>2 DEF Awaited, Codes
<1>7. Decided' /\ ExitIsReplied'
  BY <1>0, <1>1 DEF Decided, ExitIsReplied, None, Codes
<1>8. QED
  BY <1>3, <1>4, <1>5, <1>6, <1>7

-----------------------------------------------------------------------------
(* curl reads.                                                              *)

(* The last token curl reads of an answer is in its header file.            *)
LEMMA CurlReadsStep ==
  ASSUME IInv, CurlReads
  PROVE  IInv'
<1> USE DEF IInv, pending, call
<1> DEFINE w == wire["curl"]
           t == Head(w)
<1>0. /\ curl = "running" /\ w # <<>>
      /\ UNCHANGED <<pc, pending, stdout, posted, buf, marker, exit, call, group, signalled,
                     printed, closed>>
      /\ wire' = [wire EXCEPT !["curl"] = Tail(w)]
      /\ header' = IF t \in Codes THEN t ELSE IF t = "plain" THEN "86" ELSE header
      /\ \/ curl' = curl
         \/ curl' = "done" /\ (t = "timeout" \/ stdout = "broken")
  BY DEF CurlReads
<1>1. /\ t \in Token /\ Tail(w) \in Seq(Token) /\ Range(w) = {t} \cup Range(Tail(w))
  <2>1. w \in Seq(Token)
    BY DEF TypeOK, Conn
  <2>2. QED
    BY <1>0, <2>1, TakenOff
<1>2. /\ wire'["native"] = wire["native"] /\ wire'["curl"] = Tail(w)
      /\ wire' \in [Conn -> Seq(Token)]
  BY <1>0, <1>1 DEF TypeOK, Conn
<1>3. /\ t \in Codes => reply["curl"] = t
      /\ t = "plain" => reply["curl"] = "refused"
      /\ t = "timeout" => reply["curl"] = "124"
  BY <1>1 DEF Truthful, Told, Conn
<1>4. "curl" \in posted
  BY <1>0 DEF Concluded, Conn
<1> HIDE DEF w, t
<1>5. TypeOK'
  <2>1. Proxy!TypeOK'
    BY <1>0 DEF TypeOK, Proxy!TypeOK
  <2>2. header' \in Codes \cup {None, "86"} /\ curl' \in {"running", "done"}
    BY <1>0 DEF TypeOK
  <2>3. QED
    BY <1>0, <1>2, <2>1, <2>2 DEF TypeOK
<1>6. Concluded'
  <2>1. \A c \in Conn \ posted : c = "native"
    BY <1>4 DEF Conn
  <2>2. QED
    BY <1>0, <1>2, <2>1 DEF Concluded
<1>7. Truthful'
  <2>1. Told("native", buf)' /\ Told("native", wire["native"])' /\ Told("curl", wire["curl"])'
    BY <1>0, <1>1, <1>2 DEF Truthful, Told, Conn, w
  <2>2. header' \in Codes => reply["curl"] = header'
    BY <1>0, <1>3 DEF Truthful, Codes
  <2>3. QED
    BY <1>0, <2>1, <2>2 DEF Truthful, Conn
<1>8. Transport'
  BY <1>0 DEF Transport
<1>9. Awaited'
  <2>1. reply["curl"] = "tool" => header' = "tool" \/ "tool" \in Range(wire'["curl"])
    BY <1>0, <1>1, <1>2, <1>3 DEF Awaited, Codes, w
  <2>2. ASSUME curl' = "done", stdout = "open"
        PROVE  reply["curl"] = "124" /\ "curl" \in closed
    BY <1>0, <1>3, <2>2 DEF Concluded, Conn
  <2>3. QED
    BY <1>0, <1>2, <2>1, <2>2 DEF Awaited, CodeIsLast
<1>10. Decided' /\ ExitIsReplied'
  BY <1>0 DEF Decided, ExitIsReplied, NothingToCome, None
<1>11. QED
  BY <1>5, <1>6, <1>7, <1>8, <1>9, <1>10

-----------------------------------------------------------------------------
(* The proxy's steps.                                                       *)

(* A step that adds nothing to the wire and ends no answer with a code.     *)
LEMMA SilenceKeepsIInv ==
  ASSUME IInv, UNCHANGED <<pc, pending, stdout, posted, process, wire, printed>>,
         closed \subseteq closed', closed' \subseteq posted,
         \A c \in Conn : reply'[c] # reply[c] => reply[c] = "none" /\ reply'[c] = "gaveUp",
         \A c \in Conn : reply'[c] # "none" => c \in closed',
         \A c \in Conn : tool[c] # tool'[c] => c \in posted /\ tool'[c] # "none",
         group' \in Conn \cup {None}, group' # None => tool'[group'] # "none",
         signalled' = signalled, Proxy!TypeOK'
  PROVE  IInv'
<1> USE DEF IInv, pending, process
<1>1. TypeOK'
  BY DEF TypeOK
<1>2. Concluded'
  BY DEF Concluded
<1>3. \A c \in Conn : (reply'[c] \in Codes \/ reply[c] \in Codes) => reply'[c] = reply[c]
  BY DEF Codes
<1>4. Truthful'
  <2>1. ASSUME NEW c \in Conn, NEW text, Told(c, text) PROVE Told(c, text)'
    BY <2>1 DEF Told, Codes
  <2>2. QED
    BY <1>3, <2>1 DEF Truthful, Told, Codes, Conn
<1>5. Transport'
  BY DEF Transport
<1>6. Awaited'
  BY <1>3 DEF Awaited, CodeIsLast, Codes, Conn
<1>7. Decided'
  BY <1>3 DEF Decided, NothingToCome, Codes, Conn
<1>8. ExitIsReplied'
  BY <1>3 DEF ExitIsReplied, Conn
<1>9. QED
  BY <1>1, <1>2, <1>4, <1>5, <1>6, <1>7, <1>8

(* The steps that write nothing: a start, an end, giving up and a cut.      *)
LEMMA SilentSteps ==
  ASSUME IInv, NEW c \in Conn, Starts(c) \/ ToolEnds(c) \/ GivesUp(c) \/ Cut(c)
  PROVE  IInv'
<1> USE DEF IInv
<1>0. /\ UNCHANGED <<pc, pending, stdout, posted, process, wire, printed>>
      /\ signalled' = signalled
  BY DEF Starts, ToolEnds, GivesUp, Cut, stream
<1>t. /\ tool \in [Conn -> {"none", "running", "over"}]
      /\ reply \in [Conn -> {"none", "refused", "tool", "124", "gaveUp"}]
      /\ Proxy!TypeOK /\ group \in Conn \cup {None} /\ closed \subseteq posted
  <2>1. closed \subseteq posted
    BY DEF TypeOK, Concluded
  <2>2. QED
    BY <2>1 DEF TypeOK, Proxy!TypeOK
<1>1. CASE Starts(c)
  <2>1. /\ c \in posted /\ tool[c] = "none" /\ reply' = reply /\ cause' = cause
        /\ tool' = [tool EXCEPT ![c] = "running"] /\ group' = c /\ closed' = closed
    BY <1>1 DEF Starts, Open, Proxy!Start, stream
  <2>2. Proxy!TypeOK'
    BY <1>t, <2>1 DEF Proxy!TypeOK
  <2>3. /\ \A d \in Conn : tool[d] # tool'[d] => d \in posted /\ tool'[d] # "none"
        /\ tool'[group'] # "none"
    BY <1>t, <2>1
  <2>4. \A d \in Conn : reply'[d] # "none" => d \in closed'
    BY <2>1 DEF Concluded
  <2>5. QED
    BY <1>0, <1>t, <2>1, <2>2, <2>3, <2>4, SilenceKeepsIInv
<1>2. CASE ToolEnds(c)
  <2>1. PICK why \in {"itself", "watcher", "session"} : Proxy!End({c}, why)
    BY <1>2 DEF ToolEnds
  <2>2. /\ tool[c] = "running" /\ reply' = reply /\ group' = group /\ closed' = closed
        /\ tool' = [d \in Conn |-> IF d \in {c} THEN "over" ELSE tool[d]]
        /\ cause' = [d \in Conn |-> IF d \in {c} THEN why ELSE cause[d]]
    BY <1>2, <2>1 DEF ToolEnds, Proxy!End, stream
  <2>3. Proxy!TypeOK'
    BY <1>t, <2>2 DEF Proxy!TypeOK, Proxy!Causes
  <2>4. c \in posted
    BY <2>2 DEF Concluded
  <2>5. /\ \A d \in Conn : tool[d] # tool'[d] => d \in posted /\ tool'[d] # "none"
        /\ group' # None => tool'[group'] # "none"
    BY <1>t, <2>2, <2>4 DEF Concluded
  <2>6. \A d \in Conn : reply'[d] # "none" => d \in closed'
    BY <2>2 DEF Concluded
  <2>7. QED
    BY <1>0, <1>t, <2>2, <2>3, <2>5, <2>6, SilenceKeepsIInv
<1>3. CASE GivesUp(c)
  <2>1. /\ c \in posted /\ tool[c] # "none" /\ reply[c] = "none"
        /\ reply' = [reply EXCEPT ![c] = "gaveUp"]
        /\ closed' = closed \cup {c} /\ group' = group
    BY <1>3 DEF GivesUp, Open, Proxy!Conclude
  <2>2. \/ UNCHANGED <<tool, cause>>
        \/ /\ group # None
           /\ tool' = [tool EXCEPT ![group] = "over"]
           /\ cause' = [cause EXCEPT ![group] = IF tool[group] = "running"
                                                  THEN "disconnect" ELSE @]
    BY <1>3 DEF GivesUp
  <2>3. Proxy!TypeOK'
    BY <1>t, <2>1, <2>2 DEF Proxy!TypeOK, Proxy!Causes
  <2>4. group # None => group \in posted
    BY <1>t DEF Concluded
  <2>5. /\ \A d \in Conn : tool[d] # tool'[d] => d \in posted /\ tool'[d] # "none"
        /\ group' # None => tool'[group'] # "none"
    BY <1>t, <2>1, <2>2, <2>4 DEF Concluded
  <2>6. /\ \A d \in Conn : reply'[d] # "none" => d \in closed'
        /\ \A d \in Conn : reply'[d] # reply[d] => reply[d] = "none" /\ reply'[d] = "gaveUp"
    BY <1>t, <2>1 DEF Concluded
  <2>7. QED
    BY <1>0, <1>t, <2>1, <2>3, <2>5, <2>6, SilenceKeepsIInv
<1>4. CASE Cut(c)
  <2>1. c \in posted /\ closed' = closed \cup {c} /\ UNCHANGED <<tool, cause, reply, group>>
    BY <1>4 DEF Cut, Open, call
  <2>2. Proxy!TypeOK'
    BY <1>t, <2>1 DEF Proxy!TypeOK
  <2>3. /\ group' # None => tool'[group'] # "none"
        /\ \A d \in Conn : reply'[d] # "none" => d \in closed'
    BY <2>1 DEF Concluded
  <2>4. QED
    BY <1>0, <1>t, <2>1, <2>2, <2>3, SilenceKeepsIInv
<1>5. QED
  BY <1>1, <1>2, <1>3, <1>4

(* Something is written to an open connection; what it says is true.        *)
LEMMA WritingKeepsIInv ==
  ASSUME IInv, NEW c \in Conn, Open(c), NEW tail \in Seq(Token),
         UNCHANGED <<pc, pending, stdout, posted, process, group, signalled, tool, cause>>,
         wire' = [wire EXCEPT ![c] = @ \o tail],
         NEW how, how \in {"none", "refused", "tool", "124"},
         reply' = [reply EXCEPT ![c] = how], reply[c] = "none",
         closed' = IF how = "none" THEN closed ELSE closed \cup {c},
         printed' \in [Conn -> 0..MaxChunks],
         \A d \in Conn \ {c} : printed'[d] = printed[d],
         \A t \in Range(tail) : /\ t \in Codes => how = t
                                /\ t = "plain" => how = "refused"
                                /\ t = "timeout" => how = "124",
         how \in Codes => tail # <<>> /\ tail[Len(tail)] = how,
         how \in Codes => printed[c] > 0 \/ "prelude" \in Range(tail),
         printed'[c] > 0 => printed[c] > 0 \/ "prelude" \in Range(tail)
  PROVE  IInv'
<1> USE DEF IInv, pending, process
<1>1. wire[c] \in Seq(Token) /\ reply \in [Conn -> {"none", "refused", "tool", "124", "gaveUp"}]
  BY DEF TypeOK, Proxy!TypeOK
<1>2. /\ wire' \in [Conn -> Seq(Token)] /\ Range(wire'[c]) = Range(wire[c]) \cup Range(tail)
      /\ tail # <<>> => wire'[c] # <<>> /\ wire'[c][Len(wire'[c])] = tail[Len(tail)]
      /\ \A d \in Conn \ {c} : wire'[d] = wire[d]
  <2>1. /\ wire[c] \o tail \in Seq(Token) /\ Range(wire[c] \o tail) = Range(wire[c]) \cup Range(tail)
        /\ tail # <<>> => /\ wire[c] \o tail # <<>>
                          /\ (wire[c] \o tail)[Len(wire[c] \o tail)] = tail[Len(tail)]
    BY <1>1, Joined
  <2>2. wire'[c] = wire[c] \o tail
    BY DEF TypeOK
  <2>3. QED
    BY <2>1, <2>2 DEF TypeOK
<1>3. c \in posted /\ c \notin closed
  BY DEF Open
<1>4. reply'[c] = how /\ \A d \in Conn \ {c} : reply'[d] = reply[d]
  BY <1>1
<1>5. TypeOK'
  <2>1. Proxy!TypeOK'
    BY DEF TypeOK, Proxy!TypeOK
  <2>2. closed' \subseteq Conn
    BY DEF TypeOK
  <2>3. QED
    BY <1>2, <2>1, <2>2 DEF TypeOK
<1>6. Concluded'
  <2>1. \A d \in Conn \ posted : d # c
    BY <1>3
  <2>2. \A d \in Conn : reply'[d] # "none" => d \in closed'
    BY <1>4 DEF Concluded
  <2>3. QED
    BY <1>2, <1>3, <1>4, <2>1, <2>2 DEF Concluded
<1>7. Truthful'
  <2>1. ASSUME NEW text, Told(c, text)
        PROVE  \A t \in Range(text) : t \notin Codes \cup {"plain", "timeout"}
    BY <2>1 DEF Told, Codes
  <2>2. Told(c, wire[c])' 
    BY <1>2, <1>4, <2>1 DEF Truthful, Told, Codes
  <2>3. \A d \in Conn : Told(d, wire[d])'
    BY <1>2, <1>4, <2>2 DEF Truthful, Told
  <2>4. Told("native", buf)'
    BY <1>4, <2>1 DEF Truthful, Told, Conn, Codes
  <2>5. header' \in Codes => reply'["curl"] = header'
    BY <1>4 DEF Truthful, Conn, Codes
  <2>6. QED
    BY <2>3, <2>4, <2>5 DEF Truthful
<1>8. Transport'
  BY DEF Transport
<1>9. Awaited'
  <2>1. ASSUME pc = "head", reply'["native"] \in Codes
        PROVE  CodeIsLast("native")' /\ "prelude" \in Range(wire'["native"])
    <3>1. CASE c = "native"
      BY <1>2, <1>4, <2>1, <3>1 DEF Awaited, CodeIsLast
    <3>2. CASE c # "native"
      BY <1>2, <1>4, <2>1, <3>2 DEF Awaited, CodeIsLast, Conn
    <3>3. QED
      BY <3>1, <3>2
  <2>2. ASSUME pc = "head", printed'["native"] > 0
        PROVE  "prelude" \in Range(wire'["native"])
    BY <1>2, <2>2 DEF Awaited, Conn
  <2>3. ASSUME how \in Codes PROVE how \in Range(wire'[c])
    <3>1. Len(tail) \in 1..Len(tail)
      BY <2>3, EmptySeq
    <3>2. how \in Range(tail)
      BY <2>3, <3>1, RangeIs
    <3>3. QED
      BY <1>2, <3>2
  <2>4. ASSUME pc = "lines", reply'["native"] \in Codes
        PROVE  reply'["native"] \in Range(buf) \cup Range(wire'["native"])
    BY <1>2, <1>4, <2>3, <2>4 DEF Awaited, Conn
  <2>5. ASSUME curl = "running", reply'["curl"] = "tool"
        PROVE  header = "tool" \/ "tool" \in Range(wire'["curl"])
    BY <1>2, <1>4, <2>3, <2>5 DEF Awaited, Conn, Codes
  <2>6. ASSUME pc = "poll", curl = "done", stdout = "open", ints = 0
        PROVE  /\ "curl" \in posted => "curl" \in closed'
               /\ reply'["curl"] = "tool" => header = "tool"
    BY <1>3, <1>4, <2>6 DEF Awaited, Conn
  <2>7. QED
    BY <2>1, <2>2, <2>4, <2>5, <2>6 DEF Awaited
<1>10. Decided'
  <2>1. NothingToCome => c \in closed
    BY <1>3 DEF NothingToCome
  <2>2. ~NothingToCome
    BY <1>3, <2>1
  <2>3. QED
    BY <2>2 DEF Decided
<1>11. ExitIsReplied'
  <2>1. exit \in Codes => reply[IF "curl" \in posted THEN "curl" ELSE "native"] # "none"
    BY DEF ExitIsReplied, Codes
  <2>2. QED
    BY <1>4, <2>1 DEF ExitIsReplied, Conn
<1>12. QED
  BY <1>5, <1>6, <1>7, <1>8, <1>9, <1>10, <1>11

(* What tokens a refusal, a chunk and the end of an answer consist of.      *)
LEMMA Texts ==
  /\ <<>> \in Seq(Token) /\ Range(<<>>) = {}
  /\ <<"plain">> \in Seq(Token) /\ Range(<<"plain">>) = {"plain"}
  /\ <<"chunk">> \in Seq(Token) /\ Range(<<"chunk">>) = {"chunk"}
  /\ <<"prelude">> \in Seq(Token) /\ Range(<<"prelude">>) = {"prelude"}
  /\ <<"timeout">> \in Seq(Token) /\ Range(<<"timeout">>) = {"timeout"}
  /\ <<"prelude", "chunk">> \in Seq(Token) /\ Range(<<"prelude", "chunk">>) = {"prelude", "chunk"}
  /\ \A code \in Codes : /\ <<code>> \in Seq(Token) /\ Range(<<code>>) = {code}
                         /\ <<code>> # <<>> /\ <<code>>[Len(<<code>>)] = code
  /\ \A code \in Codes : /\ <<"timeout", code>> \in Seq(Token)
                         /\ Range(<<"timeout", code>>) = {"timeout", code}
                         /\ <<"timeout", code>> # <<>>
                         /\ <<"timeout", code>>[Len(<<"timeout", code>>)] = code
<1>1. \A x : DOMAIN <<x>> = {1} /\ <<x>>[1] = x /\ Len(<<x>>) = 1
  OBVIOUS
<1>2. \A x, y : DOMAIN <<x, y>> = {1, 2} /\ <<x, y>>[1] = x /\ <<x, y>>[2] = y /\ Len(<<x, y>>) = 2
  OBVIOUS
<1>3. \A x : Range(<<x>>) = {x}
  BY <1>1 DEF Range
<1>4. \A x, y : Range(<<x, y>>) = {x, y}
  BY <1>2 DEF Range
<1>5. Range(<<>>) = {}
  BY DEF Range
<1>6. /\ \A x \in Token : <<x>> \in Seq(Token)
      /\ \A x, y \in Token : <<x, y>> \in Seq(Token)
      /\ <<>> \in Seq(Token)
  OBVIOUS
<1>7. Codes \subseteq Token /\ {"plain", "chunk", "prelude", "timeout"} \subseteq Token
  BY DEF Token
<1>8. \A x, y : <<x>> # <<>> /\ <<x, y>> # <<>>
  OBVIOUS
<1>9. QED
  BY <1>1, <1>2, <1>3, <1>4, <1>5, <1>6, <1>7, <1>8

(* The end of an answer is its exit code, and has a prelude when there was  *)
(* none.                                                                    *)
LEMMA TailsEnd ==
  ASSUME NEW c \in Conn, NEW code \in Codes, NEW tail \in Tails(c, code),
         printed[c] \in Nat
  PROVE  /\ tail \in Seq(Token) /\ Range(tail) \subseteq {"prelude", "timeout", code}
         /\ "timeout" \in Range(tail) => code = "124"
         /\ tail # <<>> /\ tail[Len(tail)] = code
         /\ printed[c] > 0 \/ "prelude" \in Range(tail)
<1> DEFINE prelude == IF HasPrelude(c) THEN <<>> ELSE <<"prelude">>
<1>1. /\ prelude \in Seq(Token) /\ Range(prelude) \subseteq {"prelude"}
      /\ printed[c] > 0 \/ Range(prelude) = {"prelude"}
  BY Texts DEF HasPrelude
<1>2. \/ code = "tool" /\ tail = prelude \o <<code>>
      \/ code = "124" /\ tail = prelude \o <<"timeout", code>>
      \/ code = "124" /\ tail = <<"timeout">> \o prelude \o <<code>>
  BY DEF Tails, Codes
<1> HIDE DEF prelude
<1> DEFINE last == <<code>>
           both == <<"timeout", code>>
           late == <<"timeout">>
<1>3. /\ last \in Seq(Token) /\ Range(last) = {code} /\ last # <<>> /\ last[Len(last)] = code
      /\ both \in Seq(Token) /\ Range(both) = {"timeout", code}
      /\ both # <<>> /\ both[Len(both)] = code
      /\ late \in Seq(Token) /\ Range(late) = {"timeout"}
  BY Texts
<1>4. \/ code = "tool" /\ tail = prelude \o last
      \/ code = "124" /\ tail = prelude \o both
      \/ code = "124" /\ tail = late \o prelude \o last
  BY <1>2
<1> HIDE DEF last, both, late
<1>5. CASE code = "tool" /\ tail = prelude \o last
  <2>1. /\ tail \in Seq(Token) /\ Range(tail) = Range(prelude) \cup Range(last)
        /\ tail # <<>> /\ tail[Len(tail)] = last[Len(last)]
    BY <1>1, <1>3, <1>5, Joined
  <2>2. QED
    BY <1>1, <1>3, <1>5, <2>1
<1>6. CASE code = "124" /\ tail = prelude \o both
  <2>1. /\ tail \in Seq(Token) /\ Range(tail) = Range(prelude) \cup Range(both)
        /\ tail # <<>> /\ tail[Len(tail)] = both[Len(both)]
    BY <1>1, <1>3, <1>6, Joined
  <2>2. QED
    BY <1>1, <1>3, <1>6, <2>1
<1>7. CASE code = "124" /\ tail = late \o prelude \o last
  <2> DEFINE first == late \o prelude
  <2>1. first \in Seq(Token) /\ Range(first) = Range(late) \cup Range(prelude)
    BY <1>1, <1>3, Joined
  <2>2. tail = first \o last
    BY <1>7
  <2> HIDE DEF first
  <2>3. /\ tail \in Seq(Token) /\ Range(tail) = Range(first) \cup Range(last)
        /\ tail # <<>> /\ tail[Len(tail)] = last[Len(last)]
    BY <1>3, <2>1, <2>2, Joined
  <2>4. QED
    BY <1>1, <1>3, <1>7, <2>1, <2>3
<1>8. QED
  BY <1>4, <1>5, <1>6, <1>7

(* The steps that write: a refusal, a chunk and an answer.                  *)
LEMMA WritingSteps ==
  ASSUME IInv, NEW c \in Conn, Refuses(c) \/ Prints(c) \/ Answers(c)
  PROVE  IInv'
<1>t. /\ printed \in [Conn -> 0..MaxChunks] /\ MaxChunks \in Nat
      /\ wire \in [Conn -> Seq(Token)] /\ wire[c] \in Seq(Token)
      /\ reply \in [Conn -> {"none", "refused", "tool", "124", "gaveUp"}]
  BY ShimAssumption DEF IInv, TypeOK, Proxy!TypeOK
<1>1. CASE Refuses(c)
  <2>1. /\ Open(c) /\ reply[c] = "none" /\ reply' = [reply EXCEPT ![c] = "refused"]
        /\ closed' = closed \cup {c} /\ printed' = printed
        /\ UNCHANGED <<pc, pending, stdout, posted, process, group, signalled, tool, cause>>
    BY <1>1 DEF Refuses, Proxy!Refuse, Proxy!Conclude
  <2>2. PICK tail \in {<<>>, <<"plain">>} : wire' = [wire EXCEPT ![c] = @ \o tail]
    <3>1. CASE wire' = [wire EXCEPT ![c] = @ \o <<"plain">>]
      BY <3>1
    <3>2. CASE wire' = wire
      <4>1. wire[c] \o <<>> = wire[c]
        BY <1>t, ConcatEmptySeq
      <4>2. wire' = [wire EXCEPT ![c] = @ \o <<>>]
        BY <1>t, <3>2, <4>1
      <4>3. QED
        BY <4>2
    <3>3. QED
      BY <1>1, <3>1, <3>2 DEF Refuses
  <2>3. tail \in Seq(Token) /\ Range(tail) \subseteq {"plain"}
    BY <2>2, Texts
  <2>4. "refused" \notin Codes /\ "plain" \notin Codes
    BY DEF Codes
  <2>5. printed'[c] > 0 => printed[c] > 0
    BY <2>1
  <2>6. QED
    BY <1>t, <2>1, <2>2, <2>3, <2>4, <2>5, WritingKeepsIInv
<1>2. CASE Prints(c)
  <2>1. /\ Open(c) /\ tool[c] = "running" /\ printed[c] < MaxChunks
        /\ printed' = [printed EXCEPT ![c] = @ + 1]
        /\ wire' = [wire EXCEPT ![c] = @ \o IF HasPrelude(c) THEN <<"chunk">>
                                            ELSE <<"prelude", "chunk">>]
        /\ UNCHANGED <<pc, pending, stdout, posted, process, call, group, signalled, closed>>
    BY <1>2 DEF Prints
  <2> DEFINE tail == IF HasPrelude(c) THEN <<"chunk">> ELSE <<"prelude", "chunk">>
  <2>2. /\ tail \in Seq(Token) /\ Range(tail) \subseteq {"prelude", "chunk"}
        /\ printed[c] > 0 \/ "prelude" \in Range(tail)
    BY Texts DEF HasPrelude
  <2>3. wire' = [wire EXCEPT ![c] = @ \o tail]
    BY <2>1
  <2> HIDE DEF tail
  <2>4. reply[c] = "none" /\ reply' = [reply EXCEPT ![c] = "none"] /\ UNCHANGED <<tool, cause>>
    <3>1. reply[c] = "none"
      BY <2>1 DEF IInv, Concluded, Open
    <3>2. QED
      BY <1>t, <2>1, <3>1 DEF call
  <2>5. /\ printed' \in [Conn -> 0..MaxChunks]
        /\ \A d \in Conn \ {c} : printed'[d] = printed[d]
    BY <1>t, <2>1
  <2>6. /\ "none" \notin Codes /\ closed' = closed
        /\ \A t \in Range(tail) : t \notin Codes /\ t # "plain" /\ t # "timeout"
    BY <2>1, <2>2 DEF Codes
  <2>7. UNCHANGED <<pc, pending, stdout, posted, process, group, signalled, tool, cause>>
    BY <2>1, <2>4
  <2>8. QED
    BY <2>1, <2>2, <2>3, <2>4, <2>5, <2>6, <2>7, WritingKeepsIInv
<1>3. CASE Answers(c)
  <2>1. /\ Open(c) /\ reply[c] = "none" /\ closed' = closed \cup {c} /\ printed' = printed
        /\ UNCHANGED <<pc, pending, stdout, posted, process, group, signalled, tool, cause>>
    BY <1>3 DEF Answers, Proxy!Answer, Proxy!Conclude
  <2>2. PICK code \in Codes : reply' = [reply EXCEPT ![c] = code]
    BY <1>3 DEF Answers, Proxy!Answer, Proxy!Conclude, Codes
  <2>3. reply'[c] = code
    BY <1>t, <2>2
  <2>4. PICK tail \in Tails(c, code) : wire' = [wire EXCEPT ![c] = @ \o tail]
    BY <1>3, <2>3 DEF Answers
  <2>5. /\ tail \in Seq(Token) /\ Range(tail) \subseteq {"prelude", "timeout", code}
        /\ "timeout" \in Range(tail) => code = "124"
        /\ tail # <<>> /\ tail[Len(tail)] = code
        /\ printed[c] > 0 \/ "prelude" \in Range(tail)
    <3>1. printed[c] \in Nat
      BY <1>t
    <3>2. QED
      BY <2>4, <3>1, TailsEnd
  <2>6. /\ code \in {"none", "refused", "tool", "124"} /\ code # "none"
        /\ \A t \in Range(tail) : /\ t \in Codes => code = t
                                  /\ t = "plain" => code = "refused"
                                  /\ t = "timeout" => code = "124"
    BY <2>5 DEF Codes
  <2>7. QED
    BY <1>t, <2>1, <2>2, <2>4, <2>5, <2>6, WritingKeepsIInv
<1>4. QED
  BY <1>1, <1>2, <1>3

-----------------------------------------------------------------------------
(* A step of somebody else.                                                 *)
LEMMA StutterKeepsIInv ==
  ASSUME IInv, UNCHANGED vars
  PROVE  IInv'
<1>1. UNCHANGED <<pc, pending, stdout, posted, process, call, group, signalled, wire, printed, closed>>
  BY DEF vars, stream
<1>2. UNCHANGED <<ints, term, buf, curl, header, marker, exit, tool, cause, reply>>
  BY <1>1 DEF pending, process, call
<1>3. TypeOK'
  BY <1>1, <1>2 DEF IInv, TypeOK, Proxy!TypeOK
<1>4. Concluded' /\ Truthful' /\ Transport' /\ Awaited' /\ Decided' /\ ExitIsReplied'
  BY <1>1, <1>2 DEF IInv, Concluded, Truthful, Told, Transport, Awaited, CodeIsLast, Decided,
                    NothingToCome, ExitIsReplied
<1>5. QED
  BY <1>3, <1>4 DEF IInv

(* Every step preserves the invariant.                                      *)
LEMMA NextKeepsIInv == IInv /\ [Next]_vars => IInv'
<1> SUFFICES ASSUME IInv, [Next]_vars PROVE IInv'
  OBVIOUS
<1>1. CASE UNCHANGED vars
  BY <1>1, StutterKeepsIInv
<1>2. CASE Quiet
  BY <1>2, QuietSteps
<1>3. CASE HeadSignalled \/ PollSignalled \/ EscalateOnDisconnect
  BY <1>3, SignalSteps
<1>4. CASE HeadRead
  BY <1>4, HeadReadStep
<1>5. CASE ReadLine
  BY <1>5, ReadLineStep
<1>6. CASE CopyChunk
  BY <1>6, CopyChunkStep
<1>7. CASE CurlReads
  BY <1>7, CurlReadsStep
<1>8. CASE \E c \in Conn : Serve(c)
  BY <1>8, SilentSteps, WritingSteps DEF Serve
<1>9. QED
  BY <1>1, <1>2, <1>3, <1>4, <1>5, <1>6, <1>7, <1>8 DEF Next, Shim, Native, Curl, Quiet

(* The invariant is one.                                                    *)
THEOREM Invariance == Spec => []IInv
<1>1. Init => IInv
  BY InitIInv
<1>2. QED
  BY <1>1, NextKeepsIInv, PTL DEF Spec

(* The properties follow from the invariant.                                *)
LEMMA IInvImpliesProperties ==
  ASSUME IInv
  PROVE  /\ TypeOK /\ RunTwiceOnlyOnBrokenOutput /\ LostOnlyWithoutAnswer
         /\ ExitIsReplied /\ MarkersCleared
<1> USE DEF IInv
<1>1. RunTwiceOnlyOnBrokenOutput
  <2>1. SUFFICES ASSUME \A c \in Conn : tool[c] # "none" PROVE stdout = "broken"
    BY DEF RunTwiceOnlyOnBrokenOutput
  <2>2. "native" \in posted /\ "curl" \in posted
    BY <2>1 DEF Concluded, Conn
  <2>3. stdout # "open"
    BY <2>2 DEF Transport
  <2>4. QED
    BY <2>3 DEF TypeOK
<1>2. LostOnlyWithoutAnswer
  BY DEF Decided, NothingToCome, LostOnlyWithoutAnswer
<1>3. MarkersCleared
  BY DEF Decided, MarkersCleared
<1>4. QED
  BY <1>1, <1>2, <1>3

(* The shim's state is of its type.                                         *)
THEOREM TypeCorrect == Spec => []TypeOK
  BY Invariance, IInvImpliesProperties, PTL

(* A call that is posted twice runs its tool twice only behind an output    *)
(* that has broken.                                                         *)
THEOREM RunsOnce == Spec => []RunTwiceOnlyOnBrokenOutput
  BY Invariance, IInvImpliesProperties, PTL

(* An exit code that the proxy has sent is not replaced by "lost".          *)
THEOREM AnswersArrive == Spec => []LostOnlyWithoutAnswer
  BY Invariance, IInvImpliesProperties, PTL

(* The exit code is one that the proxy decided on, for the last post.       *)
THEOREM ExitTrue == Spec => []ExitIsReplied
  BY Invariance, IInvImpliesProperties, PTL

(* A finished call leaves no marker behind.                                 *)
THEOREM NoMarkerStays == Spec => []MarkersCleared
  BY Invariance, IInvImpliesProperties, PTL
=============================================================================
