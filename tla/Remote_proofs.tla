---------------------------- MODULE Remote_proofs ----------------------------
(***************************************************************************)
(* Proofs about Remote: whatever an agent asks, in whatever order its      *)
(* lines come and the API fails, the database is asked the same, and the   *)
(* agent is told that a thing is absent only if it is.                     *)
(***************************************************************************)
EXTENDS Remote, SequenceTheorems, FiniteSetTheorems, TLAPS

LineSet == [kind : Kinds, id : Nat \cup {None}]

\* What the agent has written, and the call that is being answered.  A line that
\* has an id has its number.
LinesOK ==
  /\ lines \in Seq(LineSet)
  /\ read \in 0 .. Len(lines)
  /\ Len(lines) <= MaxLines
  /\ \A n \in 1 .. Len(lines) : lines[n].id \in {n, None}

CallSet == [id : 1 .. MaxLines, args : Args]

CallOK == call # None => call \in CallSet /\ ~Refused(call.args)

\* The request under way is the call's, the question is the request's, an answer
\* of the database comes after a question, and one of a proxy before.
PathOK ==
  /\ call = None => url = None
  /\ url = None => asked = None /\ reply = None
  /\ url # None => url = Url(Asked(call.args))
  /\ asked # None => asked = Received(url)
  /\ reply # None => reply \in Statuses
  /\ reply = "ok" => asked # None
  /\ reply = "not_found" => asked # None \/ proxied \/ ~Routed(url)
  /\ proxied \in BOOLEAN
  /\ proxied => asked = None /\ reply # None

Responses ==
  [id : Nat \cup {None}, kind : {"result", "absent", "tool_error", "no_method", "parse_error"}]

OutOK == out \in Seq(Responses)

IInv == LinesOK /\ CallOK /\ PathOK /\ OutOK

LEMMA Initially == Init => IInv
<1>1. SUFFICES ASSUME Init PROVE IInv
  OBVIOUS
<1>2. LinesOK /\ OutOK
  BY <1>1, NumbersAssumption DEF Init, LinesOK, OutOK
<1>3. CallOK /\ PathOK
  BY <1>1, NoneAssumption DEF Init, CallOK, PathOK, Statuses
<1>4. QED
  BY <1>2, <1>3 DEF IInv

\* A line that is sent is the next to be written, and nothing else changes.
LEMMA SendKeeps ==
  ASSUME IInv, Agent
  PROVE  IInv'
<1>1. PICK line \in LineSet : Send(line) /\ line.id \in {Len(lines) + 1, None}
  BY DEF Agent, Line, LineSet, IInv, LinesOK
<1>2. LinesOK'
  BY <1>1, NumbersAssumption DEF Send, IInv, LinesOK
<1>3. CallOK' /\ PathOK' /\ OutOK'
  BY <1>1 DEF Send, IInv, CallOK, PathOK, OutOK
<1>4. QED
  BY <1>2, <1>3 DEF IInv

\* Reading a line takes up a call only when none is under way.
LEMMA ReadKeeps ==
  ASSUME IInv, ReadLine
  PROVE  IInv'
<1> DEFINE line == lines[read + 1]
<1>1. /\ read + 1 \in 1 .. Len(lines) /\ read + 1 > read /\ read + 1 \in 1 .. MaxLines
      /\ read' = read + 1 /\ call = None
      /\ UNCHANGED <<lines, asked, reply, proxied>>
  BY NumbersAssumption DEF ReadLine, Ready, IInv, LinesOK
<1>2. PICK a \in Args :
        LET called == line.kind = "call" /\ ~Silent(line) /\ ~Refused(a)
        IN  /\ IF called
               THEN call' = Call(line.id, a) /\ url' = Url(Asked(a))
               ELSE UNCHANGED <<call, url>>
            /\ out' = IF called \/ Silent(line) THEN out ELSE Append(out, Immediate(line))
  BY DEF ReadLine
<1> DEFINE called == line.kind = "call" /\ ~Silent(line) /\ ~Refused(a)
<1>3. LinesOK'
  BY <1>1 DEF IInv, LinesOK
<1>4. OutOK'
  <2>1. line \in LineSet
    BY <1>1 DEF IInv, LinesOK
  <2>2. out' = out \/ (~Silent(line) /\ out' = Append(out, Immediate(line)))
    BY <1>2
  <2>3. ~Silent(line) => Immediate(line) \in Responses
    <3>1. SUFFICES ASSUME ~Silent(line)
                   PROVE  Immediate(line) \in Responses
      OBVIOUS
    <3> HIDE DEF line
    <3>2. /\ line.id \in Nat \cup {None}
          /\ line.kind \in {"garbage", "initialize", "list", "other", "call"}
      BY <2>1, <3>1 DEF LineSet, Kinds, Silent
    <3>3. QED
      BY <3>2 DEF Immediate, Response, Responses
  <2>4. out \in Seq(Responses)
    BY DEF IInv, OutOK
  <2> HIDE DEF line
  <2>5. QED
    BY <2>2, <2>3, <2>4 DEF OutOK
<1>5. CASE called
  <2>1. line.id \in 1 .. MaxLines
    BY <1>1, <1>5 DEF IInv, LinesOK, Silent
  <2>2. call' = Call(line.id, a) /\ url' = Url(Asked(a)) /\ ~Refused(a)
    BY <1>2, <1>5
  <2>3. call' # None /\ url' # None
    BY <2>1, <2>2, NoneAssumption
  <2>4. call' \in CallSet /\ call'.args = a
    BY <2>1, <2>2 DEF Call, CallSet
  <2>5. PathOK'
    <3>1. asked = None /\ reply = None /\ proxied = FALSE
      BY <1>1, Zenon DEF IInv, PathOK
    <3>2. asked' = None /\ reply' = None /\ proxied' = FALSE
      BY <1>1, <3>1
    <3>3. url' = Url(Asked(call'.args))
      BY <2>2, <2>4
    <3>4. reply' # "ok" /\ reply' # "not_found"
      BY <3>2, NoneAssumption DEF Statuses
    <3>5. QED
      BY <2>3, <3>2, <3>3, <3>4, Zenon DEF PathOK
  <2>6. QED
    BY <1>3, <1>4, <2>2, <2>4, <2>5 DEF IInv, CallOK
<1>6. CASE ~called
  <2>1. UNCHANGED <<call, url, asked, reply, proxied>>
    BY <1>1, <1>2, <1>6
  <2>2. CallOK' /\ PathOK'
    BY <2>1 DEF IInv, CallOK, PathOK
  <2>3. QED
    BY <1>3, <1>4, <2>2 DEF IInv
<1>7. QED
  BY <1>5, <1>6

LEMMA HandleKeeps ==
  ASSUME IInv, Handle
  PROVE  IInv'
<1>1. LinesOK' /\ CallOK' /\ OutOK'
  BY DEF Handle, IInv, LinesOK, CallOK, OutOK
<1>2. /\ url # None /\ asked = None /\ reply = None /\ call # None
      /\ UNCHANGED <<call, url, proxied>>
  BY DEF Handle, IInv, PathOK
<1>3. CASE Routed(url) /\ ~Twice(url)
  <2>1. asked' = Received(url) /\ reply' = None
    BY <1>2, <1>3 DEF Handle
  <2>2. asked' # None
    BY <1>2, <2>1, NoneAssumption DEF IInv, PathOK, CallOK, CallSet
  <2>3. proxied = FALSE
    BY DEF Handle, IInv, PathOK
  <2>4. PathOK'
    BY <1>2, <2>1, <2>2, <2>3, NoneAssumption DEF IInv, PathOK
  <2>5. QED
    BY <1>1, <2>4 DEF IInv
<1>4. CASE ~(Routed(url) /\ ~Twice(url))
  <2>1. /\ asked' = None /\ reply' \in {"not_found", "bad_request"}
        /\ reply' = "not_found" => ~Routed(url)
    BY <1>2, <1>4 DEF Handle
  <2>2. reply' \in Statuses
    BY <2>1 DEF Statuses
  <2>3. ~Routed(url)' <=> ~Routed(url)
    BY <1>2 DEF Routed
  <2>4. PathOK'
    BY <1>2, <2>1, <2>2, <2>3 DEF IInv, PathOK
  <2>5. QED
    BY <1>1, <2>4 DEF IInv
<1>5. QED
  BY <1>3, <1>4

LEMMA AnswerKeeps ==
  ASSUME IInv, DatabaseAnswers \/ ProxyAnswers \/ ConnectionFails
  PROVE  IInv'
<1>1. LinesOK' /\ CallOK' /\ OutOK'
  BY DEF DatabaseAnswers, ProxyAnswers, ConnectionFails, IInv, LinesOK, CallOK, OutOK
<1>2. UNCHANGED <<call, url, asked>> /\ url # None
  BY DEF DatabaseAnswers, ProxyAnswers, ConnectionFails, IInv, PathOK
<1>3. /\ reply' \in Statuses
      /\ reply' = "ok" => asked # None
      /\ reply' = "not_found" => asked # None \/ proxied'
  BY DEF DatabaseAnswers, ProxyAnswers, ConnectionFails, Statuses
<1>4. proxied' = FALSE \/ (proxied' = TRUE /\ asked = None)
  <2>1. reply = None
    BY DEF DatabaseAnswers, ProxyAnswers, ConnectionFails
  <2>2. proxied = FALSE
    BY <2>1, Zenon DEF IInv, PathOK
  <2>3. QED
    BY <2>2 DEF DatabaseAnswers, ProxyAnswers, ConnectionFails
<1>5. reply' # None
  BY <1>3, NoneAssumption
<1>6. PathOK'
  BY <1>2, <1>3, <1>4, <1>5 DEF IInv, PathOK, Routed
<1>7. QED
  BY <1>1, <1>6 DEF IInv

LEMMA RespondKeeps ==
  ASSUME IInv, Respond
  PROVE  IInv'
<1>1. call.id \in Nat
  BY NumbersAssumption DEF Respond, IInv, PathOK, CallOK, CallSet
<1>2. Outcome(reply) \in {"result", "absent", "tool_error"}
  BY DEF Outcome
<1>3. OutOK'
  <2>1. Response(call.id, Outcome(reply)) \in Responses
    BY <1>1, <1>2 DEF Response, Responses
  <2>2. out' = Append(out, Response(call.id, Outcome(reply)))
    BY DEF Respond, Answered
  <2>3. QED
    BY <2>1, <2>2 DEF IInv, OutOK
<1>4. LinesOK' /\ CallOK'
  BY DEF Respond, IInv, LinesOK, CallOK
<1>5. PathOK'
  BY NoneAssumption DEF Respond, PathOK, Statuses
<1>6. QED
  BY <1>3, <1>4, <1>5 DEF IInv

THEOREM Inductive == Spec => []IInv
<1>1. ASSUME IInv, [Next]_vars
      PROVE  IInv'
  <2>1. CASE UNCHANGED vars
    BY <1>1, <2>1 DEF vars, IInv, LinesOK, CallOK, PathOK, OutOK, Routed
  <2>2. QED
    BY <1>1, <2>1, SendKeeps, ReadKeeps, HandleKeeps, AnswerKeeps, RespondKeeps DEF Next
<1>2. QED
  BY Initially, <1>1, PTL DEF Spec

-----------------------------------------------------------------------------
(* The order of the responses.                                             *)

\* The ids of the responses o, and of the call c if there is one.
AnswersOf(o, c) == [i \in DOMAIN o |-> o[i].id] \o (IF c = None THEN <<>> ELSE <<c.id>>)
Answers == AnswersOf(out, call)

Owed(n) ==
  \/ lines[n].kind = "garbage"
  \/ lines[n].kind \notin {"blank", "binary"} /\ lines[n].id # None
Wanted(n) == IF lines[n].kind = "garbage" THEN None ELSE lines[n].id

Ordered ==
  /\ Len(Answers) = Cardinality(Due)
  /\ \A n \in Due : Answers[Turn(n)] = Wanted(n)

LEMMA OrderRestated == Ordered => AnswersInOrder
BY DEF Ordered, AnswersInOrder, Answers, AnswersOf, Pending, Wanted

LEMMA AnswersAreIds ==
  ASSUME NEW o \in Seq(Responses), NEW c, c # None => c.id \in Nat
  PROVE  /\ AnswersOf(o, c) \in Seq(Nat \cup {None})
         /\ Len(AnswersOf(o, c)) = Len(o) + (IF c = None THEN 0 ELSE 1)
         /\ \A i \in 1 .. Len(o) : AnswersOf(o, c)[i] = o[i].id
         /\ c # None => AnswersOf(o, c)[Len(o) + 1] = c.id
<1> DEFINE ids == [i \in DOMAIN o |-> o[i].id]
           last == IF c = None THEN <<>> ELSE <<c.id>>
<1>1. DOMAIN o = 1 .. Len(o) /\ Len(o) \in Nat
  OBVIOUS
<1>2. ids \in [1 .. Len(o) -> Nat \cup {None}]
  <2>1. ASSUME NEW i \in 1 .. Len(o) PROVE o[i].id \in Nat \cup {None}
    <3>1. o[i] \in Responses
      BY <1>1, ElementOfSeq
    <3>2. QED
      BY <3>1 DEF Responses
  <2>2. QED
    BY <1>1, <2>1
<1>3. ids \in Seq(Nat \cup {None}) /\ Len(ids) = Len(o)
  <2>1. ids \in Seq(Nat \cup {None})
    BY <1>1, <1>2, SeqDef
  <2>2. QED
    BY <1>1, <2>1
<1>4. \A i \in 1 .. Len(o) : ids[i] = o[i].id
  BY <1>1
<1>5. /\ last \in Seq(Nat \cup {None})
      /\ Len(last) = IF c = None THEN 0 ELSE 1
      /\ c # None => last[1] = c.id
  <2>1. CASE c = None
    BY <2>1
  <2>2. CASE c # None
    <3>1. c.id \in Nat \cup {None}
      BY <2>2
    <3>2. last = <<c.id>>
      BY <2>2
    <3> HIDE DEF last
    <3>3. QED
      BY <2>2, <3>1, <3>2
  <2>3. QED
    BY <2>1, <2>2
<1>6. AnswersOf(o, c) = ids \o last
  BY DEF AnswersOf
<1> HIDE DEF ids, last
<1>7. QED
  BY <1>1, <1>3, <1>4, <1>5, <1>6

LEMMA AnswersWithoutCall ==
  ASSUME NEW o \in Seq(Responses)
  PROVE  /\ AnswersOf(o, None) \in Seq(Nat \cup {None})
         /\ Len(AnswersOf(o, None)) = Len(o)
         /\ \A i \in 1 .. Len(o) : AnswersOf(o, None)[i] = o[i].id
<1>1. \A c : c = None =>
        /\ AnswersOf(o, c) \in Seq(Nat \cup {None})
        /\ Len(AnswersOf(o, c)) = Len(o) + 0
        /\ \A i \in 1 .. Len(o) : AnswersOf(o, c)[i] = o[i].id
  BY AnswersAreIds
<1>2. QED
  BY <1>1

LEMMA TurnsCount ==
  ASSUME read \in Nat
  PROVE  /\ IsFiniteSet(Due)
         /\ Cardinality(Due) \in Nat
         /\ \A n \in Due : Turn(n) \in 1 .. Cardinality(Due)
<1>1. IsFiniteSet(1 .. read) /\ Due \subseteq 1 .. read
  BY FS_Interval DEF Due
<1>2. IsFiniteSet(Due) /\ Cardinality(Due) \in Nat
  BY <1>1, FS_Subset, FS_CardinalityType
<1>3. ASSUME NEW n \in Due
      PROVE  Turn(n) \in 1 .. Cardinality(Due)
  <2> DEFINE S == {m \in Due : m <= n}
  <2>1. n \in Nat
    BY DEF Due
  <2>2. S \subseteq Due /\ {n} \subseteq S
    BY <2>1
  <2>3. Turn(n) = Cardinality(S)
    BY DEF Turn
  <2> HIDE DEF S
  <2>4. IsFiniteSet(S) /\ Cardinality(S) \in Nat /\ Cardinality(S) <= Cardinality(Due)
    BY <1>2, <2>2, FS_Subset, FS_CardinalityType
  <2>5. Cardinality({n}) <= Cardinality(S) /\ Cardinality({n}) = 1
    BY <2>2, <2>4, FS_Subset, FS_Singleton
  <2>6. QED
    BY <1>2, <2>3, <2>4, <2>5
<1>4. QED
  BY <1>2, <1>3

\* A step that reads no line, and answers none or moves one from the call to
\* the output.
LEMMA OrderKept ==
  ASSUME IInv, IInv', Ordered, read' = read,
         \A n \in 1 .. read : lines'[n].kind = lines[n].kind /\ lines'[n].id = lines[n].id,
         Answers' = Answers
  PROVE  Ordered'
<1>1. Due' = Due /\ \A n \in Due : Wanted(n)' = Wanted(n)
  BY DEF Due, Wanted
<1>2. \A n \in Due : Turn(n)' = Turn(n)
  BY <1>1 DEF Turn
<1>3. QED
  BY <1>1, <1>2 DEF Ordered

LEMMA ReadInOrder ==
  ASSUME IInv, IInv', Ordered, ReadLine
  PROVE  Ordered'
<1>0. PICK next : next = read + 1
  OBVIOUS
<1> DEFINE line == lines[next]
<1>1. /\ read \in Nat /\ next \in 1 .. Len(lines) /\ read' = next
      /\ call = None
      /\ line.kind \in Kinds
      /\ \A n \in 1 .. next : lines'[n].kind = lines[n].kind /\ lines'[n].id = lines[n].id
  <2>1. lines \in Seq(LineSet) /\ Len(lines) \in Nat /\ read \in 0 .. Len(lines)
    BY DEF IInv, LinesOK
  <2>2. read < Len(lines) /\ read' = next /\ lines' = lines /\ call = None
    BY <1>0 DEF ReadLine, Ready
  <2>3. next \in 1 .. Len(lines)
    BY <1>0, <2>1, <2>2
  <2>4. lines[next] \in LineSet
    BY <2>1, <2>3
  <2>5. QED
    BY <2>1, <2>2, <2>3, <2>4 DEF LineSet
<1>2. /\ out \in Seq(Responses) /\ Len(out) \in Nat /\ Len(Answers) = Len(out)
      /\ \A i \in 1 .. Len(out) : Answers[i] = out[i].id
  BY <1>1, AnswersAreIds DEF Answers, IInv, OutOK
<1>3. /\ IsFiniteSet(Due) /\ Cardinality(Due) \in Nat
      /\ \A n \in Due : Turn(n) \in 1 .. Cardinality(Due) /\ n \in 1 .. read
      /\ Len(Answers) = Cardinality(Due)
      /\ \A n \in Due : Answers[Turn(n)] = Wanted(n)
  BY <1>1, TurnsCount DEF Due, Ordered
<1>4. Owed(next) <=> ~Silent(line)
  BY <1>1 DEF Owed, Silent, Kinds
<1>5. Due' = IF Owed(next) THEN Due \cup {next} ELSE Due
  BY <1>0, <1>1 DEF Due, Owed
<1>6. \A n \in 1 .. next : Wanted(n)' = Wanted(n)
  BY <1>1 DEF Wanted
<1>7. CASE ~Owed(next)
  <2>1. UNCHANGED <<call, out>>
    BY <1>0, <1>4, <1>7 DEF ReadLine
  <2>2. Answers' = Answers
    BY <2>1 DEF Answers
  <2>3. Due' = Due
    BY <1>5, <1>7
  <2>4. \A n \in Due : Turn(n)' = Turn(n)
    BY <2>3 DEF Turn
  <2>5. QED
    BY <1>0, <1>1, <1>3, <1>6, <2>2, <2>3, <2>4 DEF Ordered
<1>8. CASE Owed(next)
  <2>1. Due' = Due \cup {next} /\ next \notin Due
    BY <1>0, <1>1, <1>3, <1>5, <1>8
  <2>2. Cardinality(Due') = Cardinality(Due) + 1
    BY <1>3, <2>1, FS_AddElement
  <2>3. \A n \in Due : Turn(n)' = Turn(n)
    <3>1. SUFFICES ASSUME NEW n \in Due PROVE Turn(n)' = Turn(n)
      OBVIOUS
    <3>2. {m \in Due' : m <= n} = {m \in Due : m <= n}
      BY <1>0, <1>1, <1>3, <2>1
    <3>3. QED
      BY <3>2 DEF Turn
  <2>4. Turn(next)' = Cardinality(Due) + 1
    <3>1. {m \in Due' : m <= next} = Due'
      BY <1>0, <1>1, <1>3, <2>1
    <3>2. QED
      BY <1>1, <2>2, <3>1 DEF Turn
  <2>5. /\ Len(Answers') = Len(out) + 1
        /\ \A i \in 1 .. Len(out) : Answers'[i] = out[i].id
        /\ Answers'[Len(out) + 1] = Wanted(next)
    <3>1. /\ out' \in Seq(Responses)
          /\ call' # None => call'.id \in Nat
      BY NumbersAssumption DEF IInv, OutOK, CallOK, CallSet
    <3>2. PICK a \in Args :
            IF line.kind = "call" /\ ~Refused(a)
            THEN call' = Call(line.id, a) /\ out' = out
            ELSE call' = call /\ out' = Append(out, Immediate(line))
      BY <1>0, <1>4, <1>8 DEF ReadLine
    <3>3. CASE line.kind = "call" /\ ~Refused(a)
      <4>1. call' = Call(line.id, a) /\ out' = out
        BY <3>2, <3>3
      <4>2. line.id \in 1 .. MaxLines
        BY <1>1, <1>8, <3>3, NumbersAssumption DEF IInv, LinesOK, Owed
      <4>3. call' # None /\ call'.id = Wanted(next)
        <5>1. Wanted(next) = line.id
          BY <3>3 DEF Wanted
        <5> HIDE DEF line
        <5>2. QED
          BY <4>1, <4>2, <5>1, NoneAssumption DEF Call
      <4> HIDE DEF line
      <4>4. QED
        BY <1>2, <3>1, <4>1, <4>3, AnswersAreIds DEF Answers
    <3>4. CASE ~(line.kind = "call" /\ ~Refused(a))
      <4>1. call' = call /\ out' = Append(out, Immediate(line))
        BY <3>2, <3>4
      <4>2. Immediate(line).id = Wanted(next)
        BY <1>1, <1>8 DEF Immediate, Response, Wanted, Owed, Kinds
      <4> HIDE DEF line
      <4>3. Len(out') = Len(out) + 1 /\ out'[Len(out) + 1] = Immediate(line)
            /\ \A i \in 1 .. Len(out) : out'[i] = out[i]
        BY <1>2, <3>1, <4>1
      <4>4. /\ Len(Answers') = Len(out')
            /\ \A i \in 1 .. Len(out') : Answers'[i] = out'[i].id
        <5>1. call' = None
          BY <1>1, <4>1
        <5>2. QED
          BY <3>1, <5>1, AnswersWithoutCall DEF Answers
      <4>5. QED
        BY <1>2, <4>2, <4>3, <4>4
    <3>5. QED
      BY <3>3, <3>4
  <2>6. (Len(Answers) = Cardinality(Due))'
    BY <1>2, <1>3, <2>2, <2>5
  <2>7. ASSUME NEW n \in Due'
        PROVE  (Answers[Turn(n)] = Wanted(n))'
    <3>1. CASE n = next
      <4>1. Turn(n)' = Cardinality(Due) + 1 /\ Wanted(n)' = Wanted(next)
        BY <1>1, <1>6, <2>4, <3>1 DEF Turn, Wanted
      <4>2. QED
        BY <1>2, <1>3, <2>5, <4>1
    <3>2. CASE n \in Due
      <4>1. /\ Turn(n)' = Turn(n) /\ Turn(n) \in 1 .. Len(out)
            /\ Wanted(n)' = Wanted(n) /\ out[Turn(n)].id = Wanted(n)
        BY <1>0, <1>1, <1>2, <1>3, <1>6, <2>3, <3>2
      <4>2. QED
        BY <2>5, <4>1
    <3>3. QED
      BY <2>1, <3>1, <3>2
  <2>8. QED
    BY <2>6, <2>7 DEF Ordered
<1>9. QED
  BY <1>7, <1>8

\* main's loop answers the lines in their order, each request once and nothing
\* else: a response that handle_request returns for a line is written before
\* the next line is read.
THEOREM InOrder == Spec => []AnswersInOrder
<1>1. Init => Ordered
  <2>1. SUFFICES ASSUME Init PROVE Ordered
    OBVIOUS
  <2>2. Due = {} /\ Len(Answers) = 0
    <3>1. out \in Seq(Responses) /\ Len(out) = 0
      BY <2>1, EmptySeq DEF Init
    <3>2. Due = {} /\ call = None
      BY <2>1 DEF Init, Due
    <3>3. QED
      BY <3>1, <3>2, AnswersWithoutCall DEF Answers
  <2>3. QED
    BY <2>2, FS_EmptySet DEF Ordered
<1>2. ASSUME IInv, IInv', Ordered, [Next]_vars
      PROVE  Ordered'
  <2>1. read \in Nat /\ read <= Len(lines) /\ lines \in Seq(LineSet) /\ out \in Seq(Responses)
    BY <1>2 DEF IInv, LinesOK, OutOK
  <2>2. CASE Agent
    <3>1. PICK line : Send(line)
      BY <2>2 DEF Agent
    <3>2. /\ read' = read /\ out' = out /\ call' = call
          /\ \A n \in 1 .. read : lines'[n] = lines[n]
      BY <2>1, <3>1 DEF Send
    <3>3. Answers' = Answers
      BY <3>2 DEF Answers
    <3>4. QED
      BY <1>2, <3>2, <3>3, OrderKept
  <2>3. CASE ReadLine
    BY <1>2, <2>3, ReadInOrder
  <2>4. CASE Respond
    <3>1. /\ read' = read /\ lines' = lines /\ call # None /\ call' = None
          /\ out' = Append(out, Response(call.id, Outcome(reply)))
      BY <1>2, <2>4 DEF Respond, Answered, IInv, PathOK
    <3>2. Response(call.id, Outcome(reply)).id = call.id
      BY DEF Response
    <3>3. /\ Len(out') = Len(out) + 1
          /\ out'[Len(out) + 1].id = call.id
          /\ \A i \in 1 .. Len(out) : out'[i] = out[i]
      BY <2>1, <3>1, <3>2
    <3>4. Answers' = Answers
      <4>1. call.id \in Nat /\ out' \in Seq(Responses)
        BY <1>2, <3>1, NumbersAssumption DEF IInv, CallOK, CallSet, OutOK
      <4>2. /\ Answers \in Seq(Nat \cup {None}) /\ Len(Answers) = Len(out) + 1
            /\ \A i \in 1 .. Len(out) : Answers[i] = out[i].id
            /\ Answers[Len(out) + 1] = call.id
        BY <2>1, <3>1, <4>1, AnswersAreIds DEF Answers
      <4>3. /\ Answers' \in Seq(Nat \cup {None}) /\ Len(Answers') = Len(out')
            /\ \A i \in 1 .. Len(out') : Answers'[i] = out'[i].id
        BY <3>1, <4>1, AnswersWithoutCall DEF Answers
      <4>4. \A i \in 1 .. Len(Answers) : Answers'[i] = Answers[i]
        <5>1. PICK m \in Nat : m = Len(out)
          BY <2>1
        <5>2. \A i \in 1 .. m : Answers'[i] = Answers[i]
          BY <3>3, <4>2, <4>3, <5>1
        <5>3. Answers'[m + 1] = Answers[m + 1]
          BY <3>3, <4>2, <4>3, <5>1
        <5>4. QED
          BY <4>2, <5>1, <5>2, <5>3
      <4>5. QED
        BY <2>1, <3>3, <4>2, <4>3, <4>4, SeqEqual
    <3>5. QED
      BY <1>2, <3>1, <3>4, OrderKept
  <2>5. CASE Handle \/ DatabaseAnswers \/ ProxyAnswers \/ ConnectionFails \/ UNCHANGED vars
    <3>1. UNCHANGED <<read, lines, call, out>>
      BY <2>5 DEF Handle, DatabaseAnswers, ProxyAnswers, ConnectionFails, vars
    <3>2. Answers' = Answers
      BY <3>1 DEF Answers
    <3>3. QED
      BY <1>2, <3>1, <3>2, OrderKept
  <2>6. QED
    BY <1>2, <2>2, <2>3, <2>4, <2>5 DEF Next
<1>3. QED
  BY Inductive, OrderRestated, <1>1, <1>2, PTL DEF Spec

-----------------------------------------------------------------------------
(* The question.                                                           *)

\* SameQuestion of a call's arguments a and the question r of the database.
Same(a, r) ==
  LET q == Asked(a)
  IN  /\ r.op = q.op
      /\ \A f \in DOMAIN q \cap {"id", "entity", "concept"} : r[f] = a[f] \/ Rewritten(f, a[f])
      /\ \A f \in DOMAIN q \cap {"query", "types", "deduplicate", "repo"} : r[f] = q[f]
      /\ a.tool \in Lookups => SameNumber(r.number, a.number)
      /\ a.tool = "references" =>
           /\ r.limit <= MostRefs
           /\ a.limit # None /\ a.limit <= MostRefs => r.limit = a.limit
      /\ a.tool = "search" /\ Legible(a.repos) =>
           /\ r.repos = IF a.repos = None THEN None ELSE {a.repos[i] : i \in DOMAIN a.repos}
           /\ SameNumber(r.limit, a.limit) /\ (a.limit = None => r.limit = None)

\* A number that fits is not wrapped.
LEMMA Fits ==
  ASSUME NEW m \in Maybe(Numbers)
  PROVE  SameNumber(U32(m), m) /\ (m = None => U32(m) = None)
BY NumbersAssumption DEF SameNumber, U32, Maybe

\* Names that are read as they were written are all read, and end nothing.
LEMMA LegibleIsRead ==
  ASSUME NEW repos \in RepoLists, repos # None, Legible(repos)
  PROVE  /\ ReposRead(repos) = {repos[i] : i \in DOMAIN repos}
         /\ repos[LastRead(repos)] \notin Hashed \cup Amped
<1>1. repos \in Seq(Repos) /\ Len(repos) \in Nat \ {0} /\ DOMAIN repos = 1 .. Len(repos)
  BY NamesAssumption, EmptySeq
<1>2. \A i \in 1 .. Len(repos) : RepoRead[repos[i]] = {repos[i]}
  BY <1>1 DEF Legible
<1>3. \A i \in 1 .. Len(repos) : repos[i] \notin Hashed \cup Amped
  BY <1>2, NamesAssumption
<1>4. LastRead(repos) = Len(repos)
  BY <1>1, <1>3 DEF LastRead
<1>5. ReposRead(repos) = UNION {RepoRead[repos[i]] : i \in 1 .. Len(repos)}
  BY <1>4 DEF ReposRead
<1>6. \A r : r \in ReposRead(repos) <=> r \in {repos[i] : i \in DOMAIN repos}
  <2>1. \A r : r \in ReposRead(repos) <=> \E i \in 1 .. Len(repos) : r \in RepoRead[repos[i]]
    BY <1>5
  <2>2. QED
    BY <1>1, <1>2, <2>1
<1>7. repos[LastRead(repos)] \notin Hashed \cup Amped
  BY <1>1, <1>3, <1>4
<1>8. QED
  <2>1. ReposRead(repos) = {repos[i] : i \in DOMAIN repos}
    BY <1>6
  <2>2. QED
    BY <1>7, <2>1

LEMMA SearchIsSame ==
  ASSUME NEW a \in Args, a.tool = "search"
  PROVE  Same(a, Received(Url(Asked(a))))
<1>1. a.repos \in Maybe(RepoLists) /\ a.limit \in Maybe(Numbers)
  BY DEF Args, SearchArgs, DocumentArgs, ReferencesArgs, LookupArgs, TimelineArgs, FindArgs, Lookups
<1>2. Asked(a) = AskedSearch(a)
  BY DEF Asked, Lookups
<1>3. PICK x : x = ParseDate(a.after)
  OBVIOUS
<1> DEFINE u == [op |-> "search", query |-> a.query, types |-> Parsed(a.types),
                 repos |-> a.repos, after |-> Written(x), deduplicate |-> a.deduplicate,
                 limit |-> U32(a.limit)]
<1>4. AskedSearch(a) = [op |-> "search", query |-> a.query, types |-> Parsed(a.types),
                        repos |-> a.repos, after |-> x, deduplicate |-> a.deduplicate,
                        limit |-> U32(a.limit)]
  BY <1>3 DEF AskedSearch
<1>5. Url(Asked(a)) = u
  <2>1. Url(Asked(a)) = SearchUrl(AskedSearch(a))
    <3>1. Asked(a).op = "search"
      BY <1>2, <1>4
    <3>2. \A q : q.op = "search" => Url(q) = SearchUrl(q)
      BY DEF Url, Lookups
    <3>3. QED
      BY <1>2, <3>1, <3>2
  <2>2. SearchUrl(AskedSearch(a)) = [AskedSearch(a) EXCEPT !.after = Written(AskedSearch(a).after)]
    BY DEF SearchUrl
  <2>3. AskedSearch(a).after = x
    BY <1>4
  <2>4. QED
    BY <1>4, <2>1, <2>2, <2>3
<1>6. PICK d, n :
        /\ n = IF IsCut(u) THEN None ELSE IF Added(u) # None THEN Added(u) ELSE u.limit
        /\ Received(u) = [u EXCEPT !.types = Parsed(u.types), !.repos = ReposRead(u.repos),
                                   !.after = d, !.limit = n]
  BY DEF Received, ReceivedSearch
<1>7. Received(u) = [op |-> "search", query |-> a.query, types |-> Parsed(Parsed(a.types)),
                     repos |-> ReposRead(a.repos), after |-> d, deduplicate |-> a.deduplicate,
                     limit |-> n]
  BY <1>6
<1>8. Parsed(Parsed(a.types)) = Parsed(a.types)
  BY DEF Parsed
<1>9. ASSUME Legible(a.repos)
      PROVE  /\ ReposRead(a.repos) = IF a.repos = None THEN None
                                     ELSE {a.repos[i] : i \in DOMAIN a.repos}
             /\ SameNumber(n, a.limit) /\ (a.limit = None => n = None)
  <2>1. u.repos = a.repos /\ u.limit = U32(a.limit)
    OBVIOUS
  <2> HIDE DEF u
  <2>2. CASE a.repos = None
    <3>1. n = U32(a.limit)
      BY <1>6, <2>1, <2>2 DEF IsCut, Added
    <3>2. QED
      BY <1>1, <2>2, <3>1, Fits DEF ReposRead
  <2>3. CASE a.repos # None
    <3>1. a.repos \in RepoLists
      BY <1>1, <2>3 DEF Maybe
    <3>2. /\ ReposRead(a.repos) = {a.repos[i] : i \in DOMAIN a.repos}
          /\ a.repos[LastRead(a.repos)] \notin Hashed \cup Amped
      BY <1>9, <2>3, <3>1, LegibleIsRead
    <3>3. n = U32(a.limit)
      BY <1>6, <2>1, <3>2 DEF IsCut, Added
    <3>4. QED
      BY <1>1, <2>3, <3>2, <3>3, Fits
  <2>4. QED
    BY <2>2, <2>3
<1> DEFINE r == Received(Url(Asked(a)))
<1>10. /\ r.op = "search" /\ r.query = a.query /\ r.types = Parsed(a.types)
       /\ r.deduplicate = a.deduplicate /\ r.repos = ReposRead(a.repos) /\ r.limit = n
  BY <1>5, <1>7, <1>8
<1> HIDE DEF r
<1>11. DOMAIN Asked(a) = {"op", "query", "types", "repos", "after", "deduplicate", "limit"}
  BY <1>2, <1>4
<1>12. /\ Asked(a).op = "search" /\ Asked(a).query = a.query
       /\ Asked(a).types = Parsed(a.types) /\ Asked(a).deduplicate = a.deduplicate
  BY <1>2, <1>4
<1>13. QED
  BY <1>9, <1>10, <1>11, <1>12 DEF Same, Lookups, r

LEMMA OthersAreSame ==
  ASSUME NEW a \in Args, ~Refused(a), a.tool # "search"
  PROVE  Same(a, Received(Url(Asked(a))))
<1>1. CASE a.tool = "document"
  <2>1. PICK o \in {"document", "raw_document"} : Asked(a) = [op |-> o, id |-> a.id]
    BY <1>1 DEF Asked, AskedDocument, Lookups
  <2>2. Url(Asked(a)) = [op |-> "document", segment |-> Plussed[a.id], raw |-> o = "raw_document"]
    BY <2>1 DEF Url, DocumentUrl, Lookups
  <2>3. Received(Url(Asked(a))) = [op |-> o, id |-> Unslashed[Plussed[a.id]]]
    <3> DEFINE u == Url(Asked(a))
    <3>1. u.op = "document" /\ u.segment = Plussed[a.id] /\ u.raw = (o = "raw_document")
      BY <2>2
    <3> HIDE DEF u
    <3>2. Received(u) = [op |-> IF u.raw THEN "raw_document" ELSE "document",
                         id |-> Unslashed[u.segment]]
      BY <3>1 DEF Received, ReceivedDocument
    <3>3. (IF u.raw THEN "raw_document" ELSE "document") = o
      BY <3>1
    <3>4. QED
      BY <3>1, <3>2, <3>3, Zenon DEF u
  <2>4. Unslashed[Plussed[a.id]] = a.id \/ Rewritten("id", a.id)
    BY DEF Rewritten
  <2>5. QED
    BY <1>1, <2>1, <2>3, <2>4 DEF Same, Lookups
<1>2. CASE a.tool = "references"
  <2>1. a.limit \in Maybe(Numbers)
    BY <1>2 DEF Args, ReferencesArgs, SearchArgs, DocumentArgs, LookupArgs, TimelineArgs, FindArgs, Lookups
  <2>2. PICK n : n = Asked(a).limit
    OBVIOUS
  <2>3. /\ n \in Nat /\ MostRefs \in Nat
        /\ a.limit # None /\ a.limit <= MostRefs => n = a.limit
    BY <1>2, <2>1, <2>2, NumbersAssumption DEF Asked, AskedReferences, U32, Maybe, Lookups
  <2>4. Asked(a) = [op |-> "references", entity |-> a.entity, limit |-> n]
    BY <1>2, <2>2 DEF Asked, AskedReferences, Lookups
  <2>5. Received(Url(Asked(a))) =
          [op |-> "references", entity |-> Plussed[a.entity],
           limit |-> IF n < MostRefs THEN n ELSE MostRefs]
    BY <2>4 DEF Url, Received, ReferencesUrl, ReceivedReferences, Lookups
  <2>6. QED
    BY <1>2, <2>3, <2>4, <2>5 DEF Same, Rewritten, Lookups
<1>3. CASE a.tool = "timeline"
  <2>1. Asked(a) = AskedTimeline(a)
    BY <1>3 DEF Asked, Lookups
  <2>2. Received(Url(Asked(a))) = ReceivedTimeline(TimelineUrl(AskedTimeline(a)))
    BY <2>1 DEF Url, Received, AskedTimeline, TimelineUrl, Lookups
  <2>3. QED
    BY <1>3, <2>1, <2>2 DEF Same, Rewritten, AskedTimeline, TimelineUrl, ReceivedTimeline, Lookups
<1>4. CASE a.tool \in Lookups
  <2>1. a.number \in Maybe(Numbers)
    BY <1>4 DEF Args, ReferencesArgs, SearchArgs, DocumentArgs, LookupArgs, TimelineArgs, FindArgs, Lookups
  <2>2. Asked(a) = [op |-> a.tool, number |-> U32(a.number)]
    BY <1>4 DEF Asked, AskedLookup, Lookups
  <2>3. Received(Url(Asked(a))) = Asked(a)
    BY <1>4, <2>2 DEF Url, LookupUrl, Received, Lookups
  <2>4. QED
    BY <1>4, <2>1, <2>2, <2>3, Fits DEF Same, Lookups
<1>5. CASE a.tool = "find_commit"
  BY <1>5 DEF Same, Asked, AskedCommit, Url, CommitUrl, Received, Lookups
<1>6. QED
  <2>1. a.tool \in {"document", "references", "timeline", "find_commit"} \cup Lookups
    BY DEF Args, ReferencesArgs, SearchArgs, DocumentArgs, LookupArgs, TimelineArgs, FindArgs, Refused
  <2>2. QED
    BY <1>1, <1>2, <1>3, <1>4, <1>5, <2>1

\* Whatever is asked of the database is what a call asked for.
LEMMA QuestionIsSame ==
  ASSUME IInv, asked # None
  PROVE  Same(call.args, asked)
<1>1. call.args \in Args /\ ~Refused(call.args) /\ asked = Received(Url(Asked(call.args)))
  BY DEF IInv, PathOK, CallOK, CallSet
<1>2. QED
  BY <1>1, SearchIsSame, OthersAreSame

\* The database behind the API is asked what an agent asked: tools.rs,
\* remote_store.rs and api.rs agree on the operation and every field, but for
\* dates, for what a path or an unencoded name makes of a text, and for numbers
\* that do not fit.
THEOREM AskedTheSame == Spec => []SameQuestion
<1>1. IInv => SameQuestion
  BY QuestionIsSame DEF SameQuestion, Same
<1>2. QED
  BY Inductive, <1>1, PTL

\* The database was asked for the thing that a call names.
LEMMA AskedForThatThing ==
  ASSUME IInv, asked # None
  PROVE  OfThatThing(call.args)
<1>1. Same(call.args, asked) /\ call.args \in Args
  BY QuestionIsSame DEF IInv, PathOK, CallOK, CallSet
<1>2. ASSUME call.args.tool = "document"
      PROVE  asked.id = call.args.id \/ Rewritten("id", call.args.id)
  BY <1>1, <1>2 DEF Same, Asked, AskedDocument, Lookups
<1>3. ASSUME call.args.tool \in Lookups
      PROVE  asked.op = call.args.tool /\ SameNumber(asked.number, call.args.number)
  BY <1>1, <1>3 DEF Same, Asked, AskedLookup, Lookups
<1>4. QED
  BY <1>2, <1>3 DEF OfThatThing

\* An agent hears of an absence from the database, asked for that very thing
\* (or from a proxy's 404), and gets an answer only from the database: the
\* error paths of remote_store.rs and tools.rs never say either by mistake.
THEOREM AbsenceIsTold == Spec => AbsentMeansAbsent
<1> DEFINE Told ==
      Len(out') > Len(out) /\ call # None =>
        LET kind == out'[Len(out')].kind
        IN  /\ kind = "absent" =>
                 /\ reply = "not_found"
                 /\ \/ asked # None /\ OfThatThing(call.args)
                    \/ asked = None /\ (proxied \/ url.segment = Empty)
            /\ kind = "result" => reply = "ok" /\ asked # None /\ ~proxied
<1>1. ASSUME IInv, [Next]_vars
      PROVE  [Told]_vars
  <2>1. CASE Respond
    <3>1. /\ Len(out') = Len(out) + 1
          /\ out'[Len(out')].kind = Outcome(reply)
      <4>1. out' = Append(out, Response(call.id, Outcome(reply)))
        BY <2>1 DEF Respond, Answered
      <4>2. out \in Seq(Responses)
        BY <1>1 DEF IInv, OutOK
      <4>3. Response(call.id, Outcome(reply)).kind = Outcome(reply)
        BY DEF Response
      <4>4. QED
        BY <4>1, <4>2, <4>3
    <3>2. Outcome(reply) = "absent" => reply = "not_found"
      BY DEF Outcome
    <3>3. Outcome(reply) = "result" => reply = "ok"
      BY DEF Outcome
    <3>4. reply = "not_found" =>
            \/ asked # None /\ OfThatThing(call.args)
            \/ asked = None /\ (proxied \/ url.segment = Empty)
      <4>1. ~Routed(url) => url.segment = Empty
        BY DEF Routed
      <4>2. QED
        BY <1>1, <4>1, AskedForThatThing DEF IInv, PathOK
    <3>5. reply = "ok" => asked # None /\ ~proxied
      BY <1>1 DEF IInv, PathOK
    <3> HIDE DEF Outcome
    <3>6. QED
      BY <3>1, <3>2, <3>3, <3>4, <3>5
  <2>2. CASE ReadLine
    BY <2>2 DEF ReadLine, Ready
  <2>3. CASE Agent \/ Handle \/ DatabaseAnswers \/ ProxyAnswers \/ ConnectionFails \/ UNCHANGED vars
    <3>1. out' = out
      BY <2>3 DEF Agent, Send, Handle, DatabaseAnswers, ProxyAnswers, ConnectionFails, vars
    <3>2. Len(out') = Len(out) /\ Len(out) \in Nat
      BY <1>1, <3>1 DEF IInv, OutOK
    <3>3. QED
      BY <3>2
  <2>4. QED
    BY <1>1, <2>1, <2>2, <2>3 DEF Next
<1>2. QED
  BY Inductive, <1>1, PTL DEF Spec, AbsentMeansAbsent
=============================================================================
