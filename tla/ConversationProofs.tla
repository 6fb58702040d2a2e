-------------------------- MODULE ConversationProofs --------------------------
(***************************************************************************)
(* What holds of a run of an agent whatever it is asked to do, however its *)
(* conversation is cut and wherever it is taken up again: the model is     *)
(* asked about whole conversations, a call is made on a person's word and  *)
(* not lost once it is allowed, a run is paid for once and ends once.      *)
(*                                                                         *)
(* And what holds of the tools its turns call, however the connector is    *)
(* edited and whichever servers change, fail and exit: they are asked once *)
(* they were introduced, for what they offered, and none is left behind.   *)
(*                                                                         *)
(* And of the calls to models that go through the router and its breakers, *)
(* in whatever order providers answer and fail: a chain is tried in full,  *)
(* a stream is of one attempt, and a provider is opened for cause and lets *)
(* nobody in only while it is being tried.                                 *)
(***************************************************************************)
EXTENDS Conversation, ToolServers, Calls, FiniteSetTheorems, SequenceTheorems, WellFoundedInduction, TLAPS

-------------------------------------------------------------------------------
(* The invariant.                                                          *)

\* A conversation that can be gone on with: every result right after its call,
\* every call right before its result unless it is the last word, and no call in
\* two answers.
Whole(msgs) ==
  /\ msgs \in Seq(Message) /\ msgs # << >> /\ msgs[1] = Brief
  /\ \A i \in DOMAIN msgs : msgs[i].role = "results" =>
       i > 1 /\ msgs[i - 1] = Said(msgs[i].ids)
  /\ \A i \in DOMAIN msgs : msgs[i].role = "assistant" =>
       /\ msgs[i].ids # {}
       /\ \A c, d \in msgs[i].ids : c[1] = d[1]
       /\ i < Len(msgs) => msgs[i + 1] = Answered(msgs[i].ids)
  /\ \A i, j \in DOMAIN msgs :
       /\ msgs[i].role = "assistant" /\ msgs[j].role = "assistant"
       /\ msgs[i].ids \cap msgs[j].ids # {}
       => i = j

\* It has calls of the first n answers.
Heard(msgs, n) == \A i \in DOMAIN msgs : \A c \in msgs[i].ids : c[1] <= n

Checkpoint ==
  [finished : SETTLED_REASONS \cup {"none", "no"}, messages : Seq(Message), spent : Nat,
   spendApproved : BOOLEAN]

Working == phase \in {"driving", "performing"}

Bookkeeping ==
  /\ spent \in Nat /\ spendApproved \in BOOLEAN
  /\ counts \in [Catalog \cup {FIND} -> 0 .. LoopThreshold]
  /\ asks \in 0 .. MaxAsks /\ paid \in Nat /\ slips \in Nat
  /\ saved \in Checkpoint
  /\ saved.finished = "none" => saved = None
  /\ known \subseteq decisions /\ (Working => known = decisions)
  /\ Working \/ phase = "waiting" => saved.finished \notin SETTLED_REASONS
  /\ Working => \A t \in Catalog \cup {FIND} : counts[t] < LoopThreshold
  /\ phase = "performing" => step < MaxSteps

\* What the run goes on with, here or from the checkpoint, is whole; the calls at its
\* end are the ones under way, and those of a run that was just taken up are saved.
Chat ==
  /\ Working \/ phase = "waiting" => Whole(messages) /\ Heard(messages, asks)
  /\ saved.finished \notin {"none", "completed"} =>
       Whole(saved.messages) /\ Heard(saved.messages, asks)
  /\ phase = "performing" => Last(messages) = Said(todo \cup results)
  /\ phase = "driving" /\ TrailingToolCalls(messages) # {} =>
       /\ saved.finished = "no" /\ messages = saved.messages
       /\ spent = saved.spent /\ spendApproved = saved.spendApproved

Ruled(x) == \E e \in {"approved", "declined"} : <<x, e>> \in decisions

\* A person decides once, about what needs a person; what is being performed was
\* decided about.
Word ==
  /\ decisions \subseteq ({SPEND} \cup Call) \X {"approved", "declined"}
  /\ \A d, e \in decisions : d[1] = e[1] => d = e
  /\ \A d \in decisions : d[1] = SPEND \/ d[1][2] \in Gated
  /\ phase = "performing" => \A c \in todo : c[2] \in Gated => Ruled(c)
  /\ made \subseteq Call
  /\ DecidedFirst

\* The worker, and the checkpoint, know of all that was paid but for what slipped.
Paid ==
  /\ PaidWithinBudget
  /\ Working => paid <= spent + AnswerCost * slips
  /\ phase = "performing" => paid <= saved.spent + AnswerCost * (slips + 1)
  /\ phase # "performing" => paid <= saved.spent + AnswerCost * slips

Once == slips = 0 => outcomes \subseteq {saved.finished}

\* Calls that were allowed and neither made nor forgotten, the ones a run that is
\* taken up again begins with, and what it is then held for.
Left == {c \in Call : <<c, "approved">> \in decisions /\ c \notin made \cup forgotten}

InHand == IF saved.finished = "no" THEN TrailingToolCalls(saved.messages) ELSE {}

HeldFor(calls, cost, ok) ==
  {c \in calls : c[2] \in Gated /\ ~Ruled(c)}
    \cup {x \in {SPEND} : ~ok /\ cost >= SpendThreshold /\ ~Ruled(SPEND)}

\* An allowed call is not lost: it is at the end of what was saved, which fits, and
\* of what the worker goes on with, until it is made.
Leftover ==
  /\ saved.finished \in SETTLED_REASONS \ {"completed"} \/ Left \subseteq InHand
  /\ phase = "driving" => Left \subseteq TrailingToolCalls(messages)
  /\ phase = "performing" => Left \subseteq todo
  /\ phase = "over" /\ Last(messages) = Said({}) => Left = {}
  /\ phase = "waiting" =>
       \A c \in TrailingToolCalls(messages) :
         c[2] \in Gated /\ ~Ruled(c) => c \in forgotten \cup InHand
  /\ InHand # {} =>
       CheckpointBytes(saved, HeldFor(InHand, saved.spent, saved.spendApproved)) <= MaxBytes

IInv == TypeOK /\ Bookkeeping /\ Chat /\ Word /\ Paid /\ Once /\ Leftover

-------------------------------------------------------------------------------
(* Numbers.                                                                *)

\* The least of some numbers.
LEMMA Least ==
  ASSUME NEW S, S \subseteq Nat, S # {}
  PROVE  \E n \in S : \A k \in S : n <= k
<1>1. IsWellFoundedOn(OpToRel(<, Nat), Nat)
  BY NatLessThanWellFounded
<1>2. PICK n \in S : \A y \in Nat : <<y, n>> \in OpToRel(<, Nat) => ~(y \in S)
  BY <1>1, WFMin
<1>3. ASSUME NEW k \in S PROVE n <= k
  <2>1. n \in Nat /\ k \in Nat
    OBVIOUS
  <2>2. SUFFICES ASSUME k < n PROVE FALSE
    BY <2>1
  <2>3. <<k, n>> \in OpToRel(<, Nat)
    BY <2>1, <2>2 DEF OpToRel
  <2> QED
    BY <1>2, <2>1, <2>3
<1> QED
  BY <1>3

\* The most of some numbers that stay below one.
LEMMA Most ==
  ASSUME NEW N \in Nat, NEW S, S \subseteq 0 .. N, S # {}
  PROVE  \E n \in S : \A k \in S : k <= n
<1> DEFINE T == {N - n : n \in S}
<1>1. T \subseteq Nat /\ T # {}
  <2>1. \A n \in S : N - n \in Nat
    OBVIOUS
  <2> QED
    BY <2>1
<1>2. PICK m \in T : \A k \in T : m <= k
  BY <1>1, Least
<1>3. PICK n \in S : m = N - n
  BY <1>2
<1>4. ASSUME NEW k \in S PROVE k <= n
  <2>1. N - k \in T
    OBVIOUS
  <2>2. m <= N - k
    BY <1>2, <2>1
  <2>3. k \in Int /\ n \in Int
    OBVIOUS
  <2> QED
    BY <1>3, <2>2, <2>3
<1> QED
  BY <1>4

-------------------------------------------------------------------------------
(* Conversations that are cut.                                             *)

LEMMA LastOnes ==
  ASSUME NEW S, NEW s \in Seq(S), NEW n \in 0 .. Len(s)
  PROVE  /\ Last_n(s, n) \in Seq(S) /\ Len(Last_n(s, n)) = n
         /\ \A i \in 1 .. n : Last_n(s, n)[i] = s[Len(s) - n + i]
<1>1. Len(s) \in Nat /\ Len(s) - n + 1 \in Int /\ Len(s) \in Int
  BY LenProperties
<1>2. \A i \in Len(s) - n + 1 .. Len(s) : s[i] \in S
  BY <1>1, ElementOfSeq
<1>3. /\ SubSeq(s, Len(s) - n + 1, Len(s)) \in Seq(S)
      /\ Len(SubSeq(s, Len(s) - n + 1, Len(s))) =
           IF Len(s) - n + 1 <= Len(s) THEN Len(s) - (Len(s) - n + 1) + 1 ELSE 0
      /\ \A i \in 1 .. Len(s) - (Len(s) - n + 1) + 1 :
           SubSeq(s, Len(s) - n + 1, Len(s))[i] = s[Len(s) - n + 1 + i - 1]
  BY <1>1, <1>2, SubSeqProperties
<1> DEFINE t == SubSeq(s, Len(s) - n + 1, Len(s))
<1>4. t \in Seq(S) /\ Len(t) = n
  BY <1>1, <1>3
<1>5. ASSUME NEW i \in 1 .. n PROVE t[i] = s[Len(s) - n + i]
  <2>1. i \in 1 .. Len(s) - (Len(s) - n + 1) + 1
    BY <1>1
  <2>2. t[i] = s[Len(s) - n + 1 + i - 1]
    BY <1>3, <2>1
  <2>3. Len(s) - n + 1 + i - 1 = Len(s) - n + i
    BY <1>1
  <2> QED
    BY <2>2, <2>3
<1> QED
  BY <1>4, <1>5 DEF Last_n

\* What comes last does not depend on where one begins to count.
LEMMA LastOfRest ==
  ASSUME NEW S, NEW s \in Seq(S), s # << >>, NEW n \in 0 .. Len(s) - 1
  PROVE  n \in 0 .. Len(s) /\ n \in 0 .. Len(Tail(s)) /\ Last_n(Tail(s), n) = Last_n(s, n)
<1>1. Len(s) \in Nat /\ Tail(s) \in Seq(S) /\ Len(Tail(s)) = Len(s) - 1
      /\ \A i \in 1 .. Len(Tail(s)) : Tail(s)[i] = s[i + 1]
  BY LenProperties, HeadTailProperties
<1>2. n \in 0 .. Len(s) /\ n \in 0 .. Len(Tail(s))
  BY <1>1
<1>3. /\ Last_n(s, n) \in Seq(S) /\ Len(Last_n(s, n)) = n
      /\ \A i \in 1 .. n : Last_n(s, n)[i] = s[Len(s) - n + i]
  BY <1>2, LastOnes
<1>4. /\ Last_n(Tail(s), n) \in Seq(S) /\ Len(Last_n(Tail(s), n)) = n
      /\ \A i \in 1 .. n : Last_n(Tail(s), n)[i] = Tail(s)[Len(Tail(s)) - n + i]
  <2>1. Tail(s) \in Seq(S) /\ n \in 0 .. Len(Tail(s))
    BY <1>1, <1>2
  <2> DEFINE t == Tail(s)
  <2>2. t \in Seq(S) /\ n \in 0 .. Len(t)
    BY <2>1
  <2> HIDE DEF t
  <2>3. /\ Last_n(t, n) \in Seq(S) /\ Len(Last_n(t, n)) = n
        /\ \A i \in 1 .. n : Last_n(t, n)[i] = t[Len(t) - n + i]
    BY <2>2, LastOnes
  <2> QED
    BY <2>3 DEF t
<1>5. ASSUME NEW i \in 1 .. n PROVE Last_n(Tail(s), n)[i] = Last_n(s, n)[i]
  <2>1. Len(Tail(s)) - n + i \in 1 .. Len(Tail(s))
    BY <1>1, <1>2
  <2>2. Tail(s)[Len(Tail(s)) - n + i] = s[Len(Tail(s)) - n + i + 1]
    BY <1>1, <2>1
  <2>3. Len(Tail(s)) - n + i + 1 = Len(s) - n + i
    BY <1>1
  <2> QED
    BY <1>3, <1>4, <2>2, <2>3
<1>6. Last_n(Tail(s), n) = Last_n(s, n)
  BY <1>3, <1>4, <1>5, SeqEqual
<1> QED
  BY <1>2, <1>6

-------------------------------------------------------------------------------
(* Whole conversations.                                                    *)

LEMMA MessageParts ==
  ASSUME NEW m \in Message
  PROVE  /\ m.ids \subseteq Call
         /\ m.role = "assistant" => m = Said(m.ids)
         /\ m.role \in {"brief", "assistant", "results", "summary"}
BY DEF Message, Said

LEMMA Wording ==
  ASSUME NEW calls \in SUBSET Call
  PROVE  /\ {Brief, Summary, Said(calls), Answered(calls)} \subseteq Message
         /\ Brief.role = "brief" /\ Brief.ids = {} /\ Summary.role = "summary" /\ Summary.ids = {}
         /\ Said(calls).role = "assistant" /\ Said(calls).ids = calls
         /\ Answered(calls).role = "results" /\ Answered(calls).ids = calls
BY DEF Message, Brief, Summary, Said, Answered

\* A tail that refers to nothing before it does not begin with results.
LEMMA NoOrphanFirst ==
  ASSUME NEW msgs, Whole(msgs), NEW n \in 1 .. Len(msgs) - 1,
         ~HasOrphanToolResult(Last_n(msgs, n))
  PROVE  msgs[Len(msgs) - n + 1].role # "results"
<1> DEFINE L == Len(msgs)
           k == L - n + 1
           tail == Last_n(msgs, n)
<1>1. /\ msgs \in Seq(Message) /\ L \in Nat /\ DOMAIN msgs = 1 .. L /\ n \in 0 .. L
      /\ k \in 1 .. L /\ n \in Nat /\ k - 1 \in Int
  BY LenProperties DEF Whole
<1>2. /\ tail \in Seq(Message) /\ Len(tail) = n /\ DOMAIN tail = 1 .. n
      /\ \A i \in 1 .. n : tail[i] = msgs[L - n + i]
  BY <1>1, LastOnes, LenProperties
<1> SUFFICES ASSUME msgs[k].role = "results" PROVE FALSE
  OBVIOUS
<1>3. k > 1 /\ msgs[k - 1] = Said(msgs[k].ids)
  BY <1>1 DEF Whole
<1>4. k - 1 \in 1 .. L
  BY <1>1, <1>3
<1>5. msgs[k - 1].role = "assistant" /\ msgs[k - 1].ids = msgs[k].ids
  BY <1>3 DEF Said
<1>6. PICK c \in msgs[k].ids : TRUE
  BY <1>1, <1>4, <1>5 DEF Whole
<1>7. tail[1] = msgs[k] /\ 1 \in DOMAIN tail
  BY <1>1, <1>2
<1>8. c \in Results(tail)
  BY <1>6, <1>7 DEF Results, ToSet
<1>9. c \in ToolUseIds(tail)
  BY <1>8 DEF HasOrphanToolResult
<1>10. PICK j \in 1 .. n : tail[j].role = "assistant" /\ c \in tail[j].ids
  BY <1>2, <1>9 DEF ToolUseIds, ToSet
<1>11. L - n + j \in 1 .. L /\ L - n + j # k - 1 /\ tail[j] = msgs[L - n + j]
  BY <1>1, <1>2
<1>12. msgs[L - n + j].ids \cap msgs[k - 1].ids # {}
  BY <1>5, <1>6, <1>10, <1>11
<1> QED
  BY <1>1, <1>4, <1>5, <1>10, <1>11, <1>12 DEF Whole

\* One or two messages, and the last n of a conversation.
Pasted(new, msgs, a, n) ==
  /\ new \in Seq(Message) /\ a \in 1 .. 2 /\ n \in 0 .. Len(msgs) - 1
  /\ Len(new) = a + n
  /\ new[1] = Brief /\ (a = 2 => new[2] = Summary)
  /\ \A i \in a + 1 .. a + n : new[i] = msgs[Len(msgs) - n - a + i]

LEMMA PastedHeard ==
  ASSUME NEW msgs, msgs \in Seq(Message), NEW new, NEW a, NEW n, NEW k, Pasted(new, msgs, a, n),
         Heard(msgs, k)
  PROVE  Heard(new, k)
<1>1. Len(msgs) \in Nat /\ DOMAIN msgs = 1 .. Len(msgs) /\ DOMAIN new = 1 .. a + n
      /\ a \in 1 .. 2 /\ n \in 0 .. Len(msgs) - 1
  BY LenProperties DEF Pasted
<1>2. ASSUME NEW i \in 1 .. a + n, NEW c \in new[i].ids PROVE c[1] <= k
  <2>1. CASE i \in a + 1 .. a + n
    <3>1. new[i] = msgs[Len(msgs) - n - a + i] /\ Len(msgs) - n - a + i \in 1 .. Len(msgs)
      BY <1>1, <2>1 DEF Pasted
    <3> QED
      BY <1>1, <1>2, <3>1 DEF Heard
  <2>2. CASE i \in 1 .. a
    <3>1. new[i] \in {Brief, Summary}
      BY <1>1, <2>2 DEF Pasted
    <3> QED
      BY <1>2, <3>1 DEF Brief, Summary
  <2> QED
    BY <1>1, <2>1, <2>2
<1> QED
  BY <1>1, <1>2 DEF Heard

LEMMA PastedWhole ==
  ASSUME NEW msgs, Whole(msgs), NEW new, NEW a, NEW n, Pasted(new, msgs, a, n),
         n # 0 => msgs[Len(msgs) - n + 1].role # "results"
  PROVE  Whole(new)
<1> DEFINE d == Len(msgs) - n - a
<1>1. /\ msgs \in Seq(Message) /\ new \in Seq(Message)
      /\ Len(msgs) \in Nat /\ DOMAIN msgs = 1 .. Len(msgs) /\ DOMAIN new = 1 .. a + n
      /\ a \in 1 .. 2 /\ n \in 0 .. Len(msgs) - 1 /\ d \in Int /\ Len(new) = a + n
  BY LenProperties DEF Pasted, Whole
<1>2. \A i \in a + 1 .. a + n : new[i] = msgs[d + i] /\ d + i \in 2 .. Len(msgs)
  <2> TAKE i \in a + 1 .. a + n
  <2>1. new[i] = msgs[d + i]
    BY DEF Pasted
  <2>2. PICK l \in Nat : l = Len(msgs)
    BY <1>1
  <2>3. a \in Nat /\ n \in Nat /\ n <= l - 1
    BY <1>1, <2>2
  <2>4. (l - n - a) + i \in 2 .. l
    BY <2>3
  <2> QED
    BY <2>1, <2>2, <2>4
<1>3. \A i \in 1 .. a : new[i].role \notin {"assistant", "results"}
  <2>1. \A i \in 1 .. a : new[i] \in {Brief, Summary}
    BY <1>1 DEF Pasted
  <2> QED
    BY <2>1 DEF Brief, Summary
<1>8. d = Len(msgs) - n - a
  OBVIOUS
<1> HIDE DEF d
<1>4. new # << >> /\ new[1] = Brief
  BY <1>1 DEF Pasted
<1>5. ASSUME NEW i \in 1 .. a + n, new[i].role = "results"
      PROVE  i > 1 /\ new[i - 1] = Said(new[i].ids)
  <2>1. i \in a + 1 .. a + n
    BY <1>1, <1>3, <1>5
  <2>2. new[i] = msgs[d + i] /\ d + i \in 2 .. Len(msgs)
    BY <1>2, <2>1
  <2>3. i # a + 1
    BY <1>1, <1>5, <1>8, <2>1, <2>2
  <2>4. i - 1 \in a + 1 .. a + n /\ d + (i - 1) = (d + i) - 1
    BY <1>1, <2>1, <2>3
  <2>5. new[i - 1] = msgs[(d + i) - 1]
    BY <1>2, <2>4
  <2>6. d + i \in DOMAIN msgs /\ i > 1
    BY <1>1, <2>1, <2>2
  <2>7. msgs[(d + i) - 1] = Said(msgs[d + i].ids)
    BY <1>5, <2>2, <2>6 DEF Whole
  <2> QED
    BY <2>2, <2>5, <2>6, <2>7
<1>6. ASSUME NEW i \in 1 .. a + n, new[i].role = "assistant"
      PROVE  /\ new[i].ids # {} /\ \A c, e \in new[i].ids : c[1] = e[1]
             /\ i < Len(new) => new[i + 1] = Answered(new[i].ids)
             /\ i \in a + 1 .. a + n
  <2>1. i \in a + 1 .. a + n
    BY <1>1, <1>3, <1>6
  <2>2. new[i] = msgs[d + i] /\ d + i \in 2 .. Len(msgs) /\ d + i \in DOMAIN msgs
    BY <1>1, <1>2, <2>1
  <2>3. new[i].ids # {} /\ \A c, e \in new[i].ids : c[1] = e[1]
    BY <1>6, <2>2 DEF Whole
  <2>4. ASSUME i < Len(new) PROVE new[i + 1] = Answered(new[i].ids)
    <3>1. i + 1 \in a + 1 .. a + n /\ d + (i + 1) = (d + i) + 1 /\ d + i < Len(msgs)
      <4>1. PICK l \in Nat : l = Len(msgs)
        BY <1>1
      <4>2. a \in Nat /\ n \in Nat /\ d = (l - n) - a /\ i < a + n /\ d \in Int
        BY <1>1, <1>8, <2>4, <4>1
      <4>3. i + 1 \in a + 1 .. a + n /\ d + (i + 1) = (d + i) + 1 /\ d + i < l
        BY <2>1, <4>2
      <4> QED
        BY <4>1, <4>3
    <3>2. new[i + 1] = msgs[(d + i) + 1]
      BY <1>2, <3>1
    <3> QED
      BY <1>6, <2>2, <3>1, <3>2 DEF Whole
  <2> QED
    BY <2>1, <2>3, <2>4
<1>7. ASSUME NEW i \in 1 .. a + n, NEW j \in 1 .. a + n,
             new[i].role = "assistant", new[j].role = "assistant",
             new[i].ids \cap new[j].ids # {}
      PROVE  i = j
  <2>1. i \in a + 1 .. a + n /\ j \in a + 1 .. a + n
    BY <1>6, <1>7
  <2>2. /\ new[i] = msgs[d + i] /\ d + i \in DOMAIN msgs
        /\ new[j] = msgs[d + j] /\ d + j \in DOMAIN msgs
    BY <1>1, <1>2, <2>1
  <2>3. d + i = d + j
    BY <1>7, <2>2 DEF Whole
  <2> QED
    BY <1>1, <2>1, <2>3
<1> QED
  BY <1>1, <1>4, <1>5, <1>6, <1>7 DEF Whole

LEMMA KeptRefersToNothingBefore ==
  ASSUME ConversationConstants, NEW msgs, Whole(msgs)
  PROVE  /\ Kept(msgs) \in 0 .. Len(msgs) - 1
         /\ Kept(msgs) < Len(msgs) - 1 => ~HasOrphanToolResult(Last_n(msgs, Kept(msgs)))
<1> DEFINE enough == IF KeepRecent < Len(msgs) - 1 THEN KeepRecent ELSE Len(msgs) - 1
           whole == {n \in enough .. Len(msgs) - 1 : ~HasOrphanToolResult(Last_n(msgs, n))}
           least == CHOOSE n \in whole : \A k \in whole : n <= k
<1>1. Len(msgs) \in Nat \ {0} /\ KeepRecent \in Nat
  BY EmptySeq DEF Whole, ConversationConstants
<1>2. enough \in 0 .. Len(msgs) - 1
  BY <1>1
<1>3. Kept(msgs) = IF whole = {} THEN Len(msgs) - 1 ELSE least
  BY DEF Kept
<1>4. CASE whole = {}
  BY <1>1, <1>3, <1>4
<1>5. CASE whole # {}
  <2>1. \A n \in whole : n \in 0 .. Len(msgs) - 1 /\ ~HasOrphanToolResult(Last_n(msgs, n))
    BY <1>1, <1>2
  <2> HIDE DEF whole
  <2>2. whole \subseteq Nat
    BY <1>1, <2>1
  <2>3. \E n \in whole : \A k \in whole : n <= k
    BY <1>5, <2>2, Least
  <2>4. least \in whole
    BY <2>3
  <2> QED
    BY <1>3, <1>5, <2>1, <2>4
<1> QED
  BY <1>4, <1>5

LEMMA PastedLast ==
  ASSUME NEW msgs, msgs \in Seq(Message), NEW new, NEW a, NEW n, Pasted(new, msgs, a, n)
  PROVE  /\ n # 0 => Last(new) = Last(msgs)
         /\ n = 0 => Last(new) \in {Brief, Summary}
<1>1. /\ Len(msgs) \in Nat /\ a \in 1 .. 2 /\ n \in 0 .. Len(msgs) - 1
      /\ Len(new) = a + n
  BY LenProperties DEF Pasted
<1>2. CASE n # 0
  <2>1. a + n \in a + 1 .. a + n /\ Len(msgs) - n - a + (a + n) = Len(msgs)
    BY <1>1, <1>2
  <2>2. new[a + n] = msgs[Len(msgs) - n - a + (a + n)]
    BY <2>1 DEF Pasted
  <2> QED
    BY <1>1, <1>2, <2>1, <2>2 DEF Last
<1>3. CASE n = 0
  BY <1>1, <1>3 DEF Last, Pasted
<1> QED
  BY <1>2, <1>3

\* A conversation nothing is left over of is compacted to one of the kind.
LEMMA CompactKeeps ==
  ASSUME ConversationConstants, NEW msgs, NEW k, Whole(msgs), Heard(msgs, k),
         TrailingToolCalls(msgs) = {}, NEW short \in Compact(msgs)
  PROVE  Whole(short) /\ Heard(short, k) /\ Last(short).role # "assistant"
<1> DEFINE n == Kept(msgs)
           shorter == <<msgs[1], Summary>> \o Last_n(msgs, n)
<1>1. /\ msgs \in Seq(Message) /\ Len(msgs) \in Nat \ {0} /\ DOMAIN msgs = 1 .. Len(msgs)
      /\ msgs[1] = Brief
  BY EmptySeq, LenProperties DEF Whole
<1>2. Last(msgs).role # "assistant"
  BY <1>1 DEF Whole, TrailingToolCalls, Last
<1>3. short = msgs \/ (short = shorter /\ n < Len(msgs) - 1)
  BY DEF Compact
<1>4. CASE short = shorter /\ n < Len(msgs) - 1
  <2>1. n \in 0 .. Len(msgs) - 1 /\ ~HasOrphanToolResult(Last_n(msgs, n))
    BY <1>4, KeptRefersToNothingBefore
  <2>2. n \in 0 .. Len(msgs)
    BY <1>1, <2>1
  <2> HIDE DEF n
  <2>3. /\ Last_n(msgs, n) \in Seq(Message) /\ Len(Last_n(msgs, n)) = n
        /\ \A i \in 1 .. n : Last_n(msgs, n)[i] = msgs[Len(msgs) - n + i]
    <3>1. msgs \in Seq(Message) /\ n \in 0 .. Len(msgs)
      BY <1>1, <2>2
    <3> QED
      BY <3>1, LastOnes
  <2>4. Brief \in Message /\ Summary \in Message
    BY Wording
  <2> DEFINE head == <<Brief, Summary>>
  <2>5. head \in Seq(Message) /\ Len(head) = 2 /\ head[1] = Brief /\ head[2] = Summary
    BY <2>4
  <2> HIDE DEF head
  <2>6. shorter = head \o Last_n(msgs, n)
    BY <1>1 DEF head
  <2>7. /\ shorter \in Seq(Message) /\ Len(shorter) = 2 + n
        /\ \A i \in 1 .. 2 + n : shorter[i] = IF i <= 2 THEN head[i] ELSE Last_n(msgs, n)[i - 2]
    BY <2>3, <2>5, <2>6, ConcatProperties
  <2> HIDE DEF shorter
  <2>8. shorter[1] = Brief /\ shorter[2] = Summary
    BY <2>1, <2>5, <2>7
  <2>9. ASSUME NEW i \in 2 + 1 .. 2 + n PROVE shorter[i] = msgs[Len(msgs) - n - 2 + i]
    <3>1. i \in 1 .. 2 + n /\ ~(i <= 2) /\ i - 2 \in 1 .. n
          /\ Len(msgs) - n + (i - 2) = Len(msgs) - n - 2 + i
      BY <1>1, <2>1
    <3>2. Last_n(msgs, n)[i - 2] = msgs[Len(msgs) - n + (i - 2)]
      BY <2>3, <3>1
    <3> QED
      BY <2>7, <3>1, <3>2
  <2>10. Pasted(shorter, msgs, 2, n)
    BY <2>1, <2>7, <2>8, <2>9 DEF Pasted
  <2>11. n # 0 => msgs[Len(msgs) - n + 1].role # "results"
    <3> SUFFICES ASSUME n # 0
                 PROVE  msgs[Len(msgs) - n + 1].role # "results"
      OBVIOUS
    <3>1. PICK l \in Nat : l = Len(msgs)
      BY <1>1
    <3>2. n \in 1 .. l - 1
      BY <2>1, <3>1
    <3>3. n \in 1 .. Len(msgs) - 1 /\ Whole(msgs) /\ ~HasOrphanToolResult(Last_n(msgs, n))
      BY <2>1, <3>1, <3>2
    <3> QED
      BY <3>3, NoOrphanFirst
  <2>12. Whole(shorter) /\ Heard(shorter, k)
    BY <1>1, <2>10, <2>11, PastedWhole, PastedHeard
  <2>13. Last(shorter).role # "assistant"
    BY <1>1, <1>2, <2>10, PastedLast DEF Brief, Summary
  <2> QED
    BY <1>4, <2>12, <2>13
<1> QED
  BY <1>2, <1>3, <1>4

\* The checkpoint is kept as it is, or cut to the brief and a tail that fits.
LEMMA BoundShape ==
  ASSUME ConversationConstants, NEW cp \in Checkpoint, cp.messages # << >>,
         cp.messages[1] = Brief, NEW pending
  PROVE  LET new == BoundCheckpoint(cp, pending)
         IN /\ new \in Checkpoint /\ new.finished = cp.finished /\ new.spent = cp.spent
            /\ new.spendApproved = cp.spendApproved
            /\ \/ new = cp /\ CheckpointBytes(cp, pending) <= MaxBytes
               \/ \E n \in 0 .. Len(cp.messages) - 1 :
                    /\ Pasted(new.messages, cp.messages, 1, n)
                    /\ n # 0 => /\ ~HasOrphanToolResult(Last_n(cp.messages, n))
                                /\ CheckpointBytes(new, pending) <= MaxBytes
<1> DEFINE msgs == cp.messages
           rest == Tail(msgs)
           Trimmed(n) == [cp EXCEPT !.messages = <<msgs[1]>> \o Last_n(rest, n)]
           fit == {n \in 0 .. Len(rest) - 1 :
                     /\ ~HasOrphanToolResult(Last_n(rest, n))
                     /\ CheckpointBytes(Trimmed(n), pending) <= MaxBytes}
           most == IF fit = {} THEN 0 ELSE CHOOSE n \in fit : \A k \in fit : k <= n
           new == BoundCheckpoint(cp, pending)
<1>1. /\ msgs \in Seq(Message) /\ Len(msgs) \in Nat \ {0} /\ rest \in Seq(Message)
      /\ Len(rest) = Len(msgs) - 1
  <2>1. msgs \in Seq(Message)
    BY DEF Checkpoint
  <2> QED
    BY <2>1, EmptySeq, HeadTailProperties
<1>2. new = IF CheckpointBytes(cp, pending) <= MaxBytes THEN cp ELSE Trimmed(most)
  BY DEF BoundCheckpoint
<1>3. CASE CheckpointBytes(cp, pending) <= MaxBytes
  BY <1>2, <1>3
<1>4. CASE ~(CheckpointBytes(cp, pending) <= MaxBytes)
  <2>1. \A n \in fit : /\ n \in 0 .. Len(msgs) - 2 /\ ~HasOrphanToolResult(Last_n(rest, n))
                       /\ CheckpointBytes(Trimmed(n), pending) <= MaxBytes
    BY <1>1
  <2>2. most = 0 \/ most \in fit
    <3>1. CASE fit # {}
      <4>1. fit \subseteq 0 .. Len(msgs)
        BY <1>1, <2>1
      <4> HIDE DEF fit
      <4>2. \E n \in fit : \A k \in fit : k <= n
        BY <1>1, <3>1, <4>1, Most
      <4> QED
        BY <3>1, <4>2
    <3> QED
      BY <3>1
  <2> HIDE DEF fit, most
  <2>3. most \in 0 .. Len(msgs) - 1
    <3>1. CASE most = 0
      BY <1>1, <3>1
    <3>2. CASE most \in fit
      <4>1. most \in 0 .. Len(msgs) - 2
        BY <2>1, <3>2
      <4> QED
        BY <1>1, <4>1
    <3> QED
      BY <2>2, <3>1, <3>2
  <2>4. most # 0 => /\ ~HasOrphanToolResult(Last_n(rest, most))
                    /\ CheckpointBytes(Trimmed(most), pending) <= MaxBytes
    BY <2>1, <2>2
  <2>5. most \in 0 .. Len(msgs) /\ Last_n(rest, most) = Last_n(msgs, most)
    BY <1>1, <2>3, LastOfRest
  <2>6. /\ Last_n(msgs, most) \in Seq(Message) /\ Len(Last_n(msgs, most)) = most
        /\ \A i \in 1 .. most : Last_n(msgs, most)[i] = msgs[Len(msgs) - most + i]
    <3>1. msgs \in Seq(Message) /\ most \in 0 .. Len(msgs)
      BY <1>1, <2>5
    <3> HIDE DEF most, fit, rest
    <3> QED
      BY <3>1, LastOnes
  <2> DEFINE head == <<Brief>>
             cut == head \o Last_n(msgs, most)
  <2>7. head \in Seq(Message) /\ Len(head) = 1 /\ head[1] = Brief
    BY Wording
  <2> HIDE DEF head
  <2> DEFINE tail == Last_n(msgs, most)
  <2>15. tail \in Seq(Message) /\ Len(tail) = most
    BY <2>6
  <2> HIDE DEF tail
  <2>16. /\ head \o tail \in Seq(Message) /\ Len(head \o tail) = Len(head) + Len(tail)
         /\ \A i \in 1 .. Len(head) + Len(tail) :
              (head \o tail)[i] = IF i <= Len(head) THEN head[i] ELSE tail[i - Len(head)]
    BY <2>7, <2>15, ConcatProperties
  <2>8. /\ cut \in Seq(Message) /\ Len(cut) = 1 + most
        /\ \A i \in 1 .. 1 + most : cut[i] = IF i <= 1 THEN head[i] ELSE Last_n(msgs, most)[i - 1]
    BY <2>7, <2>15, <2>16 DEF tail
  <2>9. new = [cp EXCEPT !.messages = cut]
    BY <1>2, <1>4, <2>5 DEF head
  <2> HIDE DEF cut, new, msgs
  <2>10. /\ new \in Checkpoint /\ new.finished = cp.finished /\ new.spent = cp.spent
         /\ new.spendApproved = cp.spendApproved /\ new.messages = cut
    BY <2>8, <2>9 DEF Checkpoint
  <2>11. cut[1] = Brief
    BY <2>3, <2>7, <2>8
  <2>12. ASSUME NEW i \in 1 + 1 .. 1 + most PROVE cut[i] = msgs[Len(msgs) - most - 1 + i]
    <3>1. i \in 1 .. 1 + most /\ ~(i <= 1) /\ i - 1 \in 1 .. most
          /\ Len(msgs) - most + (i - 1) = Len(msgs) - most - 1 + i
      BY <1>1, <2>3
    <3>2. Last_n(msgs, most)[i - 1] = msgs[Len(msgs) - most + (i - 1)]
      BY <2>6, <3>1
    <3> QED
      BY <2>8, <3>1, <3>2
  <2>13. Pasted(cut, msgs, 1, most)
    BY <2>3, <2>8, <2>11, <2>12 DEF Pasted
  <2>14. most # 0 => /\ ~HasOrphanToolResult(Last_n(msgs, most))
                     /\ CheckpointBytes(new, pending) <= MaxBytes
    BY <1>2, <1>4, <2>4, <2>5
  <2> QED
    BY <2>3, <2>10, <2>13, <2>14 DEF msgs, new
<1> QED
  BY <1>3, <1>4

LEMMA BoundKeeps ==
  ASSUME ConversationConstants, NEW cp \in Checkpoint, cp.messages # << >>,
         cp.messages[1] = Brief, NEW pending
  PROVE  LET new == BoundCheckpoint(cp, pending)
         IN /\ new \in Checkpoint /\ new.finished = cp.finished /\ new.spent = cp.spent
            /\ new.spendApproved = cp.spendApproved
            /\ CheckpointBytes(cp, pending) <= MaxBytes => new = cp
            /\ \/ Last(new.messages) = Last(cp.messages)
                  /\ CheckpointBytes(new, pending) <= MaxBytes
               \/ new.messages = <<Brief>>
            /\ Whole(cp.messages) => Whole(new.messages)
            /\ \A k : Heard(cp.messages, k) => Heard(new.messages, k)
<1> DEFINE new == BoundCheckpoint(cp, pending)
<1>1. /\ new \in Checkpoint /\ new.finished = cp.finished /\ new.spent = cp.spent
      /\ new.spendApproved = cp.spendApproved
  BY BoundShape
<1>2. CheckpointBytes(cp, pending) <= MaxBytes => new = cp
  BY DEF BoundCheckpoint
<1>3. CASE new = cp /\ CheckpointBytes(cp, pending) <= MaxBytes
  BY <1>1, <1>3
<1>4. ASSUME NEW n \in 0 .. Len(cp.messages) - 1, Pasted(new.messages, cp.messages, 1, n),
             n # 0 => /\ ~HasOrphanToolResult(Last_n(cp.messages, n))
                      /\ CheckpointBytes(new, pending) <= MaxBytes
      PROVE  /\ \/ Last(new.messages) = Last(cp.messages)
                   /\ CheckpointBytes(new, pending) <= MaxBytes
                \/ new.messages = <<Brief>>
             /\ Whole(cp.messages) => Whole(new.messages)
             /\ \A k : Heard(cp.messages, k) => Heard(new.messages, k)
  <2> HIDE DEF new
  <2>1. cp.messages \in Seq(Message) /\ Len(cp.messages) \in Nat
    BY LenProperties DEF Checkpoint
  <2>2. Whole(cp.messages) /\ n # 0 => cp.messages[Len(cp.messages) - n + 1].role # "results"
    <3> SUFFICES ASSUME Whole(cp.messages), n # 0
                 PROVE  cp.messages[Len(cp.messages) - n + 1].role # "results"
      OBVIOUS
    <3>1. n \in 1 .. Len(cp.messages) - 1
      BY <2>1
    <3> QED
      BY <1>4, <3>1, NoOrphanFirst
  <2>3. Whole(cp.messages) => Whole(new.messages)
    BY <1>4, <2>2, PastedWhole
  <2>4. \A k : Heard(cp.messages, k) => Heard(new.messages, k)
    BY <1>4, <2>1, PastedHeard
  <2>5. n # 0 => Last(new.messages) = Last(cp.messages)
    BY <1>4, <2>1, PastedLast
  <2>6. n = 0 => new.messages = <<Brief>>
    <3> SUFFICES ASSUME n = 0 PROVE new.messages = <<Brief>>
      OBVIOUS
    <3>1. new.messages \in Seq(Message) /\ Len(new.messages) = 1 /\ new.messages[1] = Brief
      BY <1>4 DEF Pasted
    <3> DEFINE brief == <<Brief>>
    <3>2. brief \in Seq(Message) /\ Len(brief) = 1 /\ brief[1] = Brief
      BY Wording
    <3> HIDE DEF brief
    <3>3. new.messages = brief
      BY <3>1, <3>2, SeqEqual
    <3> QED
      BY <3>3 DEF brief
  <2> QED
    BY <1>4, <2>3, <2>4, <2>5, <2>6
<1>5. \/ new = cp /\ CheckpointBytes(cp, pending) <= MaxBytes
      \/ \E n \in 0 .. Len(cp.messages) - 1 :
           /\ Pasted(new.messages, cp.messages, 1, n)
           /\ n # 0 => /\ ~HasOrphanToolResult(Last_n(cp.messages, n))
                       /\ CheckpointBytes(new, pending) <= MaxBytes
  BY BoundShape
<1> HIDE DEF new
<1>6. /\ \/ Last(new.messages) = Last(cp.messages)
            /\ CheckpointBytes(new, pending) <= MaxBytes
         \/ new.messages = <<Brief>>
      /\ Whole(cp.messages) => Whole(new.messages)
      /\ \A k : Heard(cp.messages, k) => Heard(new.messages, k)
  BY <1>3, <1>4, <1>5
<1> QED
  BY <1>1, <1>2, <1>6 DEF new

\* The model's answer, and the results of its calls, are added to a conversation.
LEMMA SaidKeeps ==
  ASSUME NEW msgs, Whole(msgs), NEW k \in Nat, Heard(msgs, k), Last(msgs).role # "assistant",
         NEW calls \in SUBSET Call, \A c \in calls : c[1] = k + 1
  PROVE  LET new == Append(msgs, Said(calls))
         IN /\ new \in Seq(Message) /\ new # << >> /\ new[1] = Brief /\ Heard(new, k + 1)
            /\ Last(new) = Said(calls)
            /\ calls # {} => Whole(new)
<1> DEFINE new == Append(msgs, Said(calls))
           L == Len(msgs)
<1>1. /\ msgs \in Seq(Message) /\ L \in Nat \ {0} /\ DOMAIN msgs = 1 .. L /\ msgs[1] = Brief
  BY EmptySeq, LenProperties DEF Whole
<1>2. /\ new \in Seq(Message) /\ new # << >> /\ Len(new) = L + 1 /\ DOMAIN new = 1 .. L + 1
      /\ \A i \in 1 .. L : new[i] = msgs[i]
      /\ new[L + 1] = Said(calls)
  <2>1. Said(calls) \in Message
    BY Wording
  <2>2. /\ new \in Seq(Message) /\ new # << >> /\ Len(new) = L + 1
        /\ \A i \in 1 .. L : new[i] = msgs[i]
        /\ new[L + 1] = Said(calls)
    BY <1>1, <2>1, AppendProperties
  <2> QED
    BY <2>2, LenProperties
<1>8. L = Len(msgs)
  OBVIOUS
<1> HIDE DEF new, L
<1>3. new[1] = Brief /\ Last(new) = Said(calls)
  BY <1>1, <1>2 DEF Last
<1>4. Said(calls).role = "assistant" /\ Said(calls).ids = calls
  BY DEF Said
<1>5. \A i \in 1 .. L + 1 : i \in 1 .. L \/ i = L + 1
  BY <1>1
<1>6. Heard(new, k + 1)
  <2> SUFFICES ASSUME NEW i \in 1 .. L + 1, NEW c \in new[i].ids PROVE c[1] <= k + 1
    BY <1>2 DEF Heard
  <2>1. CASE i \in 1 .. L
    <3>1. c[1] <= k
      BY <1>1, <1>2, <2>1 DEF Heard
    <3>2. c \in Call
      BY <1>1, <1>2, <2>1, MessageParts, ElementOfSeq
    <3>3. c[1] \in Nat
      BY <3>2 DEF Call
    <3> QED
      BY <3>1, <3>3
  <2>2. CASE i = L + 1
    BY <1>2, <1>4, <2>2
  <2> QED
    BY <1>5, <2>1, <2>2
<1>7. ASSUME calls # {} PROVE Whole(new)
  <2>1. msgs[L].role # "assistant"
    BY DEF Last, L
  <2>2. ASSUME NEW i \in 1 .. L + 1, new[i].role = "results"
        PROVE  i > 1 /\ new[i - 1] = Said(new[i].ids)
    <3>1. i \in 1 .. L
      BY <1>2, <1>4, <1>5, <2>2
    <3>2. i > 1 /\ msgs[i - 1] = Said(msgs[i].ids)
      BY <1>1, <1>2, <2>2, <3>1 DEF Whole
    <3>3. i - 1 \in 1 .. L
      BY <1>1, <3>1, <3>2
    <3> QED
      BY <1>2, <3>1, <3>2, <3>3
  <2>3. ASSUME NEW i \in 1 .. L + 1, new[i].role = "assistant"
        PROVE  /\ new[i].ids # {} /\ \A c, d \in new[i].ids : c[1] = d[1]
               /\ i < Len(new) => new[i + 1] = Answered(new[i].ids)
    <3>1. CASE i \in 1 .. L
      <4>1. /\ msgs[i].ids # {} /\ \A c, d \in msgs[i].ids : c[1] = d[1]
            /\ i < Len(msgs) => msgs[i + 1] = Answered(msgs[i].ids)
        BY <1>1, <1>2, <2>3, <3>1 DEF Whole
      <4>2. i # L
        BY <1>2, <2>1, <2>3, <3>1
      <4>3. i < Len(msgs) /\ i + 1 \in 1 .. L
        <5>1. L \in Nat
          BY <1>1
        <5>2. i < L /\ i + 1 \in 1 .. L
          BY <3>1, <4>2, <5>1
        <5> QED
          BY <1>8, <5>2
      <4> QED
        BY <1>2, <3>1, <4>1, <4>3
    <3>2. CASE i = L + 1
      BY <1>1, <1>2, <1>4, <1>7, <3>2
    <3> QED
      BY <1>5, <3>1, <3>2
  <2>4. ASSUME NEW i \in 1 .. L, NEW c \in new[i].ids, c \in calls PROVE FALSE
    <3>1. c[1] <= k
      BY <1>1, <1>2, <2>4 DEF Heard
    <3>2. c[1] = k + 1
      BY <2>4
    <3> QED
      BY <3>1, <3>2
  <2>5. ASSUME NEW i \in 1 .. L + 1, NEW j \in 1 .. L + 1,
               new[i].role = "assistant", new[j].role = "assistant",
               new[i].ids \cap new[j].ids # {}
        PROVE  i = j
    <3>1. CASE i \in 1 .. L /\ j \in 1 .. L
      BY <1>1, <1>2, <2>5, <3>1 DEF Whole
    <3>2. CASE i = L + 1 /\ j \in 1 .. L
      BY <1>2, <1>4, <2>4, <2>5, <3>2
    <3>3. CASE i \in 1 .. L /\ j = L + 1
      BY <1>2, <1>4, <2>4, <2>5, <3>3
    <3> QED
      BY <1>5, <3>1, <3>2, <3>3
  <2> QED
    BY <1>2, <1>3, <2>2, <2>3, <2>5 DEF Whole
<1> QED
  BY <1>2, <1>3, <1>6, <1>7 DEF new

LEMMA AnsweredKeeps ==
  ASSUME NEW msgs, Whole(msgs), NEW k \in Nat, Heard(msgs, k),
         NEW calls \in SUBSET Call, Last(msgs) = Said(calls)
  PROVE  LET new == Append(msgs, Answered(calls))
         IN Whole(new) /\ Heard(new, k) /\ Last(new) = Answered(calls)
<1> DEFINE new == Append(msgs, Answered(calls))
           L == Len(msgs)
<1>1. /\ msgs \in Seq(Message) /\ L \in Nat \ {0} /\ DOMAIN msgs = 1 .. L /\ msgs[1] = Brief
      /\ msgs[L] = Said(calls)
  BY EmptySeq, LenProperties DEF Whole, Last
<1>2. /\ new \in Seq(Message) /\ new # << >> /\ Len(new) = L + 1 /\ DOMAIN new = 1 .. L + 1
      /\ \A i \in 1 .. L : new[i] = msgs[i]
      /\ new[L + 1] = Answered(calls)
  <2>1. Answered(calls) \in Message
    BY Wording
  <2>2. /\ new \in Seq(Message) /\ new # << >> /\ Len(new) = L + 1
        /\ \A i \in 1 .. L : new[i] = msgs[i]
        /\ new[L + 1] = Answered(calls)
    BY <1>1, <2>1, AppendProperties
  <2> QED
    BY <2>2, LenProperties
<1>3. L = Len(msgs)
  OBVIOUS
<1> HIDE DEF new, L
<1>4. new[1] = Brief /\ Last(new) = Answered(calls)
  BY <1>1, <1>2 DEF Last
<1>5. /\ Answered(calls).role = "results" /\ Answered(calls).ids = calls
      /\ Said(calls).role = "assistant" /\ Said(calls).ids = calls
  BY DEF Said, Answered
<1>6. \A i \in 1 .. L + 1 : i \in 1 .. L \/ i = L + 1
  BY <1>1
<1>7. ASSUME NEW i \in 1 .. L + 1, NEW c \in new[i].ids PROVE c[1] <= k
  <2>1. CASE i \in 1 .. L
    BY <1>1, <1>2, <1>7, <2>1 DEF Heard
  <2>2. CASE i = L + 1
    <3>1. c \in msgs[L].ids /\ L \in 1 .. L
      BY <1>1, <1>2, <1>5, <1>7, <2>2
    <3> QED
      BY <1>1, <3>1 DEF Heard
  <2> QED
    BY <1>6, <2>1, <2>2
<1>8. ASSUME NEW i \in 1 .. L + 1, new[i].role = "results"
      PROVE  i > 1 /\ new[i - 1] = Said(new[i].ids)
  <2>1. CASE i \in 1 .. L
    <3>1. i > 1 /\ msgs[i - 1] = Said(msgs[i].ids)
      BY <1>1, <1>2, <1>8, <2>1 DEF Whole
    <3>2. i - 1 \in 1 .. L
      BY <1>1, <2>1, <3>1
    <3> QED
      BY <1>2, <2>1, <3>1, <3>2
  <2>2. CASE i = L + 1
    <3>1. i > 1 /\ i - 1 = L /\ L \in 1 .. L
      BY <1>1, <2>2
    <3> QED
      BY <1>1, <1>2, <1>5, <2>2, <3>1
  <2> QED
    BY <1>6, <2>1, <2>2
<1>9. ASSUME NEW i \in 1 .. L + 1, new[i].role = "assistant"
      PROVE  /\ new[i].ids # {} /\ \A c, d \in new[i].ids : c[1] = d[1]
             /\ i < Len(new) => new[i + 1] = Answered(new[i].ids)
             /\ i \in 1 .. L
  <2>1. i \in 1 .. L
    BY <1>2, <1>5, <1>6, <1>9
  <2>2. /\ msgs[i].ids # {} /\ \A c, d \in msgs[i].ids : c[1] = d[1]
        /\ i < L => msgs[i + 1] = Answered(msgs[i].ids)
    BY <1>1, <1>2, <1>3, <1>9, <2>1 DEF Whole
  <2>3. CASE i = L
    BY <1>1, <1>2, <1>5, <2>1, <2>2, <2>3
  <2>4. CASE i < L
    <3>1. i + 1 \in 1 .. L
      BY <1>1, <2>1, <2>4
    <3> QED
      BY <1>2, <2>1, <2>2, <2>4, <3>1
  <2> QED
    BY <1>1, <2>1, <2>3, <2>4
<1>10. ASSUME NEW i \in 1 .. L + 1, NEW j \in 1 .. L + 1,
              new[i].role = "assistant", new[j].role = "assistant",
              new[i].ids \cap new[j].ids # {}
       PROVE  i = j
  <2>1. i \in 1 .. L /\ j \in 1 .. L
    BY <1>9, <1>10
  <2> QED
    BY <1>1, <1>2, <1>10, <2>1 DEF Whole
<1>11. Whole(new)
  BY <1>2, <1>4, <1>8, <1>9, <1>10 DEF Whole
<1>12. Heard(new, k)
  BY <1>2, <1>7 DEF Heard
<1> QED
  BY <1>4, <1>11, <1>12 DEF new

-------------------------------------------------------------------------------
(* What a conversation takes up.                                           *)

LEMMA CallsAreFinite ==
  ASSUME ConversationConstants, NEW calls, calls \subseteq Call \cup {SPEND}
  PROVE  IsFiniteSet(calls) /\ Cardinality(calls) \in Nat
<1>1. IsFiniteSet(Catalog \cup {FIND}) /\ IsFiniteSet(1 .. MaxAsks)
  <2>1. MaxAsks \in Int /\ 1 \in Int /\ IsFiniteSet(Catalog)
    BY DEF ConversationConstants
  <2> QED
    BY <2>1, FS_AddElement, FS_Interval
<1>2. IsFiniteSet(Call)
  BY <1>1, FS_Product DEF Call
<1>3. IsFiniteSet(Call \cup {SPEND})
  BY <1>2, FS_AddElement
<1> QED
  BY <1>3, FS_Subset, FS_CardinalityType

LEMMA SizeIsNumber ==
  ASSUME ConversationConstants, NEW m \in Message
  PROVE  Size(m) \in Nat
<1>1. Cardinality(m.ids) \in Nat
  BY MessageParts, CallsAreFinite
<1>2. ResultSize \in Nat
  BY DEF ConversationConstants
<1>3. ResultSize * Cardinality(m.ids) \in Nat
  BY <1>1, <1>2
<1>4. CASE m.role = "assistant"
  BY <1>1, <1>4 DEF Size
<1>5. CASE m.role = "results"
  BY <1>3, <1>5 DEF Size
<1>6. CASE m.role \notin {"assistant", "results"}
  BY <1>6 DEF Size
<1> QED
  BY <1>4, <1>5, <1>6

LEMMA TokensAreNumbers ==
  ASSUME ConversationConstants, NEW msgs \in Seq(Message)
  PROVE  ConversationTokens(msgs) \in Nat
<1> DEFINE L == Len(msgs)
           Sum(g, n) == IF n = 0 THEN 0 ELSE g[n - 1] + Size(msgs[n])
           Good(m) == \E g \in [0 .. m -> Nat] : \A n \in 0 .. m : g[n] = Sum(g, n)
           upTo == CHOOSE g : g = [n \in 0 .. L |-> Sum(g, n)]
<1>1. L \in Nat /\ \A n \in 1 .. L : Size(msgs[n]) \in Nat
  BY LenProperties, ElementOfSeq, SizeIsNumber
<1>2. ConversationTokens(msgs) = upTo[L]
  BY DEF ConversationTokens
<1> HIDE DEF L
<1>3. \A m \in 0 .. L : Good(m)
  <2> DEFINE bad == {m \in 0 .. L : ~Good(m)}
  <2> SUFFICES ASSUME bad # {} PROVE FALSE
    OBVIOUS
  <2> HIDE DEF bad
  <2>1. bad \subseteq Nat
    BY <1>1 DEF bad
  <2>2. PICK m \in bad : \A k \in bad : m <= k
    BY <2>1, Least
  <2>3. m \in 0 .. L /\ ~Good(m)
    BY <2>2 DEF bad
  <2>4. m # 0
    <3> SUFFICES ASSUME m = 0 PROVE Good(0)
      BY <2>3
    <3> DEFINE g == [n \in 0 .. 0 |-> 0]
    <3>1. g \in [0 .. 0 -> Nat] /\ \A n \in 0 .. 0 : g[n] = Sum(g, n)
      OBVIOUS
    <3> QED
      BY <3>1
  <2>5. m - 1 \in 0 .. L /\ m - 1 \notin bad
    BY <1>1, <2>2, <2>3, <2>4
  <2>6. Good(m - 1)
    BY <2>5 DEF bad
  <2>7. PICK g \in [0 .. m - 1 -> Nat] : \A n \in 0 .. m - 1 : g[n] = Sum(g, n)
    BY <2>6
  <2> DEFINE h == [n \in 0 .. m |-> IF n = m THEN g[m - 1] + Size(msgs[m]) ELSE g[n]]
  <2>8. g[m - 1] \in Nat /\ Size(msgs[m]) \in Nat /\ m \in Nat
    BY <1>1, <2>3, <2>4
  <2>9. h \in [0 .. m -> Nat]
    <3>1. \A n \in 0 .. m : n # m => n \in 0 .. m - 1
      BY <2>8
    <3> QED
      BY <2>8, <3>1
  <2>10. ASSUME NEW n \in 0 .. m PROVE h[n] = Sum(h, n)
    <3>1. CASE n = m
      <4>1. h[m] = g[m - 1] + Size(msgs[m])
        BY <2>8
      <4>2. m - 1 \in 0 .. m /\ m - 1 # m
        BY <2>4, <2>8
      <4>3. h[m - 1] = g[m - 1]
        BY <4>2
      <4> QED
        BY <2>4, <3>1, <4>1, <4>3
    <3>2. CASE n # m /\ n # 0
      <4>1. n \in 0 .. m - 1 /\ n - 1 \in 0 .. m /\ n - 1 # m
        BY <2>8, <3>2
      <4>2. h[n] = g[n] /\ h[n - 1] = g[n - 1] /\ g[n] = Sum(g, n)
        BY <2>7, <3>2, <4>1
      <4> QED
        BY <3>2, <4>2
    <3>3. CASE n # m /\ n = 0
      <4>1. 0 \in 0 .. m - 1 /\ 0 \in 0 .. m
        BY <2>4, <2>8
      <4>2. g[0] = 0 /\ h[0] = g[0]
        BY <2>7, <3>3, <4>1
      <4> QED
        BY <3>3, <4>2
    <3> QED
      BY <3>1, <3>2, <3>3
  <2> HIDE DEF h
  <2>11. Good(m)
    BY <2>9, <2>10
  <2> QED
    BY <2>3, <2>11
<1>10. Good(L)
  <2>1. L \in 0 .. L
    BY <1>1
  <2> HIDE DEF Good
  <2> QED
    BY <1>3, <2>1
<1>4. PICK g \in [0 .. L -> Nat] : \A n \in 0 .. L : g[n] = Sum(g, n)
  BY <1>10
<1>5. g = [n \in 0 .. L |-> Sum(g, n)]
  BY <1>4
<1>6. upTo = [n \in 0 .. L |-> Sum(upTo, n)]
  BY <1>5
<1> HIDE DEF upTo
<1>7. \A n \in 0 .. L : upTo[n] = Sum(upTo, n)
  BY <1>6
<1> DEFINE odd == {n \in 0 .. L : upTo[n] \notin Nat}
<1>8. odd = {}
  <2> SUFFICES ASSUME odd # {} PROVE FALSE
    OBVIOUS
  <2>1. odd \subseteq Nat
    BY <1>1
  <2> HIDE DEF odd
  <2>2. PICK m \in odd : \A k \in odd : m <= k
    BY <2>1, Least
  <2>3. m \in 0 .. L /\ upTo[m] \notin Nat
    BY <2>2 DEF odd
  <2>4. upTo[m] = Sum(upTo, m)
    BY <1>7, <2>3
  <2>5. m # 0
    BY <2>3, <2>4
  <2>6. m - 1 \in 0 .. L /\ m - 1 \notin odd
    BY <1>1, <2>2, <2>3, <2>5
  <2>7. upTo[m - 1] \in Nat /\ Size(msgs[m]) \in Nat
    <3>1. upTo[m - 1] \in Nat
      BY <2>6 DEF odd
    <3>2. m \in 1 .. L
      BY <1>1, <2>3, <2>5
    <3> QED
      BY <1>1, <3>1, <3>2
  <2> QED
    BY <2>3, <2>4, <2>5, <2>7
<1>9. L \in 0 .. L
  BY <1>1
<1> QED
  BY <1>2, <1>8, <1>9

-------------------------------------------------------------------------------
(* The run begins.                                                         *)

LEMMA NoneIsACheckpoint ==
  None \in Checkpoint /\ None.finished = "none" /\ None.spent = 0 /\ None.spendApproved = FALSE
BY EmptySeq DEF None, Checkpoint

LEMMA BriefIsWhole ==
  ASSUME NEW k \in Nat
  PROVE  /\ <<Brief>> \in Seq(Message) /\ Whole(<<Brief>>) /\ Heard(<<Brief>>, k)
         /\ TrailingToolCalls(<<Brief>>) = {} /\ Last(<<Brief>>) # Said({})
         /\ Last(<<Brief>>) = Brief /\ ToolUseIds(<<Brief>>) = {}
<1> DEFINE b == <<Brief>>
<1>1. b \in Seq(Message) /\ Len(b) = 1 /\ b[1] = Brief /\ DOMAIN b = 1 .. 1 /\ b # << >>
  BY Wording
<1>2. Brief.role = "brief" /\ Brief.ids = {} /\ Said({}).role = "assistant"
  BY DEF Brief, Said
<1> HIDE DEF b
<1>3. Last(b) = Brief
  BY <1>1 DEF Last
<1>4. \A i \in DOMAIN b : b[i] = Brief
  BY <1>1
<1>5. Whole(b)
  BY <1>1, <1>2, <1>4 DEF Whole
<1>6. Heard(b, k)
  BY <1>2, <1>4 DEF Heard
<1>7. TrailingToolCalls(b) = {}
  BY <1>2, <1>3 DEF TrailingToolCalls
<1>8. ToolUseIds(b) = {}
  BY <1>2, <1>4 DEF ToolUseIds, ToSet
<1> QED
  BY <1>1, <1>2, <1>3, <1>5, <1>6, <1>7, <1>8 DEF b

LEMMA SettledWords ==
  /\ "none" \notin SETTLED_REASONS /\ "no" \notin SETTLED_REASONS /\ "completed" \in SETTLED_REASONS
  /\ "awaiting_approval" \notin SETTLED_REASONS
  /\ {"step_limit", "loop_detected", "budget_exhausted", "spend_declined"}
       = SETTLED_REASONS \ {"completed"}
BY DEF SETTLED_REASONS

LEMMA FreshCounts ==
  ASSUME ConversationConstants
  PROVE  /\ Fresh \in [Catalog \cup {FIND} -> 0 .. LoopThreshold]
         /\ \A t \in Catalog \cup {FIND} : Fresh[t] < LoopThreshold
<1>1. LoopThreshold \in Nat /\ 0 < LoopThreshold
  BY DEF ConversationConstants
<1> QED
  BY <1>1 DEF Fresh

LEMMA StartsRight ==
  ASSUME ConversationConstants, Init
  PROVE  IInv
<1>1. /\ saved = None /\ phase = "idle" /\ messages = <<Brief>> /\ decisions = {} /\ made = {}
      /\ outcomes = {} /\ slips = 0 /\ paid = 0 /\ known = {} /\ asks = 0 /\ forgotten = {}
      /\ step = 0 /\ spent = 0 /\ spendApproved = FALSE /\ counts = Fresh /\ active = << >>
      /\ todo = {} /\ results = {}
  BY DEF Init, Fresh
<1>2. /\ saved \in Checkpoint /\ saved.finished = "none" /\ saved.spent = 0
  BY <1>1, NoneIsACheckpoint
<1>3. /\ MaxSteps \in Nat /\ MaxAsks \in Nat /\ AnswerCost \in Nat /\ MaxLoaded \in Nat
  BY DEF ConversationConstants
<1>4. AnswerCost * 0 = 0
  BY <1>3
<1>5. messages \in Seq(Message)
  BY <1>1, BriefIsWhole
<1>6. active \in Seq(Catalog) /\ IsInjective(active) /\ Len(active) <= MaxLoaded
  <2>1. active \in Seq(Catalog) /\ Len(active) = 0
    BY <1>1, EmptySeq
  <2>2. DOMAIN active = 1 .. 0
    BY <2>1, LenProperties
  <2> QED
    BY <1>3, <2>1, <2>2 DEF IsInjective
<1>7. TypeOK
  <2>1. \A t \in Catalog \cup {FIND} : counts[t] \in 0 .. LoopThreshold
    BY <1>1, FreshCounts
  <2> QED
    BY <1>1, <1>2, <1>3, <1>5, <1>6, <2>1 DEF TypeOK
<1>8. Bookkeeping
  <2>1. counts \in [Catalog \cup {FIND} -> 0 .. LoopThreshold]
    BY <1>1, FreshCounts
  <2>2. spent \in Nat /\ asks \in 0 .. MaxAsks /\ paid \in Nat /\ slips \in Nat
    BY <1>1, <1>3
  <2>3. ~Working /\ phase # "waiting" /\ phase # "performing" /\ spendApproved \in BOOLEAN
    BY <1>1 DEF Working
  <2> QED
    BY <1>1, <1>2, <2>1, <2>2, <2>3 DEF Bookkeeping
<1>9. Chat
  BY <1>1, <1>2 DEF Chat, Working
<1>10. Word
  BY <1>1 DEF Word, DecidedFirst
<1>11. Paid
  BY <1>1, <1>2, <1>3, <1>4 DEF Paid, Working, PaidWithinBudget
<1>12. Once
  BY <1>1 DEF Once
<1>13. Leftover
  BY <1>1, <1>2 DEF Leftover, Left, InHand
<1> QED
  BY <1>7, <1>8, <1>9, <1>10, <1>11, <1>12, <1>13 DEF IInv


\* The end of a whole conversation.
LEMMA WholeLast ==
  ASSUME NEW msgs, Whole(msgs)
  PROVE  /\ Last(msgs) \in Message /\ Last(msgs) # Said({})
         /\ Last(msgs).role = "assistant" => Last(msgs) = Said(TrailingToolCalls(msgs))
         /\ TrailingToolCalls(msgs) = {} <=> Last(msgs).role # "assistant"
         /\ TrailingToolCalls(msgs) \subseteq Call
         /\ TrailingToolCalls(msgs) \subseteq ToolUseIds(msgs)
         /\ \A c, d \in TrailingToolCalls(msgs) : c[1] = d[1]
<1> DEFINE m == Last(msgs)
<1>1. /\ msgs \in Seq(Message) /\ Len(msgs) \in DOMAIN msgs /\ m = msgs[Len(msgs)]
      /\ Len(msgs) \in 1 .. Len(msgs)
  <2>1. Len(msgs) \in Nat \ {0} /\ DOMAIN msgs = 1 .. Len(msgs) /\ msgs \in Seq(Message)
    BY EmptySeq, LenProperties DEF Whole
  <2> QED
    BY <2>1 DEF Last
<1>2. m \in Message
  BY <1>1, ElementOfSeq
<1>3. m.role = "assistant" => m.ids # {} /\ \A c, d \in m.ids : c[1] = d[1]
  BY <1>1 DEF Whole
<1>4. m \in ToSet(msgs)
  BY <1>1 DEF ToSet
<1> HIDE DEF m
<1>5. /\ m.ids \subseteq Call /\ (m.role = "assistant" => m = Said(m.ids))
      /\ Said({}).role = "assistant" /\ Said({}).ids = {}
  BY <1>2, MessageParts DEF Said
<1>6. TrailingToolCalls(msgs) = IF m.role = "assistant" THEN m.ids ELSE {}
  BY DEF TrailingToolCalls, m
<1>7. m.role = "assistant" => m.ids \subseteq ToolUseIds(msgs)
  BY <1>4 DEF ToolUseIds
<1>8. m # Said({})
  BY <1>3, <1>5
<1> QED
  BY <1>2, <1>3, <1>5, <1>6, <1>7, <1>8 DEF m

LEMMA StartKeeps ==
  ASSUME ConversationConstants, IInv, Start
  PROVE  IInv'
<1>1. TypeOK /\ Bookkeeping /\ Chat /\ Word /\ Paid /\ Once /\ Leftover
  BY DEF IInv
<1>2. /\ saved' = saved /\ decisions' = decisions /\ asks' = asks /\ paid' = paid
      /\ slips' = slips /\ made' = made /\ forgotten' = forgotten
      /\ known' = decisions /\ todo' = {} /\ results' = {} /\ step' = 0 /\ counts' = Fresh
      /\ active' = << >> /\ phase # "performing" /\ phase # "driving"
      /\ outcomes' = outcomes \cup ({saved.finished} \cap SETTLED_REASONS)
      /\ phase' = IF saved.finished \in SETTLED_REASONS THEN "over" ELSE "driving"
  BY DEF Start
<1>3. /\ saved \in Checkpoint /\ asks \in Nat /\ paid \in Nat /\ slips \in Nat
      /\ saved.messages \in Seq(Message) /\ saved.spent \in Nat /\ saved.spendApproved \in BOOLEAN
      /\ saved.finished \in SETTLED_REASONS \cup {"none", "no"}
      /\ (saved.finished = "none" => saved = None)
  BY <1>1 DEF Bookkeeping, Checkpoint
<1>4. /\ spent' = saved.spent /\ spendApproved' = saved.spendApproved
      /\ messages' = IF saved = None THEN <<Brief>> ELSE saved.messages
  BY NoneIsACheckpoint DEF Start, Adopt
<1>5. /\ messages' \in Seq(Message)
      /\ phase' = "driving" => Whole(messages') /\ Heard(messages', asks)
  <2>1. CASE saved = None
    BY <1>3, <1>4, <2>1, BriefIsWhole
  <2>2. CASE saved # None
    <3>1. phase' = "driving" => saved.finished \notin {"none", "completed"}
      BY <1>2, <1>3, <2>2, SettledWords
    <3> QED
      BY <1>1, <1>3, <1>4, <2>2, <3>1 DEF Chat
  <2> QED
    BY <2>1, <2>2
<1>6. phase' = "driving" => Left \subseteq TrailingToolCalls(messages')
  <2> SUFFICES ASSUME phase' = "driving" PROVE Left \subseteq TrailingToolCalls(messages')
    OBVIOUS
  <2>1. Left \subseteq InHand
    BY <1>1, <1>2, <1>3 DEF Leftover
  <2>2. CASE saved = None
    BY <2>1, <2>2, NoneIsACheckpoint DEF InHand
  <2>3. CASE saved # None
    BY <1>4, <2>1, <2>3 DEF InHand
  <2> QED
    BY <2>2, <2>3
<1>7. phase' = "over" /\ Last(messages') = Said({}) => Left = {}
  <2> SUFFICES ASSUME phase' = "over", Last(messages') = Said({}) PROVE Left = {}
    OBVIOUS
  <2>1. saved.finished \in SETTLED_REASONS /\ messages' = saved.messages
    BY <1>2, <1>4, NoneIsACheckpoint, SettledWords
  <2>2. saved.finished = "completed"
    <3>1. saved.finished # "none"
      BY <2>1, SettledWords
    <3> QED
      BY <1>1, <2>1, <3>1, WholeLast DEF Chat
  <2>3. Left \subseteq InHand /\ InHand = {}
    BY <1>1, <2>2 DEF Leftover, InHand
  <2> QED
    BY <2>3
<1>8. phase' = "driving" /\ TrailingToolCalls(messages') # {} =>
        saved.finished = "no" /\ messages' = saved.messages
  <2> SUFFICES ASSUME phase' = "driving", TrailingToolCalls(messages') # {}
               PROVE  saved.finished = "no" /\ messages' = saved.messages
    OBVIOUS
  <2>1. saved # None
    BY <1>3, <1>4, BriefIsWhole
  <2> QED
    BY <1>2, <1>3, <1>4, <2>1
<1>10. TypeOK'
  <2>1. active' \in Seq(Catalog) /\ IsInjective(active') /\ Len(active') <= MaxLoaded
    <3>1. active' \in Seq(Catalog) /\ Len(active') = 0 /\ MaxLoaded \in Nat
      BY <1>2, EmptySeq DEF ConversationConstants
    <3>2. DOMAIN active' = 1 .. 0
      BY <3>1, LenProperties
    <3> QED
      BY <3>1, <3>2 DEF IsInjective
  <2>2. \A t \in Catalog \cup {FIND} : counts'[t] \in 0 .. LoopThreshold
    BY <1>2, FreshCounts
  <2>3. step' \in 0 .. MaxSteps
    BY <1>2 DEF ConversationConstants
  <2>4. outcomes' \subseteq SETTLED_REASONS
    BY <1>1, <1>2 DEF TypeOK
  <2>5. phase' \in {"idle", "driving", "performing", "waiting", "over"}
    BY <1>2
  <2> QED
    BY <1>2, <1>3, <1>5, <2>1, <2>2, <2>3, <2>4, <2>5 DEF TypeOK
<1>11. Bookkeeping'
  <2>1. counts' \in [Catalog \cup {FIND} -> 0 .. LoopThreshold]
        /\ \A t \in Catalog \cup {FIND} : counts'[t] < LoopThreshold
    BY <1>2, FreshCounts
  <2>2. phase' # "performing" /\ phase' # "waiting"
        /\ (phase' = "driving" => saved.finished \notin SETTLED_REASONS)
    BY <1>2
  <2>3. asks \in 0 .. MaxAsks
    BY <1>1 DEF Bookkeeping
  <2> QED
    BY <1>2, <1>3, <1>4, <2>1, <2>2, <2>3 DEF Bookkeeping, Working
<1>12. Chat'
  BY <1>1, <1>2, <1>4, <1>5, <1>8 DEF Chat, Working
<1>13. Word'
  BY <1>1, <1>2 DEF Word, DecidedFirst, Ruled
<1>14. Paid'
  BY <1>1, <1>2, <1>4 DEF Paid, PaidWithinBudget, Working
<1>15. Once'
  BY <1>1, <1>2 DEF Once
<1>16. Leftover'
  <2>1. Left' = Left /\ InHand' = InHand /\ phase' # "waiting" /\ phase' # "performing"
    BY <1>2 DEF Left, InHand
  <2>2. HeldFor(InHand, saved.spent, saved.spendApproved)' =
          HeldFor(InHand, saved.spent, saved.spendApproved)
    BY <1>2, <2>1 DEF HeldFor, Ruled
  <2> QED
    BY <1>1, <1>2, <1>6, <1>7, <2>1, <2>2 DEF Leftover
<1> QED
  BY <1>10, <1>11, <1>12, <1>13, <1>14, <1>15, <1>16 DEF IInv

-------------------------------------------------------------------------------
(* The run ends, waits, or goes on to perform.                             *)

LEMMA Times ==
  ASSUME NEW a \in Nat, NEW n \in Nat
  PROVE  /\ a * n \in Nat /\ a * (n + 1) \in Nat /\ a * (1 + n) = a * (n + 1)
         /\ a * (n + 1) = a * n + a
OBVIOUS

LEMMA HeardMore ==
  ASSUME NEW msgs \in Seq(Message), NEW j \in Nat, NEW k \in Nat, j <= k, Heard(msgs, j)
  PROVE  Heard(msgs, k)
<1> SUFFICES ASSUME NEW i \in DOMAIN msgs, NEW c \in msgs[i].ids PROVE c[1] <= k
  BY DEF Heard
<1>1. c[1] <= j
  BY DEF Heard
<1>2. msgs[i] \in Message
  BY LenProperties, ElementOfSeq
<1>3. c[1] \in Nat
  BY <1>2, MessageParts DEF Call
<1> QED
  BY <1>1, <1>3

\* Progress was written down, or was not.
Noted(finished, msgs, cost, ok, pending) ==
  /\ saved' \in Checkpoint
  /\ \/ /\ slips' = slips
        /\ saved'.finished = finished /\ saved'.spent = cost /\ saved'.spendApproved = ok
        /\ ConversationTokens(msgs) + Cardinality(pending) <= MaxBytes => saved'.messages = msgs
        /\ \/ /\ Last(saved'.messages) = Last(msgs)
              /\ CheckpointBytes(saved', pending) <= MaxBytes
           \/ saved'.messages = <<Brief>>
        /\ Whole(msgs) => Whole(saved'.messages)
        /\ \A k : Heard(msgs, k) => Heard(saved'.messages, k)
        /\ forgotten' = forgotten \cup (pending \ (ToolUseIds(saved'.messages) \cup {SPEND}))
     \/ /\ slips' = slips + 1 /\ saved' = saved
        /\ forgotten' = forgotten \cup (pending \ {SPEND})

LEMMA SaveNotes ==
  ASSUME ConversationConstants, Bookkeeping,
         NEW msgs \in Seq(Message), msgs # << >>, msgs[1] = Brief,
         NEW cost \in Nat, NEW ok \in BOOLEAN, NEW finished \in SETTLED_REASONS \cup {"no"},
         NEW pending, SaveCheckpoint(msgs, cost, ok, finished, pending)
  PROVE  Noted(finished, msgs, cost, ok, pending)
<1> DEFINE cp == [finished |-> finished, messages |-> msgs, spent |-> cost, spendApproved |-> ok]
           new == BoundCheckpoint(cp, pending)
<1>1. /\ cp \in Checkpoint /\ cp.messages = msgs /\ cp.finished = finished /\ cp.spent = cost
      /\ cp.spendApproved = ok
      /\ CheckpointBytes(cp, pending) = ConversationTokens(msgs) + Cardinality(pending)
  BY DEF Checkpoint, CheckpointBytes
<1>2. \/ /\ saved' = new /\ slips' = slips
         /\ forgotten' = forgotten \cup (pending \ (ToolUseIds(new.messages) \cup {SPEND}))
      \/ /\ saved' = saved /\ slips' = slips + 1
         /\ forgotten' = forgotten \cup (pending \ {SPEND})
  BY DEF SaveCheckpoint
<1> HIDE DEF cp
<1>3. /\ new \in Checkpoint /\ new.finished = cp.finished /\ new.spent = cp.spent
      /\ new.spendApproved = cp.spendApproved
      /\ CheckpointBytes(cp, pending) <= MaxBytes => new = cp
      /\ \/ Last(new.messages) = Last(cp.messages)
            /\ CheckpointBytes(new, pending) <= MaxBytes
         \/ new.messages = <<Brief>>
      /\ Whole(cp.messages) => Whole(new.messages)
      /\ \A k : Heard(cp.messages, k) => Heard(new.messages, k)
  BY <1>1, BoundKeeps
<1> HIDE DEF new
<1>4. saved \in Checkpoint
  BY DEF Bookkeeping
<1>5. CASE /\ saved' = new /\ slips' = slips
           /\ forgotten' = forgotten \cup (pending \ (ToolUseIds(new.messages) \cup {SPEND}))
  BY <1>1, <1>3, <1>5 DEF Noted
<1>6. CASE /\ saved' = saved /\ slips' = slips + 1
           /\ forgotten' = forgotten \cup (pending \ {SPEND})
  BY <1>4, <1>6 DEF Noted
<1> QED
  BY <1>2, <1>5, <1>6

\* The worker knows of all that was paid, and the office of all but one answer.
Owed(cost) ==
  /\ cost \in Nat /\ paid' \in Nat /\ paid' <= cost + AnswerCost * slips
  /\ paid' <= saved.spent + AnswerCost * (slips + 1)
  /\ paid' = 0 \/ paid' < BudgetLimit + AnswerCost * (1 + slips)

\* What a worker has in hand before it has dealt with the calls, or the answer, that
\* the conversation ends with.
InTurn(msgs, cost) ==
  /\ phase = "driving" /\ Owed(cost)
  /\ step' = step /\ active' = active /\ known' = known /\ decisions' = decisions /\ made' = made
  /\ counts' \in [Catalog \cup {FIND} -> 0 .. LoopThreshold]
  /\ asks' \in asks .. MaxAsks
  /\ msgs \in Seq(Message) /\ msgs # << >> /\ msgs[1] = Brief /\ Heard(msgs, asks')
  /\ Left \subseteq TrailingToolCalls(msgs)

\* What the worker was paid for is known to the office, or has slipped.
LEMMA NotedPays ==
  ASSUME ConversationConstants, IInv, NEW msgs, NEW cost, Owed(cost), NEW finished, NEW ok,
         NEW pending, Noted(finished, msgs, cost, ok, pending)
  PROVE  /\ slips' \in Nat /\ paid' \in Nat /\ PaidWithinBudget'
         /\ paid' <= cost + AnswerCost * slips' /\ paid' <= saved'.spent + AnswerCost * slips'
<1>1. /\ AnswerCost \in Nat /\ BudgetLimit \in Nat /\ slips \in Nat /\ saved.spent \in Nat
      /\ paid' \in Nat /\ cost \in Nat
  BY DEF IInv, Bookkeeping, Checkpoint, ConversationConstants, Owed
<1>2. CASE slips' = slips /\ saved'.spent = cost
  BY <1>1, <1>2 DEF Owed, PaidWithinBudget
<1>3. CASE slips' = slips + 1 /\ saved' = saved
  <2>1. /\ AnswerCost * (1 + slips) \in Nat /\ AnswerCost * (1 + slips) = AnswerCost * (slips + 1)
        /\ AnswerCost * (1 + slips') = AnswerCost * (1 + slips) + AnswerCost
    BY <1>1, <1>3, Times
  <2>2. /\ slips' \in Nat /\ paid' <= saved'.spent + AnswerCost * slips'
        /\ paid' <= cost + AnswerCost * slips'
    <3>1. AnswerCost * slips \in Nat /\ AnswerCost * (slips + 1) = AnswerCost * slips + AnswerCost
      BY <1>1, Times
    <3> QED
      BY <1>1, <1>3, <3>1 DEF Owed
  <2>3. paid' = 0 \/ paid' < BudgetLimit + AnswerCost * (1 + slips')
    BY <1>1, <2>1 DEF Owed
  <2> QED
    BY <1>1, <2>2, <2>3 DEF PaidWithinBudget
<1> QED
  BY <1>2, <1>3 DEF Noted

\* And what it goes on with from there is whole.
LEMMA NotedIsWhole ==
  ASSUME ConversationConstants, IInv, NEW msgs, NEW cost, NEW finished, NEW ok,
         asks' \in asks .. MaxAsks, Heard(msgs, asks'),
         NEW pending, Noted(finished, msgs, cost, ok, pending),
         finished # "completed" => Whole(msgs)
  PROVE  saved'.finished \notin {"none", "completed"} =>
           Whole(saved'.messages) /\ Heard(saved'.messages, asks')
<1> SUFFICES ASSUME saved'.finished \notin {"none", "completed"}
             PROVE  Whole(saved'.messages) /\ Heard(saved'.messages, asks')
  OBVIOUS
<1>1. CASE slips' = slips /\ saved'.finished = finished
           /\ (Whole(msgs) => Whole(saved'.messages))
           /\ \A k : Heard(msgs, k) => Heard(saved'.messages, k)
  BY <1>1
<1>2. CASE slips' = slips + 1 /\ saved' = saved
  <2>1. Whole(saved.messages) /\ Heard(saved.messages, asks)
    BY <1>2 DEF IInv, Chat
  <2>2. asks \in Nat /\ asks' \in Nat /\ asks <= asks'
    BY DEF IInv, Bookkeeping
  <2>3. saved.messages \in Seq(Message)
    BY <2>1 DEF Whole
  <2> QED
    BY <1>2, <2>1, <2>2, <2>3, HeardMore
<1> QED
  BY <1>1, <1>2 DEF Noted

LEMMA EndKeeps ==
  ASSUME ConversationConstants, IInv, NEW msgs, NEW cost, InTurn(msgs, cost),
         NEW reason \in SETTLED_REASONS, NEW ok \in BOOLEAN,
         IF reason = "completed" THEN Left = {} ELSE Whole(msgs),
         phase' = "over", messages' = msgs, spent' = cost, spendApproved' = ok,
         outcomes' = outcomes \cup {reason}, todo' = {}, results' = {},
         Noted(reason, msgs, cost, ok, {})
  PROVE  IInv'
<1>1. TypeOK /\ Bookkeeping /\ Chat /\ Word /\ Paid /\ Once /\ Leftover
  BY DEF IInv
<1>2. /\ step' = step /\ active' = active /\ known' = known /\ decisions' = decisions /\ made' = made
      /\ counts' \in [Catalog \cup {FIND} -> 0 .. LoopThreshold]
      /\ asks' \in 0 .. MaxAsks /\ cost \in Nat /\ msgs \in Seq(Message) /\ phase = "driving"
      /\ saved.finished \notin SETTLED_REASONS
  <2>1. asks \in Nat
    BY <1>1 DEF Bookkeeping
  <2> QED
    BY <1>1, <2>1 DEF InTurn, Owed, Bookkeeping, Working
<1>3. saved' \in Checkpoint /\ forgotten' = forgotten
  BY DEF Noted
<1>4. \/ slips' = slips /\ saved'.finished = reason
      \/ slips' = slips + 1 /\ saved' = saved
  BY DEF Noted
<1>5. TypeOK'
  <2>1. saved'.finished \in SETTLED_REASONS \cup {"none", "no"}
    BY <1>3 DEF Checkpoint
  <2>2. \A t \in Catalog \cup {FIND} : counts'[t] \in 0 .. LoopThreshold
    BY <1>2
  <2>3. outcomes' \subseteq SETTLED_REASONS
    BY <1>1 DEF TypeOK
  <2> QED
    BY <1>1, <1>2, <2>1, <2>2, <2>3 DEF TypeOK
<1>6. Bookkeeping'
  <2>1. saved'.finished = "none" => saved' = None
    BY <1>1, <1>4, SettledWords DEF Bookkeeping
  <2>2. slips' \in Nat /\ paid' \in Nat
    BY NotedPays DEF InTurn
  <2>3. known' \subseteq decisions' /\ ~(phase' \in {"driving", "performing"})
        /\ phase' # "performing" /\ phase' # "waiting"
    BY <1>1, <1>2 DEF Bookkeeping
  <2> QED
    BY <1>2, <1>3, <2>1, <2>2, <2>3 DEF Bookkeeping, Working
<1>7. Chat'
  <2>1. saved'.finished \notin {"none", "completed"} =>
          Whole(saved'.messages) /\ Heard(saved'.messages, asks')
    BY NotedIsWhole DEF InTurn
  <2> QED
    BY <2>1 DEF Chat, Working
<1>8. Word'
  BY <1>1, <1>2 DEF Word, DecidedFirst
<1>9. Paid'
  BY NotedPays DEF Paid, Working, InTurn
<1>10. Once'
  <2> SUFFICES ASSUME slips' = 0 PROVE outcomes' \subseteq {saved'.finished}
    BY DEF Once
  <2>1. slips = 0 /\ saved'.finished = reason
    BY <1>1, <1>4 DEF Bookkeeping
  <2>2. outcomes = {}
    BY <1>1, <1>2, <2>1 DEF Once, TypeOK
  <2> QED
    BY <2>1, <2>2
<1>11. Leftover'
  <2>1. Left' = Left
    BY <1>2, <1>3 DEF Left
  <2>2. saved'.finished \in SETTLED_REASONS \ {"completed"} \/ Left \subseteq InHand'
    <3>1. CASE saved'.finished = reason
      BY <3>1
    <3>2. CASE saved' = saved
      BY <1>1, <3>2 DEF Leftover, InHand
    <3> QED
      BY <1>4, <3>1, <3>2
  <2>3. Last(messages') = Said({}) => Left = {}
    BY WholeLast
  <2>4. InHand' # {} => CheckpointBytes(saved', HeldFor(InHand, saved.spent, saved.spendApproved)')
                          <= MaxBytes
    <3>1. CASE saved'.finished = reason
      BY <3>1, SettledWords DEF InHand
    <3>2. CASE saved' = saved
      <4>1. InHand' = InHand
        BY <3>2 DEF InHand
      <4>2. HeldFor(InHand, saved.spent, saved.spendApproved)' =
              HeldFor(InHand, saved.spent, saved.spendApproved)
        BY <1>2, <3>2, <4>1 DEF HeldFor, Ruled
      <4> QED
        BY <1>1, <3>2, <4>1, <4>2 DEF Leftover
    <3> QED
      BY <1>4, <3>1, <3>2
  <2>5. phase' # "driving" /\ phase' # "performing" /\ phase' # "waiting"
    OBVIOUS
  <2> QED
    BY <2>1, <2>2, <2>3, <2>4, <2>5 DEF Leftover
<1> QED
  BY <1>5, <1>6, <1>7, <1>8, <1>9, <1>10, <1>11 DEF IInv

LEMMA WaitKeeps ==
  ASSUME ConversationConstants, IInv, NEW msgs, NEW cost, InTurn(msgs, cost), Whole(msgs),
         NEW ok \in BOOLEAN, NEW pending, pending = HeldFor(TrailingToolCalls(msgs), cost, ok),
         Left # {} => ConversationTokens(msgs) + Cardinality(pending) <= MaxBytes,
         phase' = "waiting", messages' = msgs, spent' = cost, spendApproved' = ok,
         outcomes' = outcomes, todo' = {}, results' = {},
         Noted("no", msgs, cost, ok, pending)
  PROVE  IInv'
<1>1. TypeOK /\ Bookkeeping /\ Chat /\ Word /\ Paid /\ Once /\ Leftover
  BY DEF IInv
<1>2. /\ step' = step /\ active' = active /\ known' = known /\ decisions' = decisions /\ made' = made
      /\ counts' \in [Catalog \cup {FIND} -> 0 .. LoopThreshold]
      /\ asks' \in 0 .. MaxAsks /\ asks' \in asks .. MaxAsks
      /\ cost \in Nat /\ msgs \in Seq(Message) /\ phase = "driving"
      /\ Heard(msgs, asks') /\ saved.finished \notin SETTLED_REASONS
      /\ Left \subseteq TrailingToolCalls(msgs)
  <2>1. asks \in Nat
    BY <1>1 DEF Bookkeeping
  <2> QED
    BY <1>1, <2>1 DEF InTurn, Owed, Bookkeeping, Working
<1>3. saved' \in Checkpoint
  BY DEF Noted
<1>4. \/ slips' = slips /\ saved'.finished = "no"
      \/ slips' = slips + 1 /\ saved' = saved
  BY DEF Noted
<1>5. TypeOK'
  <2>1. saved'.finished \in SETTLED_REASONS \cup {"none", "no"}
    BY <1>3 DEF Checkpoint
  <2>2. \A t \in Catalog \cup {FIND} : counts'[t] \in 0 .. LoopThreshold
    BY <1>2
  <2> QED
    BY <1>1, <1>2, <2>1, <2>2 DEF TypeOK
<1>6. Bookkeeping'
  <2>1. saved'.finished = "none" => saved' = None
    BY <1>1, <1>4 DEF Bookkeeping
  <2>2. slips' \in Nat /\ paid' \in Nat
    BY NotedPays DEF InTurn
  <2>3. known' \subseteq decisions' /\ ~(phase' \in {"driving", "performing"})
        /\ phase' # "performing"
    BY <1>1, <1>2 DEF Bookkeeping
  <2>4. saved'.finished \notin SETTLED_REASONS
    BY <1>2, <1>4, SettledWords
  <2> QED
    BY <1>2, <1>3, <2>1, <2>2, <2>3, <2>4 DEF Bookkeeping, Working
<1>7. Chat'
  <2>1. saved'.finished \notin {"none", "completed"} =>
          Whole(saved'.messages) /\ Heard(saved'.messages, asks')
    BY <1>2, NotedIsWhole
  <2> QED
    BY <1>2, <2>1 DEF Chat, Working
<1>8. Word'
  BY <1>1, <1>2 DEF Word, DecidedFirst
<1>9. Paid'
  BY NotedPays DEF Paid, Working, InTurn
<1>10. Once'
  <2> SUFFICES ASSUME slips' = 0 PROVE outcomes' \subseteq {saved'.finished}
    BY DEF Once
  <2>1. slips = 0
    BY <1>1, <1>4 DEF Bookkeeping
  <2>2. outcomes = {}
    BY <1>1, <1>2, <2>1 DEF Once, TypeOK
  <2> QED
    BY <2>2
<1>11. Leftover'
  <2>1. /\ forgotten \subseteq forgotten' /\ Left' \subseteq Left
        /\ phase' # "driving" /\ phase' # "performing" /\ phase' # "over"
        /\ TrailingToolCalls(msgs) \subseteq Call /\ TrailingToolCalls(msgs) \subseteq ToolUseIds(msgs)
    BY <1>2, WholeLast DEF Noted, Left
  <2>2. ASSUME NEW c \in TrailingToolCalls(msgs), c[2] \in Gated, ~Ruled(c)'
        PROVE  c \in pending \ {SPEND}
    <3>1. c \in pending
      BY <1>2, <2>2 DEF HeldFor, Ruled
    <3>2. c # SPEND
      BY <2>1 DEF Call, SPEND
    <3> QED
      BY <3>1, <3>2
  <2>3. CASE slips' = slips + 1 /\ saved' = saved /\ forgotten' = forgotten \cup (pending \ {SPEND})
    <3>1. InHand' = InHand
      BY <2>3 DEF InHand
    <3>2. HeldFor(InHand, saved.spent, saved.spendApproved)' =
            HeldFor(InHand, saved.spent, saved.spendApproved)
      BY <1>2, <2>3, <3>1 DEF HeldFor, Ruled
    <3>3. Left' \subseteq InHand'
      BY <1>1, <1>2, <2>1, <3>1 DEF Leftover
    <3>4. \A c \in TrailingToolCalls(msgs) : c[2] \in Gated /\ ~Ruled(c)' => c \in forgotten'
      BY <2>2, <2>3
    <3> QED
      BY <1>1, <2>1, <2>3, <3>1, <3>2, <3>3, <3>4 DEF Leftover
  <2>4. CASE /\ saved'.finished = "no" /\ saved'.spent = cost /\ saved'.spendApproved = ok
             /\ ConversationTokens(msgs) + Cardinality(pending) <= MaxBytes => saved'.messages = msgs
             /\ \/ /\ Last(saved'.messages) = Last(msgs)
                   /\ CheckpointBytes(saved', pending) <= MaxBytes
                \/ saved'.messages = <<Brief>>
             /\ forgotten' = forgotten \cup (pending \ (ToolUseIds(saved'.messages) \cup {SPEND}))
    <3>1. InHand' = TrailingToolCalls(saved'.messages)
      BY <2>4 DEF InHand
    <3>2. Left' \subseteq InHand'
      BY <1>2, <2>1, <2>4, <3>1
    <3>3. CASE saved'.messages = <<Brief>>
      <4>1. ToolUseIds(saved'.messages) = {} /\ InHand' = {}
        BY <3>1, <3>3, BriefIsWhole
      <4>2. \A c \in TrailingToolCalls(msgs) : c[2] \in Gated /\ ~Ruled(c)' => c \in forgotten'
        BY <2>2, <2>4, <4>1
      <4> QED
        BY <2>1, <3>2, <4>1, <4>2 DEF Leftover
    <3>4. CASE Last(saved'.messages) = Last(msgs) /\ CheckpointBytes(saved', pending) <= MaxBytes
      <4>1. InHand' = TrailingToolCalls(msgs)
        BY <3>1, <3>4 DEF TrailingToolCalls
      <4>2. HeldFor(InHand, saved.spent, saved.spendApproved)' = pending
        BY <1>2, <2>4, <4>1 DEF HeldFor, Ruled
      <4> QED
        BY <2>1, <3>2, <3>4, <4>1, <4>2 DEF Leftover
    <3> QED
      BY <2>4, <3>3, <3>4
  <2> QED
    BY <2>3, <2>4 DEF Noted
<1> QED
  BY <1>5, <1>6, <1>7, <1>8, <1>9, <1>10, <1>11 DEF IInv

LEMMA BeginKeeps ==
  ASSUME ConversationConstants, IInv, NEW msgs, NEW cost, InTurn(msgs, cost), Whole(msgs),
         Last(msgs).role = "assistant", step < MaxSteps,
         \A c \in TrailingToolCalls(msgs) : c[2] \in Gated => Ruled(c),
         \A t \in Catalog \cup {FIND} : counts'[t] < LoopThreshold,
         phase' = "performing", messages' = msgs, spent' = cost, spendApproved' \in BOOLEAN,
         todo' = TrailingToolCalls(msgs), results' = {},
         UNCHANGED <<saved, outcomes, slips, forgotten>>
  PROVE  IInv'
<1>1. TypeOK /\ Bookkeeping /\ Chat /\ Word /\ Paid /\ Once /\ Leftover
  BY DEF IInv
<1>2. /\ step' = step /\ active' = active /\ known' = known /\ decisions' = decisions /\ made' = made
      /\ counts' \in [Catalog \cup {FIND} -> 0 .. LoopThreshold]
      /\ asks' \in 0 .. MaxAsks /\ asks \in Nat /\ asks' \in Nat /\ asks <= asks'
      /\ cost \in Nat /\ msgs \in Seq(Message) /\ phase = "driving"
      /\ Heard(msgs, asks') /\ saved.finished \notin SETTLED_REASONS /\ known = decisions
      /\ Left \subseteq TrailingToolCalls(msgs) /\ Owed(cost) /\ saved \in Checkpoint
  <2>1. asks \in Nat
    BY <1>1 DEF Bookkeeping
  <2> QED
    BY <1>1, <2>1 DEF InTurn, Owed, Bookkeeping, Working
<1>3. saved' = saved /\ outcomes' = outcomes /\ slips' = slips /\ forgotten' = forgotten
  OBVIOUS
<1>4. TrailingToolCalls(msgs) \subseteq Call /\ Last(msgs) = Said(TrailingToolCalls(msgs))
  BY WholeLast
<1>5. TypeOK'
  <2>1. \A t \in Catalog \cup {FIND} : counts'[t] \in 0 .. LoopThreshold
    BY <1>2
  <2> QED
    BY <1>1, <1>2, <1>3, <1>4, <2>1 DEF TypeOK
<1>6. Bookkeeping'
  <2>1. paid' \in Nat
    BY <1>2 DEF Owed
  <2> QED
    BY <1>1, <1>2, <1>3, <2>1 DEF Bookkeeping, Working
<1>7. Chat'
  <2>1. saved.finished \notin {"none", "completed"} =>
          Whole(saved.messages) /\ Heard(saved.messages, asks')
    <3> SUFFICES ASSUME saved.finished \notin {"none", "completed"}
                 PROVE  Whole(saved.messages) /\ Heard(saved.messages, asks')
      OBVIOUS
    <3>1. Whole(saved.messages) /\ Heard(saved.messages, asks) /\ saved.messages \in Seq(Message)
      BY <1>1 DEF Chat, Whole
    <3> QED
      BY <1>2, <3>1, HeardMore
  <2>2. todo' \cup results' = TrailingToolCalls(msgs)
    OBVIOUS
  <2> QED
    BY <1>2, <1>3, <1>4, <2>1, <2>2 DEF Chat, Working
<1>8. Word'
  BY <1>1, <1>2 DEF Word, DecidedFirst, Ruled
<1>9. Paid'
  <2>1. /\ AnswerCost \in Nat /\ BudgetLimit \in Nat /\ slips \in Nat
    BY <1>1 DEF Bookkeeping, ConversationConstants
  <2> QED
    BY <1>2, <1>3, <2>1 DEF Paid, Working, PaidWithinBudget, Owed
<1>10. Once'
  BY <1>1, <1>3 DEF Once
<1>11. Leftover'
  <2>1. Left' = Left /\ InHand' = InHand
    BY <1>2, <1>3 DEF Left, InHand
  <2>2. HeldFor(InHand, saved.spent, saved.spendApproved)' =
          HeldFor(InHand, saved.spent, saved.spendApproved)
    BY <1>2, <1>3, <2>1 DEF HeldFor, Ruled
  <2> QED
    BY <1>1, <1>2, <1>3, <2>1, <2>2 DEF Leftover
<1> QED
  BY <1>5, <1>6, <1>7, <1>8, <1>9, <1>10, <1>11 DEF IInv

-------------------------------------------------------------------------------
(* The actions.                                                            *)

LEMMA FinishEnds ==
  ASSUME ConversationConstants, IInv, NEW msgs, NEW cost, InTurn(msgs, cost),
         NEW reason \in SETTLED_REASONS, NEW ok \in BOOLEAN,
         IF reason = "completed" THEN Left = {} ELSE Whole(msgs),
         Finish(reason, msgs, cost, ok, {})
  PROVE  IInv'
<1>1. /\ phase' = "over" /\ messages' = msgs /\ spent' = cost /\ spendApproved' = ok
      /\ outcomes' = outcomes \cup {reason} /\ todo' = {} /\ results' = {}
      /\ SaveCheckpoint(msgs, cost, ok, reason, {})
  BY DEF Finish, Settled, SETTLED_REASONS
<1>2. Noted(reason, msgs, cost, ok, {})
  BY <1>1, SaveNotes DEF IInv, InTurn, Owed
<1> QED
  BY <1>1, <1>2, EndKeeps

\* One answer calls a tool once.
LEMMA CountsStayTyped ==
  ASSUME ConversationConstants, IInv, phase = "driving", NEW calls \in SUBSET Call,
         \A c, d \in calls : c[1] = d[1],
         counts' = [t \in DOMAIN counts |-> counts[t] + Cardinality({c \in calls : c[2] = t})]
  PROVE  counts' \in [Catalog \cup {FIND} -> 0 .. LoopThreshold]
<1>1. /\ counts \in [Catalog \cup {FIND} -> 0 .. LoopThreshold] /\ LoopThreshold \in Nat
      /\ \A t \in Catalog \cup {FIND} : counts[t] < LoopThreshold
  BY DEF IInv, Bookkeeping, Working, ConversationConstants
<1>2. ASSUME NEW t \in Catalog \cup {FIND}
      PROVE  Cardinality({c \in calls : c[2] = t}) \in 0 .. 1
  <2> DEFINE S == {c \in calls : c[2] = t}
  <2>1. \A c, d \in S : c = d
    <3> SUFFICES ASSUME NEW c \in S, NEW d \in S PROVE c = d
      OBVIOUS
    <3>1. c \in Call /\ d \in Call /\ c[1] = d[1] /\ c[2] = d[2]
      OBVIOUS
    <3> QED
      BY <3>1 DEF Call
  <2> HIDE DEF S
  <2>2. S = {} \/ \E c \in S : S = {c}
    BY <2>1
  <2>3. Cardinality({}) = 0 /\ \A c : Cardinality({c}) = 1
    BY FS_EmptySet, FS_Singleton
  <2>4. Cardinality(S) \in {0, 1}
    BY <2>2, <2>3
  <2>5. Cardinality(S) \in 0 .. 1
    BY <2>4
  <2> QED
    BY <2>5 DEF S
<1>3. ASSUME NEW t \in Catalog \cup {FIND}
      PROVE  counts[t] + Cardinality({c \in calls : c[2] = t}) \in 0 .. LoopThreshold
  BY <1>1, <1>2, SMTT(30)
<1> QED
  BY <1>1, <1>3

LEMMA TakeKeeps ==
  ASSUME ConversationConstants, IInv, NEW msgs, NEW cost, NEW calls,
         Whole(msgs), Last(msgs) = Said(calls), calls = TrailingToolCalls(msgs), step < MaxSteps,
         phase = "driving",
         counts' \in [Catalog \cup {FIND} -> 0 .. LoopThreshold] => InTurn(msgs, cost),
         Left # {} => ConversationTokens(msgs)
                        + Cardinality(HeldFor(calls, cost, spendApproved)) <= MaxBytes,
         Take(calls, msgs, cost)
  PROVE  IInv'
<1> DEFINE now == [t \in DOMAIN counts |-> counts[t] + Cardinality({c \in calls : c[2] = t})]
           pending == PendingApprovalFor(calls, cost, spendApproved)
<1>1. calls \subseteq Call /\ \A c, d \in calls : c[1] = d[1]
  BY WholeLast
<1>2. counts' = now
  BY DEF Take
<1>3. now \in [Catalog \cup {FIND} -> 0 .. LoopThreshold] /\ InTurn(msgs, cost)
  BY <1>1, <1>2, CountsStayTyped
<1>4. pending = HeldFor(calls, cost, spendApproved) /\ spendApproved \in BOOLEAN
      /\ DOMAIN counts = Catalog \cup {FIND}
  <2>1. known = decisions /\ spendApproved \in BOOLEAN /\ DOMAIN counts = Catalog \cup {FIND}
    BY DEF IInv, Bookkeeping, Working
  <2> QED
    BY <2>1 DEF PendingApprovalFor, HeldFor, DecidedAtAll, Decided, Ruled
<1> HIDE DEF pending
<1>5. CASE Looped(now) /\ Finish("loop_detected", msgs, cost, spendApproved, {})
  BY <1>3, <1>4, <1>5, FinishEnds, SettledWords
<1>6. CASE Finish("spend_declined", msgs, cost, spendApproved, {})
  BY <1>3, <1>4, <1>6, FinishEnds, SettledWords
<1>7. CASE Finish("awaiting_approval", msgs, cost, spendApproved, pending)
  <2>1. /\ phase' = "waiting" /\ messages' = msgs /\ spent' = cost
        /\ spendApproved' = spendApproved /\ outcomes' = outcomes
        /\ todo' = {} /\ results' = {}
        /\ SaveCheckpoint(msgs, cost, spendApproved, "no", pending)
    BY <1>7, SettledWords DEF Finish, Settled
  <2>2. Noted("no", msgs, cost, spendApproved, pending)
    BY <1>3, <1>4, <2>1, SaveNotes DEF IInv, InTurn, Owed
  <2> QED
    BY <1>3, <1>4, <2>1, <2>2, WaitKeeps
<1>8. CASE /\ ~Looped(now) /\ pending = {}
           /\ phase' = "performing" /\ todo' = calls /\ results' = {}
           /\ messages' = msgs /\ spent' = cost
           /\ spendApproved' = (spendApproved \/ Decided(SPEND, "approved"))
           /\ UNCHANGED <<saved, outcomes, faults, slips, forgotten>>
  <2>1. \A t \in Catalog \cup {FIND} : counts'[t] < LoopThreshold
    <3>1. \A t \in DOMAIN now : ~(now[t] >= LoopThreshold)
      BY <1>8 DEF Looped
    <3>2. LoopThreshold \in Nat
      BY DEF ConversationConstants
    <3> HIDE DEF now
    <3> QED
      BY <1>2, <1>3, <3>1, <3>2
  <2>2. \A c \in calls : c[2] \in Gated => Ruled(c)
    BY <1>4, <1>8 DEF HeldFor
  <2>3. spendApproved' \in BOOLEAN
    BY <1>4, <1>8
  <2>4. Last(msgs).role = "assistant"
    BY DEF Said
  <2> QED
    BY <1>3, <1>8, <2>1, <2>2, <2>3, <2>4, BeginKeeps
<1> QED
  BY <1>5, <1>6, <1>7, <1>8 DEF Take, pending

\* With nothing asked, what the worker has in hand is what it had.
LEMMA UnaskedInTurn ==
  ASSUME ConversationConstants, IInv, Driving,
         UNCHANGED <<step, active, known, decisions, asks, paid, made>>,
         counts' \in [Catalog \cup {FIND} -> 0 .. LoopThreshold]
  PROVE  InTurn(messages, spent)
<1>1. Bookkeeping /\ Chat /\ Paid /\ Leftover
  BY DEF IInv
<1>2. phase = "driving" /\ Working /\ Whole(messages) /\ Heard(messages, asks)
  BY <1>1 DEF Driving, Working, Chat
<1>3. /\ AnswerCost \in Nat /\ BudgetLimit \in Nat /\ slips \in Nat /\ saved.spent \in Nat
      /\ paid \in Nat /\ spent \in Nat /\ asks \in 0 .. MaxAsks /\ MaxAsks \in Nat
  BY <1>1 DEF Bookkeeping, Checkpoint, ConversationConstants
<1>4. /\ AnswerCost * slips \in Nat /\ AnswerCost * (slips + 1) = AnswerCost * slips + AnswerCost
  BY <1>3, Times
<1>5. Owed(spent)
  BY <1>1, <1>2, <1>3, <1>4 DEF Owed, Paid, PaidWithinBudget
<1> QED
  BY <1>1, <1>2, <1>3, <1>5 DEF InTurn, Whole, Leftover

LEMMA StopsKeep ==
  ASSUME ConversationConstants, IInv, StepLimit \/ BudgetExhausted
  PROVE  IInv'
<1>1. /\ Driving /\ UNCHANGED <<step, counts, active, known, decisions, asks, paid, made>>
      /\ \/ Finish("step_limit", messages, spent, spendApproved, {})
         \/ Finish("budget_exhausted", messages, spent, spendApproved, {})
  BY DEF StepLimit, BudgetExhausted
<1>2. /\ counts \in [Catalog \cup {FIND} -> 0 .. LoopThreshold] /\ spendApproved \in BOOLEAN
      /\ Whole(messages)
  BY <1>1 DEF IInv, Bookkeeping, Chat, Working, Driving
<1>3. InTurn(messages, spent)
  BY <1>1, <1>2, UnaskedInTurn
<1> QED
  BY <1>1, <1>2, <1>3, FinishEnds, SettledWords

LEMMA ResumeCallsKeeps ==
  ASSUME ConversationConstants, IInv, ResumeCalls
  PROVE  IInv'
<1> DEFINE calls == TrailingToolCalls(messages)
<1>1. /\ Driving /\ step < MaxSteps /\ calls # {} /\ Take(calls, messages, spent)
      /\ UNCHANGED <<step, active, known, decisions, asks, paid, made>> /\ phase = "driving"
  <2>1. step \in Int /\ MaxSteps \in Int
    BY DEF IInv, TypeOK, ConversationConstants
  <2> QED
    BY <2>1 DEF ResumeCalls, MayGoOn, Driving
<1>2. Bookkeeping /\ Chat /\ Leftover /\ Whole(messages)
  BY <1>1 DEF IInv, Chat, Working
<1>3. Last(messages) = Said(calls)
  BY <1>1, <1>2, WholeLast
<1>4. ConversationTokens(messages) + Cardinality(HeldFor(calls, spent, spendApproved)) <= MaxBytes
  <2>1. /\ saved.finished = "no" /\ messages = saved.messages
        /\ spent = saved.spent /\ spendApproved = saved.spendApproved
    BY <1>1, <1>2 DEF Chat
  <2>2. InHand = calls
    BY <2>1 DEF InHand
  <2>3. CheckpointBytes(saved, HeldFor(InHand, saved.spent, saved.spendApproved)) <= MaxBytes
    BY <1>1, <1>2, <2>2 DEF Leftover
  <2> QED
    BY <2>1, <2>2, <2>3 DEF CheckpointBytes
<1>5. counts' \in [Catalog \cup {FIND} -> 0 .. LoopThreshold] => InTurn(messages, spent)
  BY <1>1, UnaskedInTurn
<1> QED
  BY <1>1, <1>2, <1>3, <1>4, <1>5, TakeKeeps

LEMMA AskModelKeeps ==
  ASSUME ConversationConstants, IInv, AskModel
  PROVE  IInv'
<1>1. /\ phase = "driving" /\ step < MaxSteps /\ ~Exhausted /\ TrailingToolCalls(messages) = {}
      /\ asks < MaxAsks /\ asks' = asks + 1 /\ paid' = paid + AnswerCost
      /\ UNCHANGED <<step, active, known, decisions, made>>
  <2>1. step \in Int /\ MaxSteps \in Int
    BY DEF IInv, TypeOK, ConversationConstants
  <2> QED
    BY <2>1 DEF AskModel, MayAsk, MayGoOn, Driving
<1>2. PICK msgs \in Compact(messages), tools \in SUBSET (Catalog \cup {FIND}) :
        \E calls \in {{asks + 1} \X tools} : \E heard \in {Append(msgs, Said(calls))} :
          IF calls = {}
            THEN Finish("completed", heard, spent + AnswerCost, spendApproved, {}) /\ UNCHANGED counts
            ELSE Take(calls, heard, spent + AnswerCost)
  BY DEF AskModel
<1> DEFINE calls == {asks + 1} \X tools
           heard == Append(msgs, Said(calls))
<1>3. IF calls = {}
        THEN Finish("completed", heard, spent + AnswerCost, spendApproved, {}) /\ UNCHANGED counts
        ELSE Take(calls, heard, spent + AnswerCost)
  BY <1>2
<1>4. Bookkeeping /\ Chat /\ Paid /\ Leftover /\ Whole(messages) /\ Heard(messages, asks)
      /\ Working
  BY <1>1 DEF IInv, Chat, Working
<1>5. /\ AnswerCost \in Nat /\ BudgetLimit \in Nat /\ slips \in Nat /\ saved.spent \in Nat
      /\ paid \in Nat /\ spent \in Nat /\ asks \in Nat /\ MaxAsks \in Nat
      /\ spendApproved \in BOOLEAN /\ counts \in [Catalog \cup {FIND} -> 0 .. LoopThreshold]
  <2>1. saved \in Checkpoint /\ asks \in 0 .. MaxAsks /\ Bookkeeping
    BY <1>4 DEF Bookkeeping
  <2>2. saved.spent \in Nat /\ AnswerCost \in Nat /\ BudgetLimit \in Nat /\ MaxAsks \in Nat
    BY <2>1 DEF Checkpoint, ConversationConstants
  <2> QED
    BY <2>1, <2>2 DEF Bookkeeping
<1>6. Whole(msgs) /\ Heard(msgs, asks) /\ Last(msgs).role # "assistant"
  BY <1>1, <1>2, <1>4, CompactKeeps
<1>7. calls \in SUBSET Call /\ \A c \in calls : c[1] = asks + 1
  <2>1. asks + 1 \in 1 .. MaxAsks
    BY <1>1, <1>5
  <2> QED
    BY <1>2, <2>1 DEF Call
<1> HIDE DEF calls
<1>8. /\ heard \in Seq(Message) /\ heard # << >> /\ heard[1] = Brief /\ Heard(heard, asks + 1)
      /\ Last(heard) = Said(calls) /\ (calls # {} => Whole(heard))
  BY <1>5, <1>6, <1>7, SaidKeeps
<1> HIDE DEF heard
<1>9. Left = {}
  BY <1>1, <1>4 DEF Leftover
<1>10. Owed(spent + AnswerCost)
  <2>1. spent < BudgetLimit
    BY <1>1, <1>5 DEF Exhausted
  <2>2. /\ AnswerCost * slips \in Nat /\ AnswerCost * (slips + 1) = AnswerCost * slips + AnswerCost
        /\ AnswerCost * (1 + slips) = AnswerCost * slips + AnswerCost
    BY <1>5, Times
  <2>3. paid <= spent + AnswerCost * slips /\ paid <= saved.spent + AnswerCost * slips
    BY <1>1, <1>4 DEF Paid
  <2> QED
    BY <1>1, <1>5, <2>1, <2>2, <2>3 DEF Owed
<1>11. asks' \in asks .. MaxAsks
  BY <1>1, <1>5
<1>12. counts' \in [Catalog \cup {FIND} -> 0 .. LoopThreshold] => InTurn(heard, spent + AnswerCost)
  BY <1>1, <1>8, <1>9, <1>10, <1>11 DEF InTurn
<1>13. CASE calls = {}
  BY <1>3, <1>5, <1>9, <1>12, <1>13, FinishEnds, SettledWords
<1>14. CASE calls # {}
  <2>1. calls = TrailingToolCalls(heard)
    BY <1>8 DEF TrailingToolCalls, Said
  <2> QED
    BY <1>1, <1>3, <1>8, <1>9, <1>12, <1>14, <2>1, TakeKeeps
<1> QED
  BY <1>13, <1>14

LEMMA ProviderFailsKeeps ==
  ASSUME ConversationConstants, IInv, ProviderFails
  PROVE  IInv'
<1>1. TypeOK /\ Bookkeeping /\ Chat /\ Word /\ Paid /\ Once /\ Leftover
  BY DEF IInv
<1>2. /\ phase = "driving" /\ TrailingToolCalls(messages) = {} /\ phase' = "idle"
      /\ UNCHANGED <<step, spent, spendApproved, counts, active, todo, results, known, decisions,
                     asks, paid, slips, made, outcomes, forgotten>>
  BY DEF ProviderFails, MayAsk, MayGoOn, Driving
<1>3. PICK msgs \in Compact(messages) :
        /\ messages' = msgs
        /\ saved' = BoundCheckpoint([finished |-> "no", messages |-> msgs, spent |-> spent,
                                    spendApproved |-> spendApproved], {})
  BY DEF ProviderFails
<1>4. Whole(messages) /\ Heard(messages, asks) /\ Working /\ saved.finished \notin SETTLED_REASONS
  BY <1>1, <1>2 DEF Chat, Working, Bookkeeping
<1>5. Whole(msgs) /\ Heard(msgs, asks) /\ Last(msgs).role # "assistant"
  BY <1>2, <1>3, <1>4, CompactKeeps
<1>6. spent \in Nat /\ spendApproved \in BOOLEAN /\ msgs \in Seq(Message)
  BY <1>1, <1>5 DEF Bookkeeping, Whole
<1> DEFINE cp == [finished |-> "no", messages |-> msgs, spent |-> spent,
                  spendApproved |-> spendApproved]
<1>7. cp \in Checkpoint /\ cp.messages = msgs /\ cp.finished = "no" /\ cp.spent = spent
  BY <1>6 DEF Checkpoint
<1>8. saved' = BoundCheckpoint(cp, {})
  BY <1>3
<1> HIDE DEF cp
<1>9. /\ saved' \in Checkpoint /\ saved'.finished = "no" /\ saved'.spent = spent
      /\ Whole(saved'.messages) /\ Heard(saved'.messages, asks)
      /\ \/ Last(saved'.messages) = Last(msgs)
         \/ saved'.messages = <<Brief>>
  <2> DEFINE new == BoundCheckpoint(cp, {})
  <2>1. cp.messages # << >> /\ cp.messages[1] = Brief
    BY <1>5, <1>7 DEF Whole
  <2>2. /\ new \in Checkpoint /\ new.finished = cp.finished /\ new.spent = cp.spent
        /\ \/ Last(new.messages) = Last(cp.messages)
           \/ new.messages = <<Brief>>
        /\ Whole(cp.messages) => Whole(new.messages)
        /\ \A k : Heard(cp.messages, k) => Heard(new.messages, k)
    BY <1>7, <2>1, BoundKeeps
  <2> HIDE DEF new
  <2>3. saved' = new
    BY <1>8 DEF new
  <2> QED
    BY <1>5, <1>7, <2>2, <2>3
<1>10. TrailingToolCalls(saved'.messages) = {}
  BY <1>5, <1>9, BriefIsWhole DEF TrailingToolCalls
<1>11. Left = {}
  BY <1>1, <1>2 DEF Leftover
<1>12. TypeOK'
  BY <1>1, <1>2, <1>3, <1>6, <1>9 DEF TypeOK
<1>13. Bookkeeping'
  BY <1>1, <1>2, <1>9, SettledWords DEF Bookkeeping, Working
<1>14. Chat'
  BY <1>2, <1>9 DEF Chat, Working
<1>15. Word'
  BY <1>1, <1>2 DEF Word, DecidedFirst
<1>16. Paid'
  BY <1>1, <1>2, <1>4, <1>9 DEF Paid, Working, PaidWithinBudget
<1>17. Once'
  BY <1>1, <1>2, <1>4 DEF Once, TypeOK
<1>18. Leftover'
  <2>1. Left' = {} /\ InHand' = {}
    BY <1>2, <1>9, <1>10, <1>11 DEF Left, InHand
  <2> QED
    BY <1>2, <2>1 DEF Leftover
<1> QED
  BY <1>12, <1>13, <1>14, <1>15, <1>16, <1>17, <1>18 DEF IInv

LEMMA CrashKeeps ==
  ASSUME ConversationConstants, IInv, Crash
  PROVE  IInv'
<1>1. TypeOK /\ Bookkeeping /\ Chat /\ Word /\ Paid /\ Once /\ Leftover
  BY DEF IInv
<1>2. /\ Working /\ slips' = slips + 1 /\ phase' = "idle" /\ messages' = <<Brief>> /\ step' = 0
      /\ spent' = 0 /\ spendApproved' = FALSE /\ counts' = Fresh /\ active' = << >>
      /\ todo' = {} /\ results' = {} /\ known' = {}
      /\ UNCHANGED <<saved, decisions, asks, paid, made, outcomes, forgotten>>
  BY DEF Crash, Working
<1>3. /\ AnswerCost \in Nat /\ BudgetLimit \in Nat /\ slips \in Nat /\ saved.spent \in Nat
      /\ paid \in Nat /\ MaxSteps \in Nat /\ MaxLoaded \in Nat
  BY <1>1 DEF Bookkeeping, Checkpoint, ConversationConstants
<1>4. /\ AnswerCost * slips \in Nat /\ AnswerCost * (slips + 1) = AnswerCost * slips + AnswerCost
      /\ AnswerCost * (1 + slips) \in Nat /\ AnswerCost * (1 + slips) = AnswerCost * (slips + 1)
      /\ AnswerCost * (1 + slips') = AnswerCost * (1 + slips) + AnswerCost
  BY <1>2, <1>3, Times
<1>5. TypeOK'
  <2>1. active' \in Seq(Catalog) /\ IsInjective(active') /\ Len(active') <= MaxLoaded
    <3>1. active' \in Seq(Catalog) /\ Len(active') = 0
      BY <1>2, EmptySeq
    <3>2. DOMAIN active' = 1 .. 0
      BY <3>1, LenProperties
    <3> QED
      BY <1>3, <3>1, <3>2 DEF IsInjective
  <2>2. \A t \in Catalog \cup {FIND} : counts'[t] \in 0 .. LoopThreshold
    BY <1>2, FreshCounts
  <2>3. messages' \in Seq(Message)
    BY <1>2, BriefIsWhole
  <2> QED
    BY <1>1, <1>2, <1>3, <2>1, <2>2, <2>3 DEF TypeOK
<1>6. Bookkeeping'
  <2>1. counts' \in [Catalog \cup {FIND} -> 0 .. LoopThreshold]
    BY <1>2, FreshCounts
  <2>2. slips' \in Nat /\ spent' \in Nat
    BY <1>2, <1>3
  <2>4. spendApproved' \in BOOLEAN
    BY <1>2
  <2>3. /\ ~(phase' \in {"driving", "performing"}) /\ phase' # "waiting" /\ phase' # "performing"
        /\ known' \subseteq decisions'
    BY <1>2
  <2> QED
    BY <1>1, <1>2, <2>1, <2>2, <2>3, <2>4 DEF Bookkeeping, Working
<1>7. Chat'
  BY <1>1, <1>2 DEF Chat, Working
<1>8. Word'
  BY <1>1, <1>2 DEF Word, DecidedFirst
<1>9. Paid'
  <2>1. paid <= saved.spent + AnswerCost * (slips + 1)
    BY <1>1, <1>3, <1>4 DEF Paid
  <2>2. paid = 0 \/ paid < BudgetLimit + AnswerCost * (1 + slips')
    BY <1>1, <1>3, <1>4 DEF Paid, PaidWithinBudget
  <2>3. ~(phase' \in {"driving", "performing"}) /\ phase' # "performing"
    BY <1>2
  <2> QED
    BY <1>2, <2>1, <2>2, <2>3 DEF Paid, Working, PaidWithinBudget
<1>10. Once'
  BY <1>2, <1>3 DEF Once
<1>11. Leftover'
  <2>1. Left' = Left /\ InHand' = InHand /\ saved' = saved
    BY <1>2 DEF Left, InHand
  <2>2. HeldFor(InHand, saved.spent, saved.spendApproved)' =
          HeldFor(InHand, saved.spent, saved.spendApproved)
    BY <1>2, <2>1 DEF HeldFor, Ruled
  <2>3. phase' # "driving" /\ phase' # "performing" /\ phase' # "over" /\ phase' # "waiting"
    BY <1>2
  <2> QED
    BY <1>1, <2>1, <2>2, <2>3 DEF Leftover
<1> QED
  BY <1>5, <1>6, <1>7, <1>8, <1>9, <1>10, <1>11 DEF IInv

\* Every result is in: what was left to make is made, and the step is written down.
LEMMA SaveStepKeeps ==
  ASSUME ConversationConstants, IInv, SaveStep
  PROVE  IInv'
<1>1. TypeOK /\ Bookkeeping /\ Chat /\ Word /\ Paid /\ Once /\ Leftover
  BY DEF IInv
<1> DEFINE msgs == Append(messages, Answered(results))
<1>2. /\ phase = "performing" /\ todo = {} /\ messages' = msgs
      /\ SaveCheckpoint(msgs, spent, spendApproved, "no", {})
      /\ phase' = "driving" /\ step' = step + 1 /\ results' = {}
      /\ UNCHANGED <<spent, spendApproved, counts, active, todo, known, decisions, asks, paid, made,
                     outcomes>>
  BY DEF SaveStep
<1>3. /\ Whole(messages) /\ Heard(messages, asks) /\ Last(messages) = Said(results)
      /\ results \in SUBSET Call /\ saved.finished \notin SETTLED_REASONS
      /\ known = decisions /\ Working /\ asks \in Nat /\ asks \in 0 .. MaxAsks
      /\ \A t \in Catalog \cup {FIND} : counts[t] < LoopThreshold
  <2>1. todo \cup results = results /\ Working
    BY <1>2 DEF Working
  <2>2. Whole(messages) /\ Heard(messages, asks) /\ Last(messages) = Said(results)
    BY <1>1, <1>2, <2>1 DEF Chat
  <2> QED
    BY <1>1, <2>1, <2>2 DEF Bookkeeping, TypeOK
<1>4. Whole(msgs) /\ Heard(msgs, asks) /\ Last(msgs) = Answered(results)
  BY <1>3, AnsweredKeeps
<1> HIDE DEF msgs
<1>5. msgs \in Seq(Message) /\ msgs # << >> /\ msgs[1] = Brief /\ TrailingToolCalls(msgs) = {}
  BY <1>4 DEF Whole, TrailingToolCalls, Answered
<1>6. /\ spent \in Nat /\ spendApproved \in BOOLEAN /\ AnswerCost \in Nat /\ BudgetLimit \in Nat
      /\ slips \in Nat /\ saved.spent \in Nat /\ paid \in Nat /\ MaxSteps \in Nat
      /\ step \in 0 .. MaxSteps /\ step < MaxSteps
  BY <1>1, <1>2 DEF Bookkeeping, Checkpoint, ConversationConstants, TypeOK
<1>7. Noted("no", msgs, spent, spendApproved, {})
  BY <1>1, <1>2, <1>5, <1>6, SaveNotes
<1>8. Owed(spent)
  <2>1. paid <= spent + AnswerCost * slips /\ paid <= saved.spent + AnswerCost * (slips + 1)
        /\ (paid = 0 \/ paid < BudgetLimit + AnswerCost * (1 + slips))
    BY <1>1, <1>2, <1>3 DEF Paid, PaidWithinBudget
  <2> QED
    BY <1>2, <1>6, <2>1 DEF Owed
<1>9. Left = {}
  BY <1>1, <1>2 DEF Leftover
<1>10. saved' \in Checkpoint /\ forgotten' = forgotten
       /\ \/ slips' = slips /\ saved'.finished = "no"
          \/ slips' = slips + 1 /\ saved' = saved
  BY <1>7 DEF Noted
<1>11. TypeOK'
  <2>1. saved'.finished \in SETTLED_REASONS \cup {"none", "no"}
    BY <1>10 DEF Checkpoint
  <2>2. step' \in 0 .. MaxSteps
    BY <1>2, <1>6
  <2>3. todo' \subseteq Call /\ results' \subseteq Call /\ messages' \in Seq(Message)
        /\ outcomes' \subseteq SETTLED_REASONS /\ phase' \in {"idle", "driving", "performing", "waiting", "over"}
    BY <1>1, <1>2, <1>5 DEF TypeOK
  <2> QED
    BY <1>1, <1>2, <2>1, <2>2, <2>3 DEF TypeOK
<1>12. Bookkeeping'
  <2>1. saved'.finished = "none" => saved' = None
    BY <1>1, <1>10 DEF Bookkeeping
  <2>2. slips' \in Nat /\ paid' \in Nat
    BY <1>7, <1>8, NotedPays
  <2>3. saved'.finished \notin SETTLED_REASONS
    BY <1>3, <1>10, SettledWords
  <2>4. phase' # "performing" /\ known' = decisions'
    BY <1>2, <1>3
  <2> QED
    BY <1>1, <1>2, <1>3, <1>10, <2>1, <2>2, <2>3, <2>4 DEF Bookkeeping, Working
<1>13. Chat'
  <2>1. asks' \in asks .. MaxAsks /\ Heard(msgs, asks')
    BY <1>2, <1>3, <1>4
  <2>2. saved'.finished \notin {"none", "completed"} =>
          Whole(saved'.messages) /\ Heard(saved'.messages, asks')
    BY <1>4, <1>7, <2>1, NotedIsWhole
  <2> QED
    BY <1>2, <1>4, <1>5, <2>1, <2>2 DEF Chat, Working
<1>14. Word'
  BY <1>1, <1>2 DEF Word, DecidedFirst
<1>15. Paid'
  BY <1>2, <1>7, <1>8, NotedPays DEF Paid, Working
<1>16. Once'
  <2> SUFFICES ASSUME slips' = 0 PROVE outcomes' \subseteq {saved'.finished}
    BY DEF Once
  <2>1. slips = 0
    BY <1>6, <1>10
  <2>2. outcomes = {}
    BY <1>1, <1>3, <2>1 DEF Once, TypeOK
  <2> QED
    BY <1>2, <2>2
<1>17. Leftover'
  <2>1. Left' = {}
    BY <1>2, <1>9, <1>10 DEF Left
  <2>2. CASE slips' = slips + 1 /\ saved' = saved
    <3>1. InHand' = InHand
      BY <2>2 DEF InHand
    <3>2. HeldFor(InHand, saved.spent, saved.spendApproved)' =
            HeldFor(InHand, saved.spent, saved.spendApproved)
      BY <1>2, <2>2, <3>1 DEF HeldFor, Ruled
    <3> QED
      BY <1>1, <1>2, <2>1, <2>2, <3>1, <3>2 DEF Leftover
  <2>3. CASE /\ saved'.finished = "no"
             /\ Last(saved'.messages) = Last(msgs) \/ saved'.messages = <<Brief>>
    <3>1. TrailingToolCalls(saved'.messages) = {}
      BY <1>4, <2>3, BriefIsWhole DEF TrailingToolCalls, Answered
    <3>2. InHand' = {}
      BY <2>3, <3>1 DEF InHand
    <3> QED
      BY <1>2, <2>1, <3>2 DEF Leftover
  <2> QED
    BY <1>7, <2>2, <2>3 DEF Noted
<1> QED
  BY <1>11, <1>12, <1>13, <1>14, <1>15, <1>16, <1>17 DEF IInv

-------------------------------------------------------------------------------
(* Calls are made.                                                         *)

\* What is taken out leaves the rest, each once.
LEMMA RemoveKeeps ==
  ASSUME NEW S, NEW s \in Seq(S), IsInjective(s), NEW i \in 1 .. Len(s)
  PROVE  /\ RemoveAt(s, i) \in Seq(S) /\ Len(RemoveAt(s, i)) = Len(s) - 1
         /\ IsInjective(RemoveAt(s, i))
         /\ \A j \in 1 .. Len(s) - 1 : RemoveAt(s, i)[j] # s[i]
<1> DEFINE L == Len(s)
           a == SubSeq(s, 1, i - 1)
           b == SubSeq(s, i + 1, L)
           r == a \o b
<1>1. L \in Nat /\ DOMAIN s = 1 .. L /\ L = Len(s) /\ i \in 1 .. L
  BY LenProperties
<1>2. a \in Seq(S) /\ Len(a) = i - 1 /\ \A j \in 1 .. i - 1 : a[j] = s[j]
  <2>1. i - 1 \in Int /\ 1 \in Int /\ \A j \in 1 .. i - 1 : s[j] \in S
    BY <1>1, ElementOfSeq
  <2>2. /\ a \in Seq(S) /\ Len(a) = IF 1 <= i - 1 THEN i - 1 - 1 + 1 ELSE 0
        /\ \A j \in 1 .. i - 1 - 1 + 1 : a[j] = s[1 + j - 1]
    BY <2>1, SubSeqProperties
  <2> HIDE DEF a
  <2> QED
    BY <1>1, <2>2
<1>3. b \in Seq(S) /\ Len(b) = L - i /\ \A j \in 1 .. L - i : b[j] = s[i + j]
  <2>1. i + 1 \in Int /\ L \in Int /\ \A j \in i + 1 .. L : s[j] \in S
    BY <1>1, ElementOfSeq
  <2>2. /\ b \in Seq(S) /\ Len(b) = IF i + 1 <= L THEN L - (i + 1) + 1 ELSE 0
        /\ \A j \in 1 .. L - (i + 1) + 1 : b[j] = s[i + 1 + j - 1]
    BY <2>1, SubSeqProperties
  <2> HIDE DEF b
  <2>3. Len(b) = L - i
    <3>1. i \in Nat /\ L \in Nat /\ i <= L
      BY <1>1
    <3>2. CASE i + 1 <= L
      BY <2>2, <3>1, <3>2
    <3>3. CASE ~(i + 1 <= L)
      BY <2>2, <3>1, <3>3
    <3> QED
      BY <3>2, <3>3
  <2>4. ASSUME NEW j \in 1 .. L - i PROVE b[j] = s[i + j]
    <3>1. j \in 1 .. L - (i + 1) + 1 /\ i + 1 + j - 1 = i + j
      BY <1>1
    <3>2. b[j] = s[i + 1 + j - 1]
      BY <2>2, <3>1
    <3> QED
      BY <3>1, <3>2
  <2> QED
    BY <2>2, <2>3, <2>4
<1> HIDE DEF a, b
<1>4. /\ r \in Seq(S) /\ Len(r) = Len(a) + Len(b)
      /\ \A j \in 1 .. Len(a) + Len(b) : r[j] = IF j <= Len(a) THEN a[j] ELSE b[j - Len(a)]
  BY <1>2, <1>3, ConcatProperties
<1> HIDE DEF r
<1>5. Len(r) = L - 1
  BY <1>1, <1>2, <1>3, <1>4
<1>6. \A j \in 1 .. L - 1 : r[j] = IF j < i THEN s[j] ELSE s[j + 1]
  <2> SUFFICES ASSUME NEW j \in 1 .. L - 1 PROVE r[j] = IF j < i THEN s[j] ELSE s[j + 1]
    OBVIOUS
  <2>1. r[j] = IF j <= Len(a) THEN a[j] ELSE b[j - Len(a)]
    BY <1>1, <1>2, <1>3, <1>4
  <2>2. CASE j < i
    <3>1. j <= Len(a) /\ j \in 1 .. i - 1
      BY <1>1, <1>2, <2>2
    <3> QED
      BY <1>2, <2>1, <2>2, <3>1
  <2>3. CASE ~(j < i)
    <3>1. ~(j <= Len(a)) /\ j - Len(a) \in 1 .. L - i /\ i + (j - Len(a)) = j + 1
      BY <1>1, <1>2, <2>3
    <3>2. b[j - Len(a)] = s[j + 1]
      BY <1>3, <3>1
    <3> QED
      BY <2>1, <2>3, <3>1, <3>2
  <2> QED
    BY <2>2, <2>3
<1>7. IsInjective(r)
  <2>1. DOMAIN r = 1 .. L - 1
    BY <1>4, <1>5, LenProperties
  <2>2. ASSUME NEW j \in 1 .. L - 1, NEW k \in 1 .. L - 1, r[j] = r[k] PROVE j = k
    <3> DEFINE at(n) == IF n < i THEN n ELSE n + 1
    <3>1. \A n \in 1 .. L - 1 : r[n] = s[at(n)] /\ at(n) \in 1 .. L
      BY <1>1, <1>6
    <3>2. at(j) = at(k)
      BY <1>1, <2>2, <3>1 DEF IsInjective
    <3> QED
      BY <1>1, <3>2
  <2> QED
    BY <2>1, <2>2 DEF IsInjective
<1>8. ASSUME NEW j \in 1 .. L - 1 PROVE r[j] # s[i]
  <2>1. CASE j < i
    BY <1>1, <1>6, <2>1 DEF IsInjective
  <2>2. CASE ~(j < i)
    <3>1. j + 1 \in 1 .. L /\ j + 1 # i
      BY <1>1, <2>2
    <3> QED
      BY <1>1, <1>6, <2>2, <3>1 DEF IsInjective
  <2> QED
    BY <2>1, <2>2
<1>9. RemoveAt(s, i) = r
  BY DEF RemoveAt, r, a, b
<1> QED
  BY <1>4, <1>5, <1>7, <1>8, <1>9

\* A tool is loaded once, and never more tools than there is room for.
LEMMA ActivateKeeps ==
  ASSUME ConversationConstants, active \in Seq(Catalog), IsInjective(active),
         Len(active) <= MaxLoaded, NEW tool \in Catalog
  PROVE  /\ Activate(tool) \in Seq(Catalog) /\ IsInjective(Activate(tool))
         /\ Len(Activate(tool)) <= MaxLoaded
<1> DEFINE at == {i \in DOMAIN active : active[i] = tool}
           others == IF at = {} THEN active ELSE RemoveAt(active, CHOOSE i \in at : TRUE)
           now == Append(others, tool)
<1>1. Len(active) \in Nat /\ DOMAIN active = 1 .. Len(active) /\ MaxLoaded \in Nat
  BY LenProperties DEF ConversationConstants
<1>2. /\ others \in Seq(Catalog) /\ IsInjective(others) /\ Len(others) <= MaxLoaded
      /\ \A j \in 1 .. Len(others) : others[j] # tool
  <2>1. CASE at = {}
    BY <1>1, <2>1
  <2>2. CASE at # {}
    <3>1. PICK i \in at : i = (CHOOSE n \in at : TRUE)
      BY <2>2
    <3>2. i \in 1 .. Len(active) /\ active[i] = tool /\ others = RemoveAt(active, i)
      BY <1>1, <2>2, <3>1
    <3> HIDE DEF at, others
    <3>3. /\ others \in Seq(Catalog) /\ Len(others) = Len(active) - 1 /\ IsInjective(others)
          /\ \A j \in 1 .. Len(active) - 1 : others[j] # active[i]
      BY <3>2, RemoveKeeps
    <3> QED
      BY <1>1, <3>2, <3>3
  <2> QED
    BY <2>1, <2>2
<1> HIDE DEF others
<1>3. Len(others) \in Nat /\ DOMAIN others = 1 .. Len(others)
  BY <1>2, LenProperties
<1>4. /\ now \in Seq(Catalog) /\ Len(now) = Len(others) + 1 /\ now # << >>
      /\ \A j \in 1 .. Len(others) : now[j] = others[j]
      /\ now[Len(others) + 1] = tool
  BY <1>2, AppendProperties
<1> HIDE DEF now
<1>5. DOMAIN now = 1 .. Len(others) + 1
  BY <1>4, LenProperties
<1>6. \A j, k \in 1 .. Len(others) + 1 : now[j] = now[k] => j = k
  <2> SUFFICES ASSUME NEW j \in 1 .. Len(others) + 1, NEW k \in 1 .. Len(others) + 1,
                      now[j] = now[k]
               PROVE  j = k
    OBVIOUS
  <2>1. j \in 1 .. Len(others) /\ k \in 1 .. Len(others) => j = k
    BY <1>2, <1>3, <1>4 DEF IsInjective
  <2>2. \A n \in 1 .. Len(others) : now[n] # tool
    BY <1>2, <1>4
  <2> QED
    BY <1>3, <1>4, <2>1, <2>2
<1>7. IsInjective(now)
  BY <1>5, <1>6 DEF IsInjective
<1>8. Activate(tool) = IF Len(now) > MaxLoaded THEN Tail(now) ELSE now
  BY DEF Activate, now, others
<1>9. CASE ~(Len(now) > MaxLoaded)
  BY <1>1, <1>3, <1>4, <1>7, <1>8, <1>9
<1>10. CASE Len(now) > MaxLoaded
  <2> DEFINE t == Tail(now)
  <2>1. /\ t \in Seq(Catalog) /\ Len(t) = Len(now) - 1
        /\ \A j \in 1 .. Len(t) : t[j] = now[j + 1]
    BY <1>4, HeadTailProperties
  <2> HIDE DEF t
  <2>2. DOMAIN t = 1 .. Len(others) /\ Len(t) = Len(others)
    BY <1>3, <1>4, <2>1, LenProperties
  <2>3. ASSUME NEW j \in 1 .. Len(others), NEW k \in 1 .. Len(others), t[j] = t[k]
        PROVE  j = k
    <3>1. j + 1 \in 1 .. Len(others) + 1 /\ k + 1 \in 1 .. Len(others) + 1
      BY <1>3
    <3>2. now[j + 1] = now[k + 1]
      BY <2>1, <2>2, <2>3
    <3>3. j + 1 = k + 1
      BY <1>6, <3>1, <3>2
    <3> QED
      BY <1>3, <3>3
  <2>4. IsInjective(t)
    BY <2>2, <2>3 DEF IsInjective
  <2>5. Activate(tool) = t
    BY <1>8, <1>10 DEF t
  <2> QED
    BY <1>2, <2>1, <2>2, <2>4, <2>5
<1> QED
  BY <1>9, <1>10

LEMMA PerformKeeps ==
  ASSUME ConversationConstants, IInv, Perform
  PROVE  IInv'
<1>1. TypeOK /\ Bookkeeping /\ Chat /\ Word /\ Paid /\ Once /\ Leftover
  BY DEF IInv
<1>2. PICK call \in todo :
        /\ todo' = todo \ {call} /\ results' = results \cup {call}
        /\ IF call[2] = FIND
             THEN (\E tool \in Catalog : active' = Activate(tool)) /\ UNCHANGED made
             ELSE /\ made' = IF Performs(call) THEN made \cup {call} ELSE made
                  /\ UNCHANGED active
  BY DEF Perform
<1>3. /\ phase = "performing"
      /\ UNCHANGED <<phase, messages, step, spent, spendApproved, counts, known, saved, decisions,
                     asks, faults, paid, slips, outcomes, forgotten>>
  BY DEF Perform
<1>4. /\ todo \subseteq Call /\ results \subseteq Call /\ call \in Call /\ known = decisions
      /\ todo' \cup results' = todo \cup results
  BY <1>1, <1>2, <1>3 DEF TypeOK, Bookkeeping, Working
<1>5. active' \in Seq(Catalog) /\ IsInjective(active') /\ Len(active') <= MaxLoaded
  BY <1>1, <1>2, ActivateKeeps DEF TypeOK
<1>6. call[2] \in Gated => Ruled(call)
  BY <1>1, <1>2, <1>3 DEF Word
<1>7. made \subseteq made' /\ made' \subseteq made \cup {call}
      /\ (call \in made' \ made => <<call, "declined">> \notin decisions)
  BY <1>2, <1>4 DEF Performs, Decided
<1>8. call \notin Left'
  <2> SUFFICES ASSUME <<call, "approved">> \in decisions, call \notin made' PROVE FALSE
    BY <1>3 DEF Left
  <2>1. call[2] \in Gated
    <3>1. call # SPEND
      BY <1>4 DEF Call, SPEND
    <3> QED
      BY <1>1, <3>1 DEF Word
  <2>2. call[2] # FIND
    BY <2>1 DEF ConversationConstants
  <2>3. <<call, "declined">> \notin decisions
    <3>1. \A d, e \in decisions : d[1] = e[1] => d = e
      BY <1>1 DEF Word
    <3> SUFFICES ASSUME <<call, "declined">> \in decisions PROVE FALSE
      OBVIOUS
    <3>2. <<call, "approved">> = <<call, "declined">>
      BY <3>1
    <3> QED
      BY <3>2
  <2>4. Performs(call)
    BY <1>4, <2>3 DEF Performs, Decided
  <2> QED
    BY <1>2, <2>2, <2>4
<1>9. TypeOK'
  BY <1>1, <1>2, <1>3, <1>4, <1>5 DEF TypeOK
<1>10. Bookkeeping'
  BY <1>1, <1>3 DEF Bookkeeping, Working
<1>11. Chat'
  BY <1>1, <1>3, <1>4 DEF Chat, Working
<1>12. Word'
  <2>1. \A c \in todo' : c[2] \in Gated => Ruled(c)
    BY <1>1, <1>2, <1>3 DEF Word
  <2>2. made' \subseteq Call
    BY <1>1, <1>4, <1>7 DEF Word
  <2>3. DecidedFirst'
    <3> SUFFICES ASSUME NEW c \in made'
                 PROVE  /\ c[2] \in Gated => <<c, "approved">> \in decisions
                        /\ <<c, "declined">> \notin decisions
      BY <1>3 DEF DecidedFirst
    <3>1. CASE c \in made
      BY <1>1, <3>1 DEF Word, DecidedFirst
    <3>2. CASE c \notin made
      <4>1. c = call /\ <<c, "declined">> \notin decisions
        BY <1>7, <3>2
      <4> QED
        BY <1>6, <4>1 DEF Ruled
    <3> QED
      BY <3>1, <3>2
  <2> QED
    BY <1>1, <1>3, <2>1, <2>2, <2>3 DEF Word, Ruled
<1>13. Paid'
  BY <1>1, <1>3 DEF Paid, PaidWithinBudget, Working
<1>14. Once'
  BY <1>1, <1>3 DEF Once
<1>15. Leftover'
  <2>1. Left' \subseteq Left \ {call} /\ InHand' = InHand
    BY <1>3, <1>7, <1>8 DEF Left, InHand
  <2>2. HeldFor(InHand, saved.spent, saved.spendApproved)' =
          HeldFor(InHand, saved.spent, saved.spendApproved)
    BY <1>3, <2>1 DEF HeldFor, Ruled
  <2>3. Left' \subseteq todo'
    BY <1>1, <1>2, <1>3, <2>1 DEF Leftover
  <2> QED
    BY <1>1, <1>3, <2>1, <2>2, <2>3 DEF Leftover
<1> QED
  BY <1>9, <1>10, <1>11, <1>12, <1>13, <1>14, <1>15 DEF IInv

LEMMA DecideKeeps ==
  ASSUME ConversationConstants, IInv, Decide
  PROVE  IInv'
<1>1. TypeOK /\ Bookkeeping /\ Chat /\ Word /\ Paid /\ Once /\ Leftover
  BY DEF IInv
<1>2. PICK x \in TrailingToolCalls(messages) \cup {SPEND}, d \in {"approved", "declined"} :
        /\ x = SPEND \/ x[2] \in Gated
        /\ ~\E e \in {"approved", "declined"} : <<x, e>> \in decisions
        /\ decisions' = decisions \cup {<<x, d>>}
  BY DEF Decide
<1>3. /\ phase = "waiting" /\ phase' = "waiting"
      /\ UNCHANGED <<phase, messages, step, spent, spendApproved, counts, active, todo, results,
                     known, saved, asks, faults, paid, slips, made, outcomes, forgotten>>
  BY DEF Decide, loop
<1>4. /\ TrailingToolCalls(messages) \subseteq Call /\ SPEND \notin Call
      /\ saved.finished \notin SETTLED_REASONS
  <2>1. Whole(messages)
    BY <1>1, <1>3 DEF Chat
  <2> QED
    BY <1>1, <1>3, <2>1, WholeLast DEF Call, SPEND, Bookkeeping
<1>5. ~Ruled(x) /\ \A y : Ruled(y)' <=> Ruled(y) \/ y = x
  <2>1. ~Ruled(x)
    BY <1>2 DEF Ruled
  <2>2. \A y : Ruled(y)' <=> Ruled(y) \/ y = x
    BY <1>2 DEF Ruled
  <2> QED
    BY <2>1, <2>2
<1>6. TypeOK'
  BY <1>1, <1>3 DEF TypeOK
<1>7. Bookkeeping'
  <2>1. known' \subseteq decisions' /\ ~(phase' \in {"driving", "performing"})
    BY <1>1, <1>2, <1>3 DEF Bookkeeping
  <2> QED
    BY <1>1, <1>3, <2>1 DEF Bookkeeping, Working
<1>8. Chat'
  BY <1>1, <1>3 DEF Chat, Working
<1>9. Word'
  <2>1. decisions' \subseteq ({SPEND} \cup Call) \X {"approved", "declined"}
    BY <1>1, <1>2, <1>4 DEF Word
  <2>2. \A e \in decisions : e[1] # x
    <3> SUFFICES ASSUME NEW e \in decisions, e[1] = x PROVE FALSE
      OBVIOUS
    <3>1. e = <<x, e[2]>> /\ e[2] \in {"approved", "declined"}
      BY <1>1 DEF Word
    <3> QED
      BY <1>2, <3>1
  <2>3. \A e, f \in decisions' : e[1] = f[1] => e = f
    <3> SUFFICES ASSUME NEW e \in decisions', NEW f \in decisions', e[1] = f[1] PROVE e = f
      OBVIOUS
    <3>1. <<x, d>>[1] = x
      OBVIOUS
    <3> QED
      BY <1>1, <1>2, <2>2, <3>1 DEF Word
  <2>4. \A e \in decisions' : e[1] = SPEND \/ e[1][2] \in Gated
    BY <1>1, <1>2 DEF Word
  <2>5. DecidedFirst'
    <3> SUFFICES ASSUME NEW c \in made
                 PROVE  /\ c[2] \in Gated => <<c, "approved">> \in decisions'
                        /\ <<c, "declined">> \notin decisions'
      BY <1>3 DEF DecidedFirst
    <3>1. /\ c[2] \in Gated => <<c, "approved">> \in decisions
          /\ <<c, "declined">> \notin decisions /\ c \in Call
      BY <1>1 DEF Word, DecidedFirst
    <3>2. c # x
      BY <1>2, <1>4, <3>1
    <3> QED
      BY <1>2, <3>1, <3>2
  <2> QED
    BY <1>1, <1>3, <2>1, <2>3, <2>4, <2>5 DEF Word
<1>10. Paid'
  BY <1>1, <1>3 DEF Paid, PaidWithinBudget, Working
<1>11. Once'
  BY <1>1, <1>3 DEF Once
<1>12. Leftover'
  <2>1. InHand' = InHand /\ saved' = saved
    BY <1>3 DEF InHand
  <2>2. Left \subseteq InHand
    BY <1>1, <1>4 DEF Leftover
  <2>3. Left' \subseteq InHand
    <3> SUFFICES ASSUME NEW c \in Left' PROVE c \in InHand
      OBVIOUS
    <3>1. c \in Call /\ <<c, "approved">> \in decisions' /\ c \notin made \cup forgotten
      BY <1>3 DEF Left
    <3>2. CASE <<c, "approved">> \in decisions
      BY <2>2, <3>1, <3>2 DEF Left
    <3>3. CASE <<c, "approved">> \notin decisions
      <4>1. c = x /\ c[2] \in Gated /\ c \in TrailingToolCalls(messages)
        BY <1>2, <1>4, <3>1, <3>3
      <4> QED
        BY <1>1, <1>3, <1>5, <3>1, <4>1 DEF Leftover
    <3> QED
      BY <3>2, <3>3
  <2>4. \A c \in TrailingToolCalls(messages) :
          c[2] \in Gated /\ ~Ruled(c)' => c \in forgotten \cup InHand
    BY <1>1, <1>3, <1>5 DEF Leftover
  <2>5. InHand # {} => CheckpointBytes(saved, HeldFor(InHand, saved.spent, saved.spendApproved)')
                         <= MaxBytes
    <3> SUFFICES ASSUME InHand # {}
                 PROVE  CheckpointBytes(saved, HeldFor(InHand, saved.spent, saved.spendApproved)')
                          <= MaxBytes
      OBVIOUS
    <3> DEFINE before == HeldFor(InHand, saved.spent, saved.spendApproved)
               after == HeldFor(InHand, saved.spent, saved.spendApproved)'
    <3>1. after \subseteq before
      BY <1>3, <1>5, <2>1 DEF HeldFor
    <3>2. InHand \subseteq Call /\ saved.messages \in Seq(Message)
      <4>1. saved.finished = "no"
        BY DEF InHand
      <4>2. Whole(saved.messages)
        BY <1>1, <4>1 DEF Chat
      <4> QED
        BY <4>1, <4>2, WholeLast DEF InHand, Whole
    <3>3. before \subseteq Call \cup {SPEND}
      BY <3>2 DEF HeldFor
    <3> HIDE DEF before, after
    <3>4. /\ IsFiniteSet(before) /\ Cardinality(before) \in Nat /\ Cardinality(after) \in Nat
      BY <3>1, <3>3, CallsAreFinite
    <3>5. Cardinality(after) <= Cardinality(before)
      BY <3>1, <3>4, FS_Subset
    <3>6. ConversationTokens(saved.messages) \in Nat /\ MaxBytes \in Nat
      BY <3>2, TokensAreNumbers DEF ConversationConstants
    <3>7. ConversationTokens(saved.messages) + Cardinality(before) <= MaxBytes
      BY <1>1 DEF Leftover, CheckpointBytes, before
    <3>8. ConversationTokens(saved.messages) + Cardinality(after) <= MaxBytes
      BY <3>4, <3>5, <3>6, <3>7
    <3> QED
      BY <3>8 DEF CheckpointBytes, after
  <2> QED
    BY <1>3, <2>1, <2>3, <2>4, <2>5 DEF Leftover
<1> QED
  BY <1>6, <1>7, <1>8, <1>9, <1>10, <1>11, <1>12 DEF IInv

-------------------------------------------------------------------------------
(* The run.                                                                *)

LEMMA NextKeeps ==
  ASSUME ConversationConstants, IInv, [Next]_vars
  PROVE  IInv'
<1>1. CASE Next
  BY <1>1, StartKeeps, StopsKeep, ResumeCallsKeeps, AskModelKeeps, ProviderFailsKeeps,
     PerformKeeps, SaveStepKeeps, CrashKeeps, DecideKeeps DEF Next
<1>2. CASE UNCHANGED vars
  <2>1. /\ TypeOK' <=> TypeOK
        /\ Bookkeeping' <=> Bookkeeping
        /\ Chat' <=> Chat
    BY <1>2 DEF vars, TypeOK, Bookkeeping, Chat, Working
  <2>2. /\ Word' <=> Word
        /\ Paid' <=> Paid
        /\ Once' <=> Once
    BY <1>2 DEF vars, Word, DecidedFirst, Ruled, Paid, PaidWithinBudget, Working, Once
  <2>3. Leftover' <=> Leftover
    BY <1>2 DEF vars, Leftover, Left, InHand, HeldFor, Ruled
  <2> QED
    BY <2>1, <2>2, <2>3 DEF IInv
<1> QED
  BY <1>1, <1>2

LEMMA Invariance ==
  ASSUME ConversationConstants
  PROVE  Spec => []IInv
<1>1. Init => IInv
  BY StartsRight
<1>2. IInv /\ [Next]_vars => IInv'
  BY NextKeeps
<1> QED
  BY <1>1, <1>2, PTL DEF Spec
-------------------------------------------------------------------------------
(* What the runs check.                                                    *)

\* The run's fields have their types whatever becomes of it: no more steps than it
\* may take, no more tools than there is room for, each loaded once
\* (agent-run-loop.ts, lazy-toolset.ts).
THEOREM TypeCorrect ==
  ASSUME ConversationConstants
  PROVE  Spec => []TypeOK
<1>1. IInv => TypeOK
  BY DEF IInv
<1> QED
  BY <1>1, Invariance, PTL

\* The model is asked about a whole conversation: results follow their calls, and
\* every call before the last word has its results, however often the conversation
\* was compacted, trimmed and taken up again (compaction.ts, checkpoint.ts).
THEOREM AsksAreWhole ==
  ASSUME ConversationConstants
  PROVE  Spec => []AskedWhole
<1>1. IInv => AskedWhole
  <2> SUFFICES ASSUME IInv, MayAsk PROVE AskedWhole
    BY DEF AskedWhole
  <2>1. Whole(messages) /\ TrailingToolCalls(messages) = {}
    BY DEF IInv, Chat, Working, MayAsk, MayGoOn, Driving
  <2>2. /\ Last(messages).role # "assistant" /\ Last(messages) = messages[Len(messages)]
        /\ Len(messages) \in Nat /\ DOMAIN messages = 1 .. Len(messages)
    BY <2>1, WholeLast, LenProperties DEF Last, Whole
  <2>3. ASSUME NEW i \in DOMAIN messages, messages[i].role = "assistant"
        PROVE  i < Len(messages) /\ messages[i + 1] = Answered(messages[i].ids)
    <3>1. i # Len(messages)
      BY <2>2, <2>3
    <3>2. i < Len(messages)
      BY <2>2, <3>1
    <3> QED
      BY <2>1, <2>3, <3>2 DEF Whole
  <2> QED
    BY <2>1, <2>3 DEF AskedWhole, Whole
<1> QED
  BY <1>1, Invariance, PTL

\* A call that needs a person is made on that person's word, and one that was
\* declined is not made, in this worker's life or a later one (approval-gate.ts).
THEOREM MadeOnTheirWord ==
  ASSUME ConversationConstants
  PROVE  Spec => []DecidedFirst
<1>1. IInv => DecidedFirst
  BY DEF IInv, Word
<1> QED
  BY <1>1, Invariance, PTL

\* A run costs its budget, the answer that went over it, and one answer for every
\* crash or checkpoint that was not kept (token-budget.ts).
THEOREM CostsItsBudget ==
  ASSUME ConversationConstants
  PROVE  Spec => []PaidWithinBudget
<1>1. IInv => PaidWithinBudget
  BY DEF IInv, Paid
<1> QED
  BY <1>1, Invariance, PTL

\* A run that is handed out again and again ends in one way, unless its end could
\* not be written down (agent-run-loop.ts).
THEOREM EndsOnce ==
  ASSUME ConversationConstants
  PROVE  Spec => []OneOutcome
<1>1. IInv => OneOutcome
  <2> SUFFICES ASSUME IInv, slips = 0 PROVE Cardinality(outcomes) <= 1
    BY DEF OneOutcome
  <2>1. outcomes = {} \/ outcomes = {saved.finished}
    BY DEF IInv, Once
  <2>2. Cardinality({}) = 0 /\ Cardinality({saved.finished}) = 1
    BY FS_EmptySet, FS_Singleton
  <2> QED
    BY <2>1, <2>2
<1> QED
  BY <1>1, Invariance, PTL

\* A run that has nothing more to call has made every call a person allowed it, but
\* for those held in a checkpoint that was not kept, or not whole.
THEOREM AllowedIsNotLost ==
  ASSUME ConversationConstants
  PROVE  Spec => []AllowedIsMade
<1>1. IInv => AllowedIsMade
  <2> SUFFICES ASSUME IInv, Completed, NEW d \in decisions, d[1] # SPEND, d[2] = "approved"
               PROVE  d[1] \in made \cup forgotten
    BY DEF AllowedIsMade
  <2>1. Left = {}
    <3>1. CASE saved.finished = "completed"
      <4>1. Left \subseteq InHand /\ InHand = {}
        BY <3>1 DEF IInv, Leftover, InHand
      <4> QED
        BY <4>1
    <3>2. CASE phase = "over" /\ Last(messages) = Said({})
      BY <3>2 DEF IInv, Leftover
    <3> QED
      BY <3>1, <3>2 DEF Completed
  <2>2. d[1] \in Call /\ d = <<d[1], "approved">>
    BY DEF IInv, Word
  <2> QED
    BY <2>1, <2>2 DEF Left
<1> QED
  BY <1>1, Invariance, PTL

\* All of it, as the runs check it.
THEOREM RunsAreSound ==
  ASSUME ConversationConstants
  PROVE  Spec => []RunsHold
<1>1. TypeOK /\ AskedWhole /\ DecidedFirst /\ PaidWithinBudget /\ OneOutcome /\ AllowedIsMade
        => RunsHold
  BY DEF RunsHold
<1> QED
  BY <1>1, TypeCorrect, AsksAreWhole, MadeOnTheirWord, CostsItsBudget, EndsOnce,
     AllowedIsNotLost, PTL

-------------------------------------------------------------------------------
(* The tools of a turn: the invariant.                                       *)

Brokers == {"own", "held"}
Lines == [kind : {"agreed", "page", "done", "refused", "changed"}, tools : SUBSET Tools,
          more : BOOLEAN]
Started ==
  [config : Configs, by : Brokers, up : BOOLEAN, closing : BOOLEAN, greeted : BOOLEAN,
   served : BOOLEAN, asked : {"nothing", "initialize", "list", "call"}, pipe : Seq(Lines)]
Session == [open : BOOLEAN, child : Nat, agreed : BOOLEAN, closed : BOOLEAN]
Listing == [known : BOOLEAN, tools : SUBSET Tools, at : Nat]
Broker == [has : BOOLEAN, of : Connectors \cup {Unconnected}, list : Listing]
Turns ==
  [at : {"idle", "deciding"} \cup Busy, side : Brokers, method : {"list", "call"},
   tool : Tools \cup {"nothing"}, attempt : 0 .. MaxAttempts - 1, page : Nat, got : SUBSET Tools,
   seen : Connectors \cup {Unconnected}, granted : SUBSET Tools, catalogue : SUBSET Tools,
   calls : Nat, reached : Nat, going : Nat]
Counters == [edits : Nat, changes : Nat, faults : Nat, turns : Nat]

ToolShapes ==
  /\ clock \in 1 .. MaxTime /\ connector \in Connectors /\ offers \in [Configs -> SUBSET Tools]
  /\ offeredAt \in [Configs -> [Tools -> Nat]]
  /\ servers \in Seq(Started) /\ held \in Broker /\ sessions \in [Brokers -> Session]
  /\ \A b \in Brokers : sessions[b].child <= Len(servers)
  /\ turn \in Turns /\ used \in Counters

\* A session's server is its own broker's, runs as the office said, and was
\* introduced if the session says so.
SessionsFit ==
  /\ \A b \in Brokers : sessions[b].child = 0 /\ ~sessions[b].closed => ~sessions[b].agreed
  /\ \A b \in Brokers : sessions[b].child # 0 =>
       /\ servers[sessions[b].child].by = b
       /\ ~servers[sessions[b].child].closing
       /\ sessions[b].agreed => servers[sessions[b].child].greeted
  /\ sessions["held"].child # 0 => servers[sessions["held"].child].config = held.of.config

Awaited(p) ==
  turn.at = "waiting" /\ turn.side = servers[p].by /\ sessions[servers[p].by].child = p

Replies(p) == {i \in DOMAIN servers[p].pipe : servers[p].pipe[i].kind # "changed"}

\* Who was asked is who the turn waits for, and answers once what it was asked.
Requested(p) ==
  servers[p].asked # "nothing" /\ ~servers[p].closing =>
    /\ Awaited(p)
    /\ Replies(p) = {}
    /\ IF servers[p].asked = "initialize" THEN ~sessions[servers[p].by].agreed
       ELSE sessions[servers[p].by].agreed /\ servers[p].asked = turn.method

Replied(p, i) ==
  /\ Awaited(p)
  /\ \A j \in Replies(p) : i = j
  /\ servers[p].pipe[i].kind = "agreed" =>
       servers[p].greeted /\ ~sessions[servers[p].by].agreed
  /\ servers[p].pipe[i].kind = "page" =>
       /\ turn.method = "list"
       /\ \A t \in servers[p].pipe[i].tools : offeredAt[servers[p].config][t] = clock

AskedOnce ==
  \A p \in DOMAIN servers : Requested(p) /\ \A i \in Replies(p) : Replied(p, i)

\* What the turn goes by: the connector as the office has it, a tool it was given.
TurnFits ==
  /\ turn.catalogue \subseteq turn.granted
  /\ turn.at \in {"asking", "waiting"} /\ turn.side = "own" =>
       turn.method = "list" /\ turn.seen \in Connectors
  /\ turn.at \in {"office", "closing", "consulting"} =>
       turn.side = "held" /\ turn.method = "list" /\ turn.got = {}
  /\ turn.at \in Busy /\ turn.side = "held" => turn.tool \in turn.catalogue
  /\ turn.at \in {"closing", "consulting", "asking", "waiting"} /\ turn.side = "held" =>
       held.of = turn.seen
  /\ turn.at \in {"asking", "waiting"} /\ turn.side = "held" => held.of.enabled
  /\ turn.at = "waiting" => sessions[turn.side].child # 0
  /\ turn.at \in {"idle", "deciding"} => turn.method = "list" /\ turn.got = {}

\* A call is not counted as made before it can be.
CallsCounted ==
  /\ turn.method = "list" => turn.reached = 0
  /\ turn.method = "call" =>
       /\ turn.side = "held"
       /\ turn.reached <= turn.attempt + 1
       /\ turn.at = "asking" => turn.reached <= turn.attempt
       /\ turn.at = "waiting" /\ ~sessions["held"].agreed => turn.reached <= turn.attempt
       /\ turn.at = "waiting" /\ servers[sessions["held"].child].asked # "nothing" =>
            turn.reached <= turn.attempt

\* What is listed was offered, when it was listed or since.
ListedWasOffered ==
  /\ \A c \in Configs : \A t \in offers[c] : offeredAt[c][t] = clock
  /\ held.list.known =>
       /\ held.of \in Connectors /\ held.list.at <= clock
       /\ \A t \in held.list.tools : offeredAt[held.of.config][t] >= held.list.at
  /\ turn.at \in {"asking", "waiting"} /\ turn.method = "list" /\ turn.side = "held" =>
       \A t \in turn.got : offeredAt[held.of.config][t] = clock

ToolsInv ==
  /\ ToolShapes /\ SessionsFit /\ IntroducedFirst /\ AskedOnce /\ NoneLeftBehind
  /\ TurnFits /\ CallsCounted /\ ListedWasOffered

-------------------------------------------------------------------------------
(* Where the servers begin, and what a session that failed leaves.           *)

LEMMA ToolsBegin ==
  ASSUME ToolConstants, ToolsInit
  PROVE  ToolsInv
<1>1. PICK start \in Starts : connector = start.connector /\ offers = start.offers
  BY DEF ToolsInit
<1>2. connector \in Connectors /\ offers \in [Configs -> SUBSET Tools] /\ MaxTime \in Nat \ {0}
      /\ MaxAttempts \in Nat \ {0}
  BY <1>1 DEF ToolConstants, Connectors
<1>3. /\ clock = 1 /\ servers = << >> /\ DOMAIN servers = {} /\ Len(servers) = 0
      /\ held = [has |-> FALSE, of |-> Unconnected, list |-> Unlisted]
      /\ sessions = [b \in Brokers |-> McpSession]
      /\ turn = NoTurn
      /\ used = [edits |-> 0, changes |-> 0, faults |-> 0, turns |-> 0]
      /\ offeredAt = [c \in Configs |-> [t \in Tools |-> IF t \in offers[c] THEN 1 ELSE 0]]
  BY DEF ToolsInit, Brokers
<1>4. ToolShapes
  <2>1. turn \in Turns
    BY <1>2, <1>3 DEF Turns, NoTurn, Brokers
  <2>2. servers \in Seq(Started)
    BY <1>3
  <2>3. held \in Broker
    BY <1>3 DEF Broker, Listing, Unlisted
  <2>4. sessions \in [Brokers -> Session] /\ \A b \in Brokers : sessions[b].child <= Len(servers)
    BY <1>3 DEF Session, McpSession
  <2> QED
    BY <1>2, <1>3, <2>1, <2>2, <2>3, <2>4 DEF ToolShapes, Counters
<1>5. SessionsFit
  BY <1>3 DEF SessionsFit, McpSession, Brokers
<1>6. IntroducedFirst /\ AskedOnce /\ NoneLeftBehind
  BY <1>3 DEF IntroducedFirst, AskedOnce, Requested, Replied, NoneLeftBehind
<1>7. TurnFits /\ CallsCounted
  BY <1>3 DEF TurnFits, CallsCounted, NoTurn, Busy
<1>8. ListedWasOffered
  BY <1>2, <1>3 DEF ListedWasOffered, NoTurn, Unlisted
<1> QED
  BY <1>4, <1>5, <1>6, <1>7, <1>8 DEF ToolsInv

\* The servers as they are when a session fails: none of them has an answer left to give.
Quietened(ss) ==
  /\ ss \in Seq(Started) /\ Len(ss) = Len(servers)
  /\ \A p \in DOMAIN servers :
       /\ ss[p].config = servers[p].config /\ ss[p].by = servers[p].by
       /\ ss[p].closing = servers[p].closing /\ ss[p].greeted = servers[p].greeted
       /\ ss[p].served = servers[p].served
       /\ ss[p].up => servers[p].up
       /\ ss[p].asked # "nothing" => ss[p].closing
       /\ \A i \in DOMAIN ss[p].pipe : ss[p].pipe[i].kind = "changed"

\* Closing a session tells its server to go, if it has a pipe or was introduced, and
\* no other.
LEMMA CloseCloses ==
  ASSUME NEW ss \in Seq(Started), NEW session \in Session, session.child <= Len(ss)
  PROVE  /\ Close(ss, session) \in Seq(Started) /\ Len(Close(ss, session)) = Len(ss)
         /\ DOMAIN Close(ss, session) = DOMAIN ss
         /\ \A p \in DOMAIN ss :
              /\ \/ Close(ss, session)[p] = ss[p]
                 \/ Close(ss, session)[p] = [ss[p] EXCEPT !.closing = TRUE, !.pipe = << >>]
              /\ p = session.child /\ (Kind[ss[p].config] = "stdio" \/ session.agreed) =>
                   Close(ss, session)[p].closing
              /\ p # session.child => Close(ss, session)[p] = ss[p]
<1> DEFINE c == session.child
<1>1. c \in Nat /\ DOMAIN ss = 1 .. Len(ss) /\ Len(ss) \in Nat /\ \A p \in DOMAIN ss : ss[p] \in Started
  BY DEF Session
<1>2. CASE session.child # 0 /\ (Kind[ss[session.child].config] = "stdio" \/ session.agreed)
  <2>1. c \in 1 .. Len(ss) /\ c \in DOMAIN ss
    BY <1>1, <1>2
  <2>2. << >> \in Seq(Lines)
    OBVIOUS
  <2> DEFINE new == [ss[c] EXCEPT !.closing = TRUE, !.pipe = << >>]
  <2>3. new \in Started /\ new.closing
    <3>1. PICK s \in Started, none \in Seq(Lines) : s = ss[c] /\ none = << >>
      BY <2>1, <2>2, <1>1
    <3>2. [s EXCEPT !.closing = TRUE, !.pipe = none] \in Started
          /\ [s EXCEPT !.closing = TRUE, !.pipe = none].closing
      BY DEF Started
    <3> QED
      BY <3>1, <3>2
  <2>4. Close(ss, session) = [ss EXCEPT ![c] = new]
    BY <1>2, <2>1, <1>1 DEF Close
  <2>5. [ss EXCEPT ![c] = new] \in Seq(Started)
    BY <2>1, <2>3, <1>1, ExceptSeq
  <2>6. /\ Len([ss EXCEPT ![c] = new]) = Len(ss) /\ DOMAIN [ss EXCEPT ![c] = new] = DOMAIN ss
        /\ [ss EXCEPT ![c] = new][c] = new
        /\ \A p \in DOMAIN ss : p # c => [ss EXCEPT ![c] = new][p] = ss[p]
    <3> HIDE DEF new
    <3>1. DOMAIN [ss EXCEPT ![c] = new] = DOMAIN ss
      OBVIOUS
    <3> QED
      BY <2>1, <2>3, <1>1, <3>1, ExceptSeq
  <2> HIDE DEF new
  <2>7. \A p \in DOMAIN ss :
                 /\ [ss EXCEPT ![c] = new][p] = ss[p] \/ (p = c /\ [ss EXCEPT ![c] = new][p] = new)
                 /\ p = session.child => [ss EXCEPT ![c] = new][p].closing
                 /\ p # session.child => [ss EXCEPT ![c] = new][p] = ss[p]
    BY <2>6, <2>3
  <2> QED
    BY <2>4, <2>5, <2>6, <2>7 DEF new
<1>3. CASE ~(session.child # 0 /\ (Kind[ss[session.child].config] = "stdio" \/ session.agreed))
  <2>1. Close(ss, session) = ss
    BY <1>3 DEF Close
  <2> QED
    BY <1>1, <1>3, <2>1
<1> QED
  BY <1>2, <1>3

\* What a call that ended leaves of the turn.
LEMMA ConcludedShape ==
  ASSUME ToolConstants, NEW t \in Turns
  PROVE  /\ Concluded(t) \in Turns /\ Concluded(t).at = "deciding" /\ Concluded(t).method = "list"
         /\ Concluded(t).reached = 0 /\ Concluded(t).side = "held" /\ Concluded(t).got = {}
         /\ Concluded(t).granted = t.granted /\ Concluded(t).catalogue = t.catalogue
<1>1. MaxAttempts \in Nat \ {0}
  BY DEF ToolConstants
<1>2. NoTurn \in Turns /\ NoTurn.method = "list" /\ NoTurn.reached = 0 /\ NoTurn.side = "held"
      /\ NoTurn.got = {}
  BY <1>1 DEF Turns, NoTurn, Brokers
<1>3. t.granted \in SUBSET Tools /\ t.catalogue \in SUBSET Tools /\ t.calls \in Nat
  BY DEF Turns
<1> QED
  BY <1>2, <1>3 DEF Turns, Concluded

\* A session that failed is let go of, with its server.
LEMMA FailKeeps ==
  ASSUME ToolConstants, ToolsInv, turn.at \in {"asking", "waiting"},
         NEW ss, Quietened(ss), Fail(ss),
         UNCHANGED <<clock, connector, offers, offeredAt>>, used' \in Counters
  PROVE  ToolsInv'
<1> DEFINE side == turn.side
           session == sessions[turn.side]
<1>1. /\ ToolShapes /\ SessionsFit /\ IntroducedFirst /\ AskedOnce /\ NoneLeftBehind
      /\ TurnFits /\ CallsCounted /\ ListedWasOffered
  BY DEF ToolsInv
<1>2. /\ side \in Brokers /\ session \in Session /\ session.child <= Len(ss)
      /\ ss \in Seq(Started) /\ DOMAIN ss = DOMAIN servers /\ Len(ss) = Len(servers)
      /\ Len(ss) \in Nat /\ turn \in Turns /\ MaxAttempts \in Nat \ {0}
      /\ held \in Broker /\ sessions \in [Brokers -> Session]
      /\ servers \in Seq(Started)
      /\ \A p \in DOMAIN ss : ss[p] \in Started /\ servers[p] \in Started
  BY <1>1, SMTT(30) DEF ToolShapes, Turns, Quietened, ToolConstants
<1>3. /\ servers' \in Seq(Started) /\ Len(servers') = Len(servers)
      /\ DOMAIN servers' = DOMAIN servers
      /\ \A p \in DOMAIN servers :
           /\ servers'[p] = ss[p] \/ servers'[p] = [ss[p] EXCEPT !.closing = TRUE, !.pipe = << >>]
           /\ p = session.child /\ (Kind[ss[p].config] = "stdio" \/ session.agreed) =>
                servers'[p].closing
           /\ p # session.child => servers'[p] = ss[p]
  <2>1. servers' = Close(ss, session)
    BY DEF Fail
  <2>2. ss \in Seq(Started) /\ session \in Session /\ session.child <= Len(ss)
        /\ DOMAIN ss = DOMAIN servers /\ Len(ss) = Len(servers)
    BY <1>2
  <2> HIDE DEF session
  <2>3. /\ Close(ss, session) \in Seq(Started) /\ Len(Close(ss, session)) = Len(ss)
        /\ DOMAIN Close(ss, session) = DOMAIN ss
        /\ \A p \in DOMAIN ss :
              /\ \/ Close(ss, session)[p] = ss[p]
                 \/ Close(ss, session)[p] = [ss[p] EXCEPT !.closing = TRUE, !.pipe = << >>]
              /\ p = session.child /\ (Kind[ss[p].config] = "stdio" \/ session.agreed) =>
                   Close(ss, session)[p].closing
              /\ p # session.child => Close(ss, session)[p] = ss[p]
    BY <2>2, CloseCloses
  <2> QED
    BY <2>1, <2>2, <2>3
<1>4. \A p \in DOMAIN servers :
        /\ servers'[p].config = servers[p].config /\ servers'[p].by = servers[p].by
        /\ servers'[p].greeted = servers[p].greeted /\ servers'[p].served = servers[p].served
        /\ servers'[p].up => servers[p].up
        /\ servers'[p].asked # "nothing" => servers'[p].closing
        /\ servers[p].closing => servers'[p].closing
        /\ \A i \in DOMAIN servers'[p].pipe : servers'[p].pipe[i].kind = "changed"
        /\ p # session.child => servers'[p].closing = servers[p].closing
        /\ p = session.child /\ Kind[servers[p].config] = "stdio" => servers'[p].closing
  <2> SUFFICES ASSUME NEW p \in DOMAIN servers
               PROVE
        /\ servers'[p].config = servers[p].config /\ servers'[p].by = servers[p].by
        /\ servers'[p].greeted = servers[p].greeted /\ servers'[p].served = servers[p].served
        /\ servers'[p].up => servers[p].up
        /\ servers'[p].asked # "nothing" => servers'[p].closing
        /\ servers[p].closing => servers'[p].closing
        /\ \A i \in DOMAIN servers'[p].pipe : servers'[p].pipe[i].kind = "changed"
        /\ p # session.child => servers'[p].closing = servers[p].closing
        /\ p = session.child /\ Kind[servers[p].config] = "stdio" => servers'[p].closing
    OBVIOUS
  <2> ss[p] \in Started
    BY <1>2
  <2>a. /\ ss[p].config = servers[p].config /\ ss[p].by = servers[p].by
        /\ ss[p].closing = servers[p].closing /\ ss[p].greeted = servers[p].greeted
        /\ ss[p].served = servers[p].served
        /\ ss[p].up => servers[p].up
        /\ ss[p].asked # "nothing" => ss[p].closing
        /\ \A i \in DOMAIN ss[p].pipe : ss[p].pipe[i].kind = "changed"
    BY DEF Quietened
  <2>b. /\ p = session.child /\ Kind[ss[p].config] = "stdio" => servers'[p].closing
        /\ p # session.child => servers'[p] = ss[p]
    BY <1>3
  <2> HIDE DEF session
  <2>1. CASE servers'[p] = ss[p]
    BY <2>1, <2>a, <2>b
  <2>2. CASE servers'[p] = [ss[p] EXCEPT !.closing = TRUE, !.pipe = << >>]
    <3>2. /\ servers'[p].config = ss[p].config /\ servers'[p].by = ss[p].by
          /\ servers'[p].greeted = ss[p].greeted /\ servers'[p].served = ss[p].served
          /\ servers'[p].up = ss[p].up /\ servers'[p].asked = ss[p].asked
          /\ servers'[p].closing /\ servers'[p].pipe = << >> /\ DOMAIN servers'[p].pipe = {}
      BY <2>2 DEF Started
    <3> QED
      BY <3>2, <2>a, <2>b
  <2> QED
    BY <1>3, <2>1, <2>2
<1>5. /\ sessions' = [sessions EXCEPT ![side] = McpSession] /\ held' = Forget(held, side)
      /\ sessions'[side] = McpSession
      /\ \A b \in Brokers : b # side => sessions'[b] = sessions[b]
      /\ McpSession.child = 0 /\ ~McpSession.agreed
  BY <1>2 DEF Fail, McpSession
<1>6. /\ held'.of = held.of /\ held' \in Broker
      /\ side = "own" => held' = held
      /\ side = "held" => held'.list = Unlisted
  BY <1>2, <1>5 DEF Forget, Broker, Listing, Unlisted
<1>7. turn' = CASE turn.side = "own" -> [Concluded(turn) EXCEPT !.catalogue = {}]
                [] Retries(turn) -> [turn EXCEPT !.at = "asking", !.attempt = @ + 1]
                [] OTHER -> Concluded(turn)
  BY DEF Fail
<1>8. /\ turn' \in Turns
      /\ turn'.catalogue \subseteq turn'.granted
      /\ \/ /\ turn'.at = "deciding" /\ turn'.method = "list" /\ turn'.reached = 0
            /\ turn'.got = {}
         \/ /\ turn'.at = "asking" /\ turn'.method = "call" /\ turn.method = "call"
            /\ turn'.reached = turn.reached /\ turn'.attempt = turn.attempt + 1
            /\ turn'.side = "held" /\ turn.side = "held" /\ turn'.tool = turn.tool
            /\ turn'.catalogue = turn.catalogue /\ turn'.seen = turn.seen
  <2>0. turn.catalogue \subseteq turn.granted
    BY <1>1 DEF TurnFits
  <2>1. CASE turn.side = "own"
    <3> DEFINE t == Concluded(turn)
    <3>1. /\ t \in Turns /\ t.at = "deciding" /\ t.method = "list" /\ t.reached = 0
          /\ t.got = {}
      BY <1>2, ConcludedShape
    <3>2. ~Retries(turn)
      BY <2>1, <1>1 DEF TurnFits, Retries
    <3>3. turn' = [t EXCEPT !.catalogue = {}]
      BY <2>1, <3>2, <1>7
    <3> HIDE DEF t
    <3> QED
      BY <3>1, <3>3 DEF Turns
  <2>2. CASE turn.side # "own" /\ Retries(turn)
    <3>1. turn' = [turn EXCEPT !.at = "asking", !.attempt = turn.attempt + 1]
      BY <2>2, <1>7
    <3>2. turn.attempt + 1 \in 0 .. MaxAttempts - 1 /\ turn.method = "call"
      BY <2>2, <1>2 DEF Retries, Turns
    <3>3. turn.side = "held"
      BY <2>2, <1>2 DEF Brokers
    <3> QED
      BY <3>1, <3>2, <3>3, <2>0, <1>2 DEF Turns, Busy
  <2>3. CASE turn.side # "own" /\ ~Retries(turn)
    <3>1. turn' = Concluded(turn)
      BY <2>3, <1>7
    <3> QED
      BY <2>0, <3>1, <1>2, ConcludedShape
  <2> QED
    BY <2>1, <2>2, <2>3
<1>9. ToolShapes'
  <2>1. McpSession \in Session
    BY DEF McpSession, Session
  <2>2. sessions' \in [Brokers -> Session]
    BY <2>1, <1>2, <1>5
  <2>3. \A b \in Brokers : sessions'[b].child <= Len(servers')
    <3> TAKE b \in Brokers
    <3>1. sessions[b].child <= Len(servers)
      BY <1>1 DEF ToolShapes
    <3>2. servers' \in Seq(Started)
      BY <1>3
    <3>3. 0 <= Len(servers')
      BY <3>2
    <3> HIDE DEF side
    <3> QED
      BY <3>1, <3>3, <1>3, <1>5
  <2> QED
    BY <2>2, <2>3, <1>1, <1>2, <1>3, <1>6, <1>8 DEF ToolShapes
<1>10. SessionsFit'
  <2>1. \A b \in Brokers : sessions'[b].child # 0 =>
          b # side /\ sessions'[b] = sessions[b] /\ sessions[b].child \in DOMAIN servers
          /\ sessions[b].child # session.child
    <3> SUFFICES ASSUME NEW b \in Brokers, sessions'[b].child # 0
                 PROVE  b # side /\ sessions'[b] = sessions[b] /\ sessions[b].child \in DOMAIN servers
                        /\ sessions[b].child # session.child
      OBVIOUS
    <3>1. b # side /\ sessions'[b] = sessions[b] /\ sessions[b].child # 0
      BY <1>5
    <3>2. sessions[b].child \in Nat /\ sessions[b].child <= Len(servers)
      BY <1>1, <1>2 DEF ToolShapes, Session
    <3>3. servers[sessions[b].child].by = b
      BY <3>1, <1>1 DEF SessionsFit
    <3>4. session.child # 0 => servers[session.child].by = side
      BY <1>2, <1>1 DEF SessionsFit
    <3>5. sessions[b].child \in 1 .. Len(servers)
      BY <3>1, <3>2, <1>2
    <3> QED
      BY <3>1, <3>3, <3>4, <3>5, <1>2
  <2>2. \A b \in Brokers : sessions'[b].child # 0 =>
       /\ servers'[sessions'[b].child].by = b
       /\ ~servers'[sessions'[b].child].closing
       /\ sessions'[b].agreed => servers'[sessions'[b].child].greeted
    BY <2>1, <1>4, <1>1 DEF SessionsFit
  <2>3. sessions'["held"].child # 0 => servers'[sessions'["held"].child].config = held'.of.config
    BY <2>1, <1>4, <1>1, <1>6 DEF SessionsFit, Brokers
  <2>4. \A b \in Brokers : sessions'[b].child = 0 /\ ~sessions'[b].closed => ~sessions'[b].agreed
    BY <1>5, <1>1 DEF SessionsFit
  <2> QED
    BY <2>2, <2>3, <2>4 DEF SessionsFit
<1>11. IntroducedFirst'
  BY <1>1, <1>3, <1>4 DEF IntroducedFirst
<1>12. AskedOnce'
  <2> SUFFICES ASSUME NEW p \in DOMAIN servers'
               PROVE  (servers'[p].asked # "nothing" => servers'[p].closing) /\ Replies(p)' = {}
    BY DEF AskedOnce, Requested, Replied
  <2>1. p \in DOMAIN servers
    BY <1>3
  <2>2. /\ servers'[p].asked # "nothing" => servers'[p].closing
        /\ \A i \in DOMAIN servers'[p].pipe : servers'[p].pipe[i].kind = "changed"
    BY <2>1, <1>4
  <2>3. Replies(p)' = {i \in DOMAIN servers'[p].pipe : servers'[p].pipe[i].kind # "changed"}
    BY DEF Replies
  <2> QED
    BY <2>2, <2>3
<1>13. NoneLeftBehind'
  <2> SUFFICES ASSUME NEW p \in DOMAIN servers, servers'[p].by = "held", servers'[p].up,
                      ~servers'[p].closing, Kind[servers'[p].config] = "stdio"
               PROVE  sessions'["held"].child = p
    BY <1>3 DEF NoneLeftBehind
  <2>1. sessions["held"].child = p
    BY <1>1, <1>4 DEF NoneLeftBehind
  <2>2. side # "held"
    BY <2>1, <1>4
  <2> QED
    BY <2>1, <2>2, <1>5 DEF Brokers
<1>14. TurnFits'
  BY <1>1, <1>6, <1>8 DEF TurnFits, Busy
<1>15. CallsCounted'
  <2>1. turn.reached \in Nat /\ turn.attempt \in Nat
    BY <1>2 DEF Turns
  <2>2. CASE turn'.method = "call"
    BY <2>1, <2>2, <1>1, <1>8 DEF CallsCounted
  <2>3. CASE turn'.method # "call"
    BY <2>3, <1>8 DEF CallsCounted
  <2> QED
    BY <2>2, <2>3
<1>16. ListedWasOffered'
  <2>1. turn'.at \in {"asking", "waiting"} => turn'.method # "list"
    BY <1>8
  <2>2. held'.list = held.list \/ held'.list = Unlisted
    BY <1>2, <1>6 DEF Brokers
  <2> QED
    BY <2>1, <2>2, <1>1, <1>6 DEF ListedWasOffered, Unlisted
<1> QED
  BY <1>9, <1>10, <1>11, <1>12, <1>13, <1>14, <1>15, <1>16 DEF ToolsInv

-------------------------------------------------------------------------------
(* What the turn does without waiting for a server.                          *)

\* While the turn waits for nobody, no server is asked anything or owes an answer.
LEMMA NobodyAsked ==
  ASSUME ToolsInv, turn.at # "waiting"
  PROVE  \A p \in DOMAIN servers :
           Replies(p) = {} /\ (servers[p].asked # "nothing" => servers[p].closing)
<1> SUFFICES ASSUME NEW p \in DOMAIN servers
             PROVE  Replies(p) = {} /\ (servers[p].asked # "nothing" => servers[p].closing)
  OBVIOUS
<1>1. ~Awaited(p)
  BY DEF Awaited
<1> QED
  BY <1>1 DEF ToolsInv, AskedOnce, Requested, Replied

\* Only the turn goes on, and is waiting for nobody before or after.
LEMMA TurnGoesOn ==
  ASSUME ToolConstants, ToolsInv, turn.at # "waiting", turn'.at # "waiting",
         UNCHANGED <<clock, connector, offers, offeredAt, servers, held, sessions>>,
         turn' \in Turns, used' \in Counters, TurnFits', CallsCounted',
         turn'.at = "asking" /\ turn'.method = "list" /\ turn'.side = "held" => turn'.got = {}
  PROVE  ToolsInv'
<1>1. /\ ToolShapes /\ SessionsFit /\ IntroducedFirst /\ AskedOnce /\ NoneLeftBehind
      /\ TurnFits /\ CallsCounted /\ ListedWasOffered
  BY DEF ToolsInv
<1>2. ToolShapes'
  BY <1>1 DEF ToolShapes
<1>3. SessionsFit'
  BY <1>1 DEF SessionsFit
<1>4. IntroducedFirst'
  BY <1>1 DEF IntroducedFirst
<1>5. AskedOnce'
  <2> SUFFICES ASSUME NEW p \in DOMAIN servers'
               PROVE  (servers'[p].asked # "nothing" => servers'[p].closing) /\ Replies(p)' = {}
    BY DEF AskedOnce, Requested, Replied
  <2>1. Replies(p)' = Replies(p)
    BY DEF Replies
  <2> QED
    BY <2>1, NobodyAsked
<1>6. NoneLeftBehind'
  BY <1>1 DEF NoneLeftBehind
<1>7. ListedWasOffered'
  BY <1>1 DEF ListedWasOffered
<1> QED
  BY <1>2, <1>3, <1>4, <1>5, <1>6, <1>7 DEF ToolsInv

LEMMA EndTurnKeeps ==
  ASSUME ToolConstants, ToolsInv, EndTurn
  PROVE  ToolsInv'
<1>1. ToolShapes /\ MaxAttempts \in Nat \ {0}
  BY DEF ToolsInv, ToolConstants
<1>2. turn' = NoTurn /\ used' \in Counters
  BY <1>1 DEF EndTurn, ToolShapes
<1>3. turn' \in Turns
  BY <1>1, <1>2 DEF Turns, NoTurn, Brokers
<1>4. TurnFits' /\ CallsCounted'
  BY <1>2 DEF TurnFits, CallsCounted, NoTurn, Busy
<1> QED
  BY <1>2, <1>3, <1>4, TurnGoesOn DEF EndTurn, NoTurn

LEMMA CallToolKeeps ==
  ASSUME ToolConstants, ToolsInv, NEW tool \in Tools, CallTool(tool)
  PROVE  ToolsInv'
<1>1. /\ turn \in Turns /\ turn.at = "deciding" /\ turn.method = "list" /\ turn.reached = 0
      /\ turn.catalogue \subseteq turn.granted /\ used' \in Counters
  BY DEF ToolsInv, ToolShapes, TurnFits, CallsCounted, CallTool
<1>2. turn.at # "waiting"
  BY <1>1
<1>3. turn' = [turn EXCEPT !.at = IF Callable(tool) THEN "office" ELSE "deciding",
                           !.side = "held", !.method = "list", !.tool = tool, !.calls = turn.calls + 1]
  BY DEF CallTool
<1>a. turn.got = {} /\ turn.calls \in Nat
  BY <1>1 DEF ToolsInv, TurnFits, CallTool, Turns
<1>4. /\ turn' \in Turns /\ turn'.at \in {"office", "deciding"} /\ turn'.side = "held"
      /\ turn'.method = "list" /\ turn'.tool = tool /\ turn'.reached = 0 /\ turn'.got = turn.got
      /\ turn'.catalogue = turn.catalogue /\ turn'.granted = turn.granted
      /\ turn'.at = "office" => tool \in turn.catalogue
  <2> DEFINE at == IF Callable(tool) THEN "office" ELSE "deciding"
  <2>1. at \in {"office", "deciding"} /\ (at = "office" => tool \in turn.catalogue)
    BY DEF Callable
  <2> HIDE DEF at
  <2>2. turn' = [turn EXCEPT !.at = at, !.side = "held", !.method = "list", !.tool = tool,
                             !.calls = turn.calls + 1]
    BY <1>3 DEF at
  <2>3. turn \in Turns /\ turn.calls + 1 \in Nat /\ tool \in Tools /\ "held" \in Brokers
    BY <1>1, <1>a DEF Brokers
  <2>4. turn' \in Turns
    BY <2>1, <2>2, <2>3 DEF Turns, Busy
  <2>5. /\ turn'.at = at /\ turn'.side = "held"
        /\ turn'.method = "list" /\ turn'.tool = tool /\ turn'.reached = turn.reached
        /\ turn'.got = turn.got
        /\ turn'.catalogue = turn.catalogue /\ turn'.granted = turn.granted
    BY <2>2, <2>3 DEF Turns
  <2> QED
    BY <1>1, <2>1, <2>4, <2>5
<1>5. TurnFits' /\ CallsCounted'
  BY <1>1, <1>a, <1>4 DEF TurnFits, CallsCounted, Busy
<1> QED
  BY <1>1, <1>2, <1>a, <1>4, <1>5, TurnGoesOn DEF CallTool

LEMMA ConsultKeeps ==
  ASSUME ToolConstants, ToolsInv, Consult
  PROVE  ToolsInv'
<1>1. /\ turn \in Turns /\ turn.at = "consulting" /\ turn.at # "waiting" /\ used' \in Counters
      /\ turn.side = "held" /\ turn.method = "list" /\ turn.reached = 0 /\ turn.got = {}
      /\ turn.catalogue \subseteq turn.granted /\ turn.tool \in turn.catalogue
      /\ held.of = turn.seen /\ MaxAttempts \in Nat \ {0}
  BY DEF ToolsInv, ToolShapes, TurnFits, CallsCounted, Consult, Busy, ToolConstants
<1>2. /\ turn' \in Turns /\ turn'.at # "waiting" /\ turn'.reached = 0 /\ turn'.got = {}
      /\ turn'.catalogue = turn.catalogue /\ turn'.granted = turn.granted
      /\ \/ turn'.at = "deciding" /\ turn'.method = "list"
         \/ /\ turn'.at = "asking" /\ turn'.side = "held" /\ turn'.tool = turn.tool
            /\ turn'.seen = turn.seen /\ held.of.enabled
  <2>1. CASE ~held.of.enabled
    <3>1. turn' = Concluded(turn)
      BY <2>1 DEF Consult
    <3> QED
      BY <3>1, <1>1, ConcludedShape
  <2>2. CASE held.of.enabled /\ FreshList(held.list)
    <3>1. turn' = Knowing(turn, held.list.tools)
      BY <2>2 DEF Consult
    <3>2. CASE turn.tool \in held.list.tools
      <4>1. turn' = [turn EXCEPT !.at = "asking", !.method = "call", !.attempt = 0, !.page = 0,
                                 !.got = {}]
        BY <3>1, <3>2 DEF Knowing
      <4> QED
        <5>1. 0 \in 0 .. MaxAttempts - 1 /\ turn \in Turns
          BY <1>1
        <5>2. turn' \in Turns
          BY <4>1, <5>1 DEF Turns, Busy
        <5>3. /\ turn'.at = "asking" /\ turn'.method = "call" /\ turn'.got = {}
              /\ turn'.reached = turn.reached /\ turn'.catalogue = turn.catalogue
              /\ turn'.granted = turn.granted /\ turn'.side = turn.side
              /\ turn'.tool = turn.tool /\ turn'.seen = turn.seen
          BY <4>1, <5>1 DEF Turns
        <5> QED
          BY <1>1, <2>2, <5>2, <5>3
    <3>3. CASE turn.tool \notin held.list.tools
      <4>1. turn' = Concluded(turn)
        BY <3>1, <3>3 DEF Knowing
      <4>2. turn \in Turns
        BY <1>1
      <4> QED
        BY <4>1, <4>2, <1>1, ConcludedShape
    <3> QED
      BY <3>2, <3>3
  <2>3. CASE held.of.enabled /\ ~FreshList(held.list)
    <3>1. turn' = [turn EXCEPT !.at = "asking"]
      BY <2>3 DEF Consult
    <3>2. turn \in Turns
      BY <1>1
    <3>3. turn' \in Turns
      BY <3>1, <3>2 DEF Turns, Busy
    <3>4. /\ turn'.at = "asking" /\ turn'.got = turn.got
          /\ turn'.reached = turn.reached /\ turn'.catalogue = turn.catalogue
          /\ turn'.granted = turn.granted /\ turn'.side = turn.side
          /\ turn'.tool = turn.tool /\ turn'.seen = turn.seen
      BY <3>1, <3>2 DEF Turns
    <3> QED
      BY <1>1, <2>3, <3>3, <3>4
  <2> QED
    BY <2>1, <2>2, <2>3
<1>3. turn'.attempt \in Nat
  BY <1>2 DEF Turns
<1>4. TurnFits'
  <2>1. held' = held
    BY DEF Consult
  <2>2. CASE turn'.at = "deciding" /\ turn'.method = "list"
    BY <1>1, <1>2, <2>2 DEF TurnFits, Busy
  <2>3. CASE /\ turn'.at = "asking" /\ turn'.side = "held" /\ turn'.tool = turn.tool
             /\ turn'.seen = turn.seen /\ held.of.enabled
    BY <1>1, <1>2, <2>1, <2>3 DEF TurnFits, Busy
  <2> QED
    BY <1>2, <2>2, <2>3
<1>5. CallsCounted'
  BY <1>1, <1>2, <1>3, SMTT(30) DEF CallsCounted
<1> QED
  BY <1>1, <1>2, <1>4, <1>5, TurnGoesOn DEF Consult

LEMMA OfficeEditsKeeps ==
  ASSUME ToolConstants, ToolsInv, NEW c \in Connectors, OfficeEdits(c)
  PROVE  ToolsInv'
<1>1. /\ ToolShapes /\ SessionsFit /\ IntroducedFirst /\ AskedOnce /\ NoneLeftBehind
      /\ TurnFits /\ CallsCounted /\ ListedWasOffered
  BY DEF ToolsInv
<1>2. /\ connector' = c /\ UNCHANGED <<clock, offers, offeredAt, servers, held, sessions, turn>>
      /\ used' = [used EXCEPT !.edits = used.edits + 1]
  BY DEF OfficeEdits
<1>3. ToolShapes'
  BY <1>1, <1>2 DEF ToolShapes, Counters
<1>4. SessionsFit' /\ IntroducedFirst' /\ NoneLeftBehind'
  BY <1>1, <1>2 DEF SessionsFit, IntroducedFirst, NoneLeftBehind
<1>5. AskedOnce'
  BY <1>1, <1>2 DEF AskedOnce, Requested, Replied, Awaited, Replies
<1>6. TurnFits' /\ CallsCounted' /\ ListedWasOffered'
  BY <1>1, <1>2 DEF TurnFits, CallsCounted, ListedWasOffered
<1> QED
  BY <1>3, <1>4, <1>5, <1>6 DEF ToolsInv

LEMMA TimePassesKeeps ==
  ASSUME ToolConstants, ToolsInv, TimePasses
  PROVE  ToolsInv'
<1>1. /\ ToolShapes /\ SessionsFit /\ IntroducedFirst /\ AskedOnce /\ NoneLeftBehind
      /\ TurnFits /\ CallsCounted /\ ListedWasOffered /\ MaxTime \in Nat
  BY DEF ToolsInv, ToolConstants
<1>2. /\ clock' = clock + 1 /\ clock < MaxTime
      /\ UNCHANGED <<connector, offers, servers, held, sessions, turn, used>>
      /\ ~(turn.at \in {"asking", "waiting"} /\ turn.method = "list")
      /\ offeredAt' = [c \in Configs |-> [t \in Tools |->
                     IF t \in offers[c] THEN clock' ELSE offeredAt[c][t]]]
  BY DEF TimePasses
<1>3. clock \in Nat /\ clock' \in 1 .. MaxTime
  BY <1>1, <1>2 DEF ToolShapes
<1>4. offeredAt' \in [Configs -> [Tools -> Nat]]
  BY <1>1, <1>2, <1>3 DEF ToolShapes
<1>5. ToolShapes'
  BY <1>1, <1>2, <1>3, <1>4 DEF ToolShapes
<1>6. SessionsFit' /\ IntroducedFirst' /\ NoneLeftBehind'
  BY <1>1, <1>2 DEF SessionsFit, IntroducedFirst, NoneLeftBehind
<1>7. AskedOnce'
  <2>1. \A p : Awaited(p)' = Awaited(p) /\ Replies(p)' = Replies(p)
    BY <1>2 DEF Awaited, Replies
  <2>2. \A p \in DOMAIN servers : \A i \in Replies(p) : servers[p].pipe[i].kind # "page"
    BY <1>1, <1>2 DEF AskedOnce, Requested, Replied, Awaited
  <2> SUFFICES ASSUME NEW p \in DOMAIN servers
               PROVE  (Requested(p) /\ \A i \in Replies(p) : Replied(p, i))'
    BY <1>2 DEF AskedOnce
  <2>3. /\ servers[p].asked # "nothing" /\ ~servers[p].closing =>
         /\ Awaited(p)
         /\ Replies(p) = {}
         /\ IF servers[p].asked = "initialize" THEN ~sessions[servers[p].by].agreed
            ELSE sessions[servers[p].by].agreed /\ servers[p].asked = turn.method
    BY <1>1 DEF AskedOnce, Requested, Replied
  <2>4. \A i \in Replies(p) :
         /\ Awaited(p)
         /\ \A j \in Replies(p) : i = j
         /\ servers[p].pipe[i].kind = "agreed" =>
              servers[p].greeted /\ ~sessions[servers[p].by].agreed
    BY <1>1 DEF AskedOnce, Requested, Replied
  <2> QED
    BY <1>2, <2>1, <2>2, <2>3, <2>4 DEF Requested, Replied
<1>8. TurnFits' /\ CallsCounted'
  BY <1>1, <1>2 DEF TurnFits, CallsCounted
<1>9. ListedWasOffered'
  <2>1. \A c \in Configs : \A t \in Tools :
          /\ t \in offers[c] => offeredAt'[c][t] = clock'
          /\ t \notin offers[c] => offeredAt'[c][t] = offeredAt[c][t]
    BY <1>2
  <2>2. \A c \in Configs : offers[c] \subseteq Tools
    BY <1>1 DEF ToolShapes
  <2>3. held.list.known => held.of.config \in Configs /\ held.list.tools \subseteq Tools
          /\ held.list.at \in Nat
    BY <1>1 DEF ToolShapes, ListedWasOffered, Connectors, Broker, Listing
  <2>4. held.list.known => held.list.at <= clock /\
          \A t \in held.list.tools : offeredAt'[held.of.config][t] >= held.list.at
    BY <1>1, <1>2, <1>3, <2>1, <2>2, <2>3 DEF ListedWasOffered
  <2> QED
    BY <1>1, <1>2, <1>3, <2>1, <2>2, <2>3, <2>4 DEF ListedWasOffered
<1> QED
  BY <1>5, <1>6, <1>7, <1>8, <1>9 DEF ToolsInv

-------------------------------------------------------------------------------
(* What is written to a server, and the server that is started for it.       *)

\* One server in the place of another.
LEMMA OneReplaced ==
  ASSUME NEW ss \in Seq(Started), NEW p \in DOMAIN ss, NEW s \in Started
  PROVE  /\ [ss EXCEPT ![p] = s] \in Seq(Started) /\ Len([ss EXCEPT ![p] = s]) = Len(ss)
         /\ DOMAIN [ss EXCEPT ![p] = s] = DOMAIN ss
         /\ [ss EXCEPT ![p] = s][p] = s
         /\ \A q \in DOMAIN ss : q # p => [ss EXCEPT ![p] = s][q] = ss[q]
<1>1. p \in 1 .. Len(ss) /\ DOMAIN ss = 1 .. Len(ss)
  OBVIOUS
<1>2. DOMAIN [ss EXCEPT ![p] = s] = DOMAIN ss
  OBVIOUS
<1> QED
  BY <1>1, <1>2, ExceptSeq

LEMMA BeginTurnKeeps ==
  ASSUME ToolConstants, ToolsInv, NEW granted \in Grants, BeginTurn(granted)
  PROVE  ToolsInv'
<1>1. /\ ToolShapes /\ SessionsFit /\ IntroducedFirst /\ AskedOnce /\ NoneLeftBehind
      /\ TurnFits /\ CallsCounted /\ ListedWasOffered /\ MaxAttempts \in Nat \ {0}
      /\ granted \in SUBSET Tools
  BY DEF ToolsInv, ToolConstants
<1>2. /\ UNCHANGED <<clock, connector, offers, offeredAt, servers, held>>
      /\ used' = [used EXCEPT !.turns = used.turns + 1]
      /\ sessions' = [sessions EXCEPT !["own"] = McpSession] /\ turn.at # "waiting"
  BY DEF BeginTurn
<1>3. /\ turn' \in Turns /\ turn'.at \in {"asking", "deciding"} /\ turn'.side = "own"
      /\ turn'.method = "list" /\ turn'.got = {} /\ turn'.reached = 0 /\ turn'.catalogue = {}
      /\ turn'.seen \in Connectors
  <2> DEFINE at == IF connector.enabled THEN "asking" ELSE "deciding"
  <2>1. turn' = [NoTurn EXCEPT !.at = at, !.side = "own", !.seen = connector, !.granted = granted]
    BY DEF BeginTurn
  <2>2. at \in {"asking", "deciding"} /\ connector \in Connectors
    BY <1>1 DEF ToolShapes
  <2>3. NoTurn \in Turns /\ NoTurn.method = "list" /\ NoTurn.got = {} /\ NoTurn.reached = 0
        /\ NoTurn.catalogue = {}
    BY <1>1 DEF Turns, NoTurn, Brokers
  <2> HIDE DEF at
  <2>4. turn' \in Turns
    BY <1>1, <2>1, <2>2, <2>3 DEF Turns, Brokers, Busy
  <2> QED
    BY <2>1, <2>2, <2>3, <2>4 DEF Turns
<1>4. /\ sessions' \in [Brokers -> Session] /\ sessions'["held"] = sessions["held"]
      /\ sessions'["own"] = McpSession /\ McpSession.child = 0 /\ ~McpSession.agreed
  <2>1. McpSession \in Session
    BY DEF McpSession, Session
  <2> QED
    BY <1>1, <1>2, <2>1 DEF ToolShapes, McpSession, Brokers
<1>5. ToolShapes'
  <2>1. \A b \in Brokers : sessions'[b].child <= Len(servers')
    BY <1>1, <1>2, <1>4 DEF ToolShapes, Brokers
  <2> QED
    BY <1>1, <1>2, <1>3, <1>4, <2>1 DEF ToolShapes, Counters
<1>6. SessionsFit'
  BY <1>1, <1>2, <1>4 DEF SessionsFit, Brokers
<1>7. IntroducedFirst' /\ NoneLeftBehind'
  BY <1>1, <1>2, <1>4 DEF IntroducedFirst, NoneLeftBehind
<1>8. AskedOnce'
  <2> SUFFICES ASSUME NEW p \in DOMAIN servers'
               PROVE  (servers'[p].asked # "nothing" => servers'[p].closing) /\ Replies(p)' = {}
    BY DEF AskedOnce, Requested, Replied
  <2>1. Replies(p)' = Replies(p)
    BY <1>2 DEF Replies
  <2> QED
    BY <1>2, <2>1, NobodyAsked
<1>9. TurnFits' /\ CallsCounted'
  BY <1>3 DEF TurnFits, CallsCounted, Busy
<1>10. ListedWasOffered'
  BY <1>1, <1>2, <1>3 DEF ListedWasOffered
<1> QED
  BY <1>5, <1>6, <1>7, <1>8, <1>9, <1>10 DEF ToolsInv

\* A request is written to a server that runs.
Writes(p, method) ==
  /\ turn.at = "asking" /\ p = sessions[turn.side].child /\ p # 0
  /\ method = IF sessions[turn.side].agreed THEN turn.method ELSE "initialize"
  /\ servers' = [servers EXCEPT ![p].asked = method, ![p].served = @ \/ method # "initialize"]
  /\ turn' = [turn EXCEPT !.at = "waiting"]
  /\ UNCHANGED <<clock, connector, offers, offeredAt, used, sessions, held>>

LEMMA WritesKeeps ==
  ASSUME ToolConstants, ToolsInv, NEW p, NEW method, Writes(p, method)
  PROVE  ToolsInv'
<1>1. /\ ToolShapes /\ SessionsFit /\ IntroducedFirst /\ AskedOnce /\ NoneLeftBehind
      /\ TurnFits /\ CallsCounted /\ ListedWasOffered
  BY DEF ToolsInv
<1>0. /\ turn.at = "asking" /\ p = sessions[turn.side].child /\ p # 0
      /\ method = IF sessions[turn.side].agreed THEN turn.method ELSE "initialize"
      /\ UNCHANGED <<clock, connector, offers, offeredAt, used, sessions, held>>
  BY DEF Writes
<1>2. /\ turn \in Turns /\ turn.side \in Brokers /\ sessions \in [Brokers -> Session]
      /\ servers \in Seq(Started) /\ DOMAIN servers = 1 .. Len(servers) /\ Len(servers) \in Nat
  BY <1>1 DEF ToolShapes, Turns
<1>3. p \in DOMAIN servers /\ sessions[turn.side].agreed \in BOOLEAN
  BY <1>0, <1>1, <1>2 DEF ToolShapes, Session
<1>4. /\ servers[p] \in Started /\ servers[p].by = turn.side /\ ~servers[p].closing
      /\ sessions[turn.side].agreed => servers[p].greeted
  BY <1>0, <1>1, <1>2, <1>3 DEF SessionsFit
<1>5. /\ method \in {"initialize", "list", "call"} /\ (method = "initialize") = ~sessions[turn.side].agreed
      /\ sessions[turn.side].agreed => method = turn.method
  BY <1>0, <1>2, <1>3 DEF Turns
<1>6. PICK so \in BOOLEAN : so = (servers[p].served \/ method # "initialize")
  BY <1>4 DEF Started
<1> DEFINE new == [servers[p] EXCEPT !.asked = method, !.served = so]
<1>7. /\ new \in Started /\ new.asked = method /\ new.served = so
      /\ new.config = servers[p].config /\ new.by = servers[p].by
      /\ new.up = servers[p].up /\ new.closing = servers[p].closing
      /\ new.greeted = servers[p].greeted /\ new.pipe = servers[p].pipe
  BY <1>4, <1>5 DEF Started
<1>a. servers' = [servers EXCEPT ![p] = new]
  BY <1>3, <1>6 DEF Writes
<1> HIDE DEF new
<1>8. /\ servers' \in Seq(Started) /\ Len(servers') = Len(servers) /\ DOMAIN servers' = DOMAIN servers
      /\ servers'[p] = new /\ \A q \in DOMAIN servers : q # p => servers'[q] = servers[q]
  <2>1. /\ [servers EXCEPT ![p] = new] \in Seq(Started) /\ Len([servers EXCEPT ![p] = new]) = Len(servers)
        /\ DOMAIN [servers EXCEPT ![p] = new] = DOMAIN servers
        /\ [servers EXCEPT ![p] = new][p] = new
        /\ \A q \in DOMAIN servers : q # p => [servers EXCEPT ![p] = new][q] = servers[q]
    BY <1>2, <1>3, <1>7, OneReplaced
  <2> QED
    BY <1>a, <2>1
<1>b. \A q \in DOMAIN servers :
        /\ servers'[q].config = servers[q].config /\ servers'[q].by = servers[q].by
        /\ servers'[q].up = servers[q].up /\ servers'[q].closing = servers[q].closing
        /\ servers'[q].greeted = servers[q].greeted /\ servers'[q].pipe = servers[q].pipe
  BY <1>7, <1>8
<1>9. /\ turn' \in Turns /\ turn'.at = "waiting" /\ turn'.side = turn.side /\ turn'.method = turn.method
      /\ turn'.reached = turn.reached /\ turn'.attempt = turn.attempt /\ turn'.tool = turn.tool
      /\ turn'.got = turn.got /\ turn'.seen = turn.seen /\ turn'.granted = turn.granted
      /\ turn'.catalogue = turn.catalogue
  BY <1>2 DEF Turns, Busy, Writes
<1>10. ToolShapes'
  BY <1>0, <1>1, <1>8, <1>9 DEF ToolShapes
<1>11. SessionsFit'
  <2>1. \A b \in Brokers : sessions[b].child # 0 => sessions[b].child \in DOMAIN servers
    BY <1>1, <1>2 DEF ToolShapes, Session
  <2> QED
    <3>1. sessions' = sessions /\ held' = held /\ "held" \in Brokers
      BY <1>0 DEF Brokers
    <3>2. SessionsFit
      BY <1>1
    <3>3. \A b \in Brokers : sessions[b].child # 0 =>
           /\ servers'[sessions[b].child].by = b
           /\ ~servers'[sessions[b].child].closing
           /\ sessions[b].agreed => servers'[sessions[b].child].greeted
      BY <3>2, <1>b, <2>1 DEF SessionsFit
    <3>4. sessions["held"].child # 0 => servers'[sessions["held"].child].config = held.of.config
      BY <3>1, <3>2, <1>b, <2>1 DEF SessionsFit
    <3> QED
      BY <3>1, <3>2, <3>3, <3>4 DEF SessionsFit
<1>12. IntroducedFirst'
  BY <1>1, <1>4, <1>5, <1>6, <1>7, <1>8, <1>b DEF IntroducedFirst
<1>13. AskedOnce'
  <2>1. \A q \in DOMAIN servers : Replies(q)' = {}
    <3> SUFFICES ASSUME NEW q \in DOMAIN servers PROVE Replies(q)' = {}
      OBVIOUS
    <3>1. servers'[q].pipe = servers[q].pipe
      BY <1>b
    <3>2. Replies(q)' = Replies(q)
      BY <3>1 DEF Replies
    <3> QED
      BY <1>0, <3>2, NobodyAsked
  <2>2. \A q \in DOMAIN servers : q # p => (servers'[q].asked # "nothing" => servers'[q].closing)
    BY <1>0, <1>8, NobodyAsked
  <2>3. Awaited(p)'
    BY <1>0, <1>3, <1>4, <1>b, <1>9 DEF Awaited
  <2>4. IF servers'[p].asked = "initialize" THEN ~sessions'[servers'[p].by].agreed
            ELSE sessions'[servers'[p].by].agreed /\ servers'[p].asked = turn'.method
    BY <1>0, <1>3, <1>4, <1>5, <1>7, <1>8, <1>9
  <2> QED
    BY <1>8, <2>1, <2>2, <2>3, <2>4 DEF AskedOnce, Requested, Replied
<1>14. NoneLeftBehind'
  <2>1. sessions' = sessions
    BY <1>0
  <2> QED
    BY <1>1, <2>1, <1>8, <1>b DEF NoneLeftBehind
<1>15. TurnFits'
  BY <1>0, <1>1, <1>9 DEF TurnFits, Busy
<1>16. CallsCounted'
  BY <1>0, <1>1, <1>9 DEF CallsCounted
<1>17. ListedWasOffered'
  BY <1>0, <1>1, <1>9 DEF ListedWasOffered
<1> QED
  BY <1>10, <1>11, <1>12, <1>13, <1>14, <1>15, <1>16, <1>17 DEF ToolsInv

\* A server is started, and asked who it is.
StartsOne ==
  /\ turn.at = "asking" /\ sessions[turn.side].child = 0 /\ ~sessions[turn.side].closed
  /\ servers' = Append(servers, [Server("initialize") EXCEPT !.served = FALSE])
  /\ sessions' = [sessions EXCEPT ![turn.side].open = TRUE,
                                  ![turn.side].child = Len(servers) + 1]
  /\ turn' = [turn EXCEPT !.at = "waiting"]
  /\ UNCHANGED <<clock, connector, offers, offeredAt, used, held>>

LEMMA StartsOneKeeps ==
  ASSUME ToolConstants, ToolsInv, StartsOne
  PROVE  ToolsInv'
<1>1. /\ ToolShapes /\ SessionsFit /\ IntroducedFirst /\ AskedOnce /\ NoneLeftBehind
      /\ TurnFits /\ CallsCounted /\ ListedWasOffered
  BY DEF ToolsInv
<1> DEFINE side == turn.side
<1>n. PICK n \in Nat : n = Len(servers) + 1
  BY <1>1 DEF ToolShapes
<1>2. /\ turn \in Turns /\ side \in Brokers /\ sessions \in [Brokers -> Session]
      /\ servers \in Seq(Started) /\ DOMAIN servers = 1 .. Len(servers) /\ Len(servers) \in Nat
      /\ held \in Broker
  BY <1>1 DEF ToolShapes, Turns
<1>3. /\ turn.at = "asking" /\ sessions[side].child = 0 /\ ~sessions[side].closed
      /\ UNCHANGED <<clock, connector, offers, offeredAt, used, held>>
  BY DEF StartsOne
<1>4. ~sessions[side].agreed
  BY <1>1, <1>2, <1>3 DEF SessionsFit
<1>5. Target.config \in Configs /\ (side = "held" => Target.config = held.of.config)
  <2>1. CASE side = "own"
    BY <2>1, <1>1, <1>3 DEF Target, TurnFits, Connectors
  <2>2. CASE side # "own"
    <3>1. side = "held" /\ held.of.enabled
      BY <2>2, <1>1, <1>2, <1>3 DEF Brokers, TurnFits
    <3>2. held.of \in Connectors
      BY <3>1, <1>2 DEF Broker, Unconnected
    <3> QED
      BY <2>2, <3>1, <3>2 DEF Target, Connectors
  <2> QED
    BY <2>1, <2>2
<1> DEFINE new == [Server("initialize") EXCEPT !.served = FALSE]
<1>6. /\ new \in Started /\ new.asked = "initialize" /\ ~new.served /\ new.by = side /\ ~new.closing
      /\ new.config = Target.config /\ new.pipe = << >>
  <2>1. Server("initialize") \in Started /\ Server("initialize").asked = "initialize"
        /\ Server("initialize").by = side /\ ~Server("initialize").closing
        /\ Server("initialize").config = Target.config /\ Server("initialize").pipe = << >>
    BY <1>2, <1>5 DEF Server, Started
  <2> QED
    BY <2>1 DEF Started
<1>7. servers' = Append(servers, new)
  BY DEF StartsOne
<1> HIDE DEF new
<1>8. /\ servers' \in Seq(Started) /\ Len(servers') = n /\ DOMAIN servers' = DOMAIN servers \cup {n}
      /\ servers'[n] = new /\ \A q \in DOMAIN servers : servers'[q] = servers[q] /\ q # n
  BY <1>n, <1>2, <1>6, <1>7
<1>9. /\ sessions' \in [Brokers -> Session] /\ sessions'[side].child = n /\ ~sessions'[side].agreed
      /\ \A b \in Brokers : b # side => sessions'[b] = sessions[b]
  <2>1. PICK s \in Session : s = sessions[side]
    BY <1>2
  <2> DEFINE t == [s EXCEPT !.open = TRUE, !.child = n]
  <2>2. sessions' = [sessions EXCEPT ![side] = t]
    BY <1>n, <1>2, <2>1 DEF StartsOne
  <2>3. n \in Nat
    OBVIOUS
  <2>4. t \in Session /\ t.child = n /\ t.agreed = s.agreed
    BY <2>3 DEF Session
  <2> HIDE DEF t
  <2> QED
    BY <2>1, <2>2, <2>4, <1>2, <1>4
<1>10. /\ turn' \in Turns /\ turn'.at = "waiting" /\ turn'.side = turn.side /\ turn'.method = turn.method
      /\ turn'.reached = turn.reached /\ turn'.attempt = turn.attempt /\ turn'.tool = turn.tool
      /\ turn'.got = turn.got /\ turn'.seen = turn.seen /\ turn'.granted = turn.granted
      /\ turn'.catalogue = turn.catalogue
  BY <1>2 DEF Turns, Busy, StartsOne
<1>11. \A b \in Brokers : sessions[b].child \in Nat /\ sessions[b].child <= Len(servers)
                            /\ (sessions[b].child # 0 => sessions[b].child \in DOMAIN servers)
  BY <1>1, <1>2 DEF ToolShapes, Session
<1>12. ToolShapes'
  <2>1. \A b \in Brokers : sessions'[b].child <= Len(servers')
    BY <1>n, <1>2, <1>8, <1>9, <1>11
  <2> QED
    BY <1>1, <1>3, <1>8, <1>9, <1>10, <2>1 DEF ToolShapes
<1>13. SessionsFit'
  <2>1. \A b \in Brokers : sessions'[b].child = 0 /\ ~sessions'[b].closed => ~sessions'[b].agreed
    BY <1>1, <1>9 DEF SessionsFit
  <2>2. ASSUME NEW b \in Brokers, sessions'[b].child # 0
        PROVE  /\ servers'[sessions'[b].child].by = b
               /\ ~servers'[sessions'[b].child].closing
               /\ sessions'[b].agreed => servers'[sessions'[b].child].greeted
    <3>1. CASE b = side
      BY <3>1, <1>n, <1>6, <1>8, <1>9
    <3>2. CASE b # side
      BY <2>2, <3>2, <1>1, <1>8, <1>9, <1>11 DEF SessionsFit
    <3> QED
      BY <3>1, <3>2
  <2>3. sessions'["held"].child # 0 => servers'[sessions'["held"].child].config = held'.of.config
    <3>1. CASE side = "held"
      BY <3>1, <1>3, <1>5, <1>6, <1>8, <1>9
    <3>2. CASE side # "held"
      <4>1. sessions'["held"] = sessions["held"] /\ "held" \in Brokers
        BY <3>2, <1>9 DEF Brokers
      <4> QED
        BY <4>1, <1>1, <1>3, <1>8, <1>11 DEF SessionsFit
    <3> QED
      BY <3>1, <3>2
  <2> QED
    BY <2>1, <2>2, <2>3 DEF SessionsFit
<1>14. IntroducedFirst'
  BY <1>1, <1>6, <1>8 DEF IntroducedFirst
<1>15. AskedOnce'
  <2>1. \A q \in DOMAIN servers : Replies(q)' = {} /\ (servers'[q].asked # "nothing" => servers'[q].closing)
    <3> SUFFICES ASSUME NEW q \in DOMAIN servers
                 PROVE Replies(q)' = {} /\ (servers'[q].asked # "nothing" => servers'[q].closing)
      OBVIOUS
    <3>1. servers'[q] = servers[q]
      BY <1>8
    <3>2. Replies(q)' = Replies(q)
      BY <3>1 DEF Replies
    <3> QED
      BY <1>3, <3>1, <3>2, NobodyAsked
  <2>2. Awaited(n)'
    BY <1>6, <1>8, <1>9, <1>10 DEF Awaited
  <2>a. Replies(n)' = {}
    <3>1. DOMAIN servers'[n].pipe = {}
      BY <1>6, <1>8
    <3> QED
      BY <3>1 DEF Replies
  <2>3. servers'[n].asked = "initialize" /\ ~sessions'[servers'[n].by].agreed
    BY <1>6, <1>8, <1>9
  <2> QED
    BY <1>8, <2>1, <2>2, <2>3, <2>a DEF AskedOnce, Requested, Replied
<1>16. NoneLeftBehind'
  <2> SUFFICES ASSUME NEW p \in DOMAIN servers', servers'[p].by = "held", servers'[p].up,
                      ~servers'[p].closing, Kind[servers'[p].config] = "stdio"
               PROVE  sessions'["held"].child = p
    BY DEF NoneLeftBehind
  <2>1. CASE p = n
    BY <2>1, <1>6, <1>8, <1>9
  <2>2. CASE p \in DOMAIN servers
    <3>1. sessions["held"].child = p /\ p # 0
      BY <2>2, <1>1, <1>2, <1>8 DEF NoneLeftBehind
    <3> QED
      BY <3>1, <1>3, <1>9 DEF Brokers
  <2> QED
    BY <1>8, <2>1, <2>2
<1>17. TurnFits'
  BY <1>n, <1>1, <1>2, <1>3, <1>9, <1>10 DEF TurnFits, Busy
<1>18. CallsCounted'
  BY <1>1, <1>3, <1>10 DEF CallsCounted
<1>19. ListedWasOffered'
  BY <1>1, <1>3, <1>10 DEF ListedWasOffered
<1> QED
  BY <1>12, <1>13, <1>14, <1>15, <1>16, <1>17, <1>18, <1>19 DEF ToolsInv

LEMMA AskKeeps ==
  ASSUME ToolConstants, ToolsInv, Ask
  PROVE  ToolsInv'
<1> DEFINE session == sessions[turn.side]
           method == IF session.agreed THEN turn.method ELSE "initialize"
           p == session.child
<1>1. /\ ToolShapes /\ turn \in Turns /\ turn.side \in Brokers /\ sessions \in [Brokers -> Session]
      /\ servers \in Seq(Started) /\ turn.at = "asking" /\ used' \in Counters
      /\ UNCHANGED <<clock, connector, offers, offeredAt, used>>
  BY DEF ToolsInv, ToolShapes, Turns, Ask
<1>2. CASE Fail(servers)
  <2>1. Quietened(servers)
    <3>1. \A q \in DOMAIN servers : Replies(q) = {} /\ (servers[q].asked # "nothing" => servers[q].closing)
      BY <1>1, NobodyAsked
    <3> QED
      BY <1>1, <3>1 DEF Quietened, Replies
  <2>2. turn.at \in {"asking", "waiting"}
    BY <1>1
  <2> QED
    BY <1>1, <1>2, <2>1, <2>2, FailKeeps
<1>3. CASE /\ p # 0
           /\ servers' = [servers EXCEPT ![p].asked = method,
                                         ![p].served = @ \/ method # "initialize"]
           /\ turn' = [turn EXCEPT !.at = "waiting"]
           /\ UNCHANGED <<sessions, held>>
  <2>1. Writes(p, method)
    BY <1>1, <1>3 DEF Writes
  <2> QED
    BY <2>1, WritesKeeps
<1>4. CASE /\ ~session.closed /\ p = 0
           /\ servers' = Append(servers, [Server(method) EXCEPT !.served = method # "initialize"])
           /\ sessions' = [sessions EXCEPT ![turn.side].open = TRUE,
                                           ![turn.side].child = Len(servers) + 1]
           /\ turn' = [turn EXCEPT !.at = "waiting"]
           /\ UNCHANGED held
  <2>1. ~session.agreed
    BY <1>1, <1>4 DEF ToolsInv, SessionsFit
  <2>2. method = "initialize" /\ (method # "initialize") = FALSE
    BY <2>1
  <2>3. [Server(method) EXCEPT !.served = method # "initialize"] = [Server("initialize") EXCEPT !.served = FALSE]
    BY <2>2
  <2> HIDE DEF method
  <2>4. StartsOne
    BY <1>1, <1>4, <2>3 DEF StartsOne
  <2> QED
    BY <2>4, StartsOneKeeps
<1> QED
  BY <1>2, <1>3, <1>4 DEF Ask

-------------------------------------------------------------------------------
(* What servers do: they answer, offer other tools, and exit.                *)

\* While the turn waits for a server, no other is asked anything or owes an answer.
LEMMA OnlyOneAwaited ==
  ASSUME ToolsInv, NEW p, Awaited(p)
  PROVE  \A q \in DOMAIN servers : q # p =>
           Replies(q) = {} /\ (servers[q].asked # "nothing" => servers[q].closing)
<1> SUFFICES ASSUME NEW q \in DOMAIN servers, q # p
             PROVE  Replies(q) = {} /\ (servers[q].asked # "nothing" => servers[q].closing)
  OBVIOUS
<1>1. ~Awaited(q)
  BY DEF Awaited
<1> QED
  BY <1>1 DEF ToolsInv, AskedOnce, Requested, Replied

\* A server that stays the server it is.
SameServer(s, t) ==
  /\ t.config = s.config /\ t.by = s.by /\ (t.up => s.up) /\ t.closing = s.closing
  /\ t.served = s.served /\ (s.greeted => t.greeted)

\* Servers are heard or do something; sessions stay.
LEMMA SameServersFit ==
  ASSUME ToolsInv, servers' \in Seq(Started), DOMAIN servers' = DOMAIN servers,
         \A q \in DOMAIN servers : SameServer(servers[q], servers'[q]), sessions' = sessions,
         held'.of = held.of
  PROVE  SessionsFit' /\ IntroducedFirst' /\ NoneLeftBehind'
<1>1. SessionsFit /\ IntroducedFirst /\ NoneLeftBehind /\ ToolShapes
  BY DEF ToolsInv
<1>2. \A b \in Brokers : sessions[b].child # 0 => sessions[b].child \in DOMAIN servers
  <2>1. \A b \in Brokers : sessions[b].child \in Nat /\ sessions[b].child <= Len(servers)
    BY <1>1 DEF ToolShapes, Session
  <2>2. DOMAIN servers = 1 .. Len(servers) /\ Len(servers) \in Nat
    BY <1>1 DEF ToolShapes
  <2> QED
    BY <2>1, <2>2
<1>3. SessionsFit'
  <2>1. \A b \in Brokers : sessions[b].child # 0 =>
           /\ servers'[sessions[b].child].by = b
           /\ ~servers'[sessions[b].child].closing
           /\ sessions[b].agreed => servers'[sessions[b].child].greeted
    BY <1>1, <1>2 DEF SessionsFit, SameServer
  <2>2. sessions["held"].child # 0 => servers'[sessions["held"].child].config = held.of.config
    BY <1>1, <1>2 DEF SessionsFit, SameServer, Brokers
  <2> QED
    BY <1>1, <2>1, <2>2 DEF SessionsFit
<1>4. IntroducedFirst'
  BY <1>1 DEF IntroducedFirst, SameServer
<1>5. NoneLeftBehind'
  BY <1>1 DEF NoneLeftBehind, SameServer
<1> QED
  BY <1>3, <1>4, <1>5

\* A server answers.
Says(p, answer) ==
  /\ p \in DOMAIN servers
  /\ ~servers[p].closing /\ servers[p].asked # "nothing"
  /\ answer \in Answers(servers[p]) \cup {Line("refused", {}, FALSE)}
  /\ servers' = [servers EXCEPT ![p].asked = "nothing", ![p].pipe = Append(@, answer),
                                ![p].greeted = @ \/ answer.kind = "agreed"]
  /\ used' \in Counters
  /\ turn' = [turn EXCEPT !.reached = @ + IF servers[p].asked = "call" THEN 1 ELSE 0]
  /\ UNCHANGED <<clock, connector, offers, offeredAt, held, sessions>>

LEMMA SaysKeeps ==
  ASSUME ToolConstants, ToolsInv, NEW p, NEW answer, Says(p, answer)
  PROVE  ToolsInv'
<1>1. /\ ToolShapes /\ SessionsFit /\ IntroducedFirst /\ AskedOnce /\ NoneLeftBehind
      /\ TurnFits /\ CallsCounted /\ ListedWasOffered
  BY DEF ToolsInv
<1>2. /\ turn \in Turns /\ turn.side \in Brokers /\ sessions \in [Brokers -> Session]
      /\ servers \in Seq(Started) /\ DOMAIN servers = 1 .. Len(servers) /\ Len(servers) \in Nat
      /\ p \in DOMAIN servers /\ servers[p] \in Started
  BY <1>1 DEF ToolShapes, Turns, Says
<1>3. /\ ~servers[p].closing /\ servers[p].asked # "nothing" /\ used' \in Counters
      /\ UNCHANGED <<clock, connector, offers, offeredAt, held, sessions>>
  BY DEF Says
<1>4. /\ Awaited(p) /\ Replies(p) = {}
      /\ IF servers[p].asked = "initialize" THEN ~sessions[servers[p].by].agreed
            ELSE sessions[servers[p].by].agreed /\ servers[p].asked = turn.method
  BY <1>1, <1>2, <1>3 DEF AskedOnce, Requested, Replied
<1>5. turn.at = "waiting" /\ turn.side = servers[p].by /\ sessions[turn.side].child = p
  BY <1>4 DEF Awaited
<1>6. /\ answer \in Lines /\ answer.kind # "changed"
      /\ answer.kind = "agreed" => servers[p].asked = "initialize"
      /\ answer.kind = "page" => servers[p].asked = "list" /\ answer.tools \subseteq offers[servers[p].config]
      /\ answer.kind = "done" => servers[p].asked = "call"
  <2>1. offers[servers[p].config] \in SUBSET Tools
    BY <1>1, <1>2 DEF ToolShapes, Started
  <2>2. servers[p].asked \in {"initialize", "list", "call"}
    BY <1>2, <1>3 DEF Started
  <2>3. CASE answer = Line("refused", {}, FALSE)
    BY <2>3 DEF Line, Lines
  <2>4. CASE servers[p].asked = "initialize" /\ answer \in Answers(servers[p])
    <3>1. answer = Line("agreed", {}, FALSE)
      BY <2>4 DEF Answers
    <3> QED
      BY <2>4, <3>1 DEF Line, Lines
  <2>5. CASE servers[p].asked = "list" /\ answer \in Answers(servers[p])
    <3>1. answer = Line("page", offers[servers[p].config], FALSE)
            \/ \E t \in offers[servers[p].config] : answer = Line("page", {t}, TRUE)
      BY <2>5 DEF Answers
    <3>2. CASE answer = Line("page", offers[servers[p].config], FALSE)
      BY <2>1, <2>5, <3>2 DEF Line, Lines
    <3>3. ASSUME NEW t \in offers[servers[p].config], answer = Line("page", {t}, TRUE)
          PROVE  answer \in Lines /\ answer.kind = "page"
                 /\ answer.tools \subseteq offers[servers[p].config]
      <4>1. answer = [kind |-> "page", tools |-> {t}, more |-> TRUE]
        BY <3>3 DEF Line
      <4>2. {t} \in SUBSET Tools /\ {t} \subseteq offers[servers[p].config]
        BY <2>1
      <4> QED
        BY <4>1, <4>2 DEF Lines
    <3> QED
      BY <2>5, <3>1, <3>2, <3>3
  <2>6. CASE servers[p].asked = "call" /\ answer \in Answers(servers[p])
    <3>1. answer = Line("done", {}, FALSE)
      BY <2>6 DEF Answers
    <3> QED
      BY <2>6, <3>1 DEF Line, Lines
  <2> QED
    BY <2>2, <2>3, <2>4, <2>5, <2>6 DEF Says
<1>7. PICK g \in BOOLEAN : g = (servers[p].greeted \/ answer.kind = "agreed")
  OBVIOUS
<1>8. PICK pipe \in Seq(Lines) :
        /\ pipe = Append(servers[p].pipe, answer)
        /\ DOMAIN pipe = DOMAIN servers[p].pipe \cup {Len(servers[p].pipe) + 1}
        /\ pipe[Len(servers[p].pipe) + 1] = answer
        /\ \A i \in DOMAIN servers[p].pipe : pipe[i] = servers[p].pipe[i]
  <2>1. servers[p].pipe \in Seq(Lines)
    BY <1>2 DEF Started
  <2> DEFINE pp == Append(servers[p].pipe, answer)
             l == Len(servers[p].pipe)
  <2>2. /\ pp \in Seq(Lines) /\ Len(pp) = l + 1 /\ pp[l + 1] = answer /\ l \in Nat
        /\ \A i \in 1 .. l : pp[i] = servers[p].pipe[i]
    BY <2>1, <1>6, AppendProperties
  <2>3. DOMAIN pp = 1 .. l + 1 /\ DOMAIN servers[p].pipe = 1 .. l
    BY <2>1, <2>2
  <2> HIDE DEF pp
  <2>4. DOMAIN pp = DOMAIN servers[p].pipe \cup {l + 1}
    BY <2>2, <2>3
  <2> QED
    BY <2>2, <2>3, <2>4 DEF pp
<1> DEFINE new == [servers[p] EXCEPT !.asked = "nothing", !.pipe = pipe, !.greeted = g]
<1>9. /\ new \in Started /\ new.asked = "nothing" /\ new.served = servers[p].served
      /\ new.config = servers[p].config /\ new.by = servers[p].by
      /\ new.up = servers[p].up /\ new.closing = servers[p].closing
      /\ new.greeted = g /\ new.pipe = pipe
  BY <1>2 DEF Started
<1>10. servers' = [servers EXCEPT ![p] = new]
  BY <1>2, <1>7, <1>8 DEF Says
<1> HIDE DEF new
<1>11. /\ servers' \in Seq(Started) /\ Len(servers') = Len(servers) /\ DOMAIN servers' = DOMAIN servers
       /\ servers'[p] = new /\ \A q \in DOMAIN servers : q # p => servers'[q] = servers[q]
  <2>1. /\ [servers EXCEPT ![p] = new] \in Seq(Started) /\ Len([servers EXCEPT ![p] = new]) = Len(servers)
        /\ DOMAIN [servers EXCEPT ![p] = new] = DOMAIN servers
        /\ [servers EXCEPT ![p] = new][p] = new
        /\ \A q \in DOMAIN servers : q # p => [servers EXCEPT ![p] = new][q] = servers[q]
    BY <1>2, <1>9, OneReplaced
  <2> QED
    BY <1>10, <2>1
<1>12. \A q \in DOMAIN servers : SameServer(servers[q], servers'[q])
  BY <1>7, <1>9, <1>11 DEF SameServer
<1>13. PICK sent \in {0, 1} : sent = IF servers[p].asked = "call" THEN 1 ELSE 0
  OBVIOUS
<1>14. /\ turn' \in Turns /\ turn'.at = "waiting" /\ turn'.side = turn.side /\ turn'.method = turn.method
       /\ turn'.reached = turn.reached + sent /\ turn'.attempt = turn.attempt /\ turn'.tool = turn.tool
       /\ turn'.got = turn.got /\ turn'.seen = turn.seen /\ turn'.granted = turn.granted
       /\ turn'.catalogue = turn.catalogue /\ turn.reached \in Nat /\ turn.attempt \in Nat
  <2>1. turn' = [turn EXCEPT !.reached = turn.reached + sent]
    BY <1>13 DEF Says
  <2>2. turn.reached + sent \in Nat /\ turn.reached \in Nat /\ turn.attempt \in Nat
    BY <1>2 DEF Turns
  <2>3. turn' \in Turns
    BY <1>2, <2>1, <2>2 DEF Turns
  <2> QED
    BY <1>2, <1>5, <2>1, <2>2, <2>3 DEF Turns
<1>15. ToolShapes'
  BY <1>1, <1>3, <1>11, <1>14 DEF ToolShapes
<1>16. SessionsFit' /\ IntroducedFirst' /\ NoneLeftBehind'
  BY <1>3, <1>11, <1>12, SameServersFit
<1>17. AskedOnce'
  <2>1. ASSUME NEW q \in DOMAIN servers, q # p
        PROVE  (servers'[q].asked # "nothing" => servers'[q].closing) /\ Replies(q)' = {}
    <3>1. servers'[q] = servers[q]
      BY <2>1, <1>11
    <3>2. Replies(q)' = Replies(q)
      BY <3>1 DEF Replies
    <3> QED
      BY <2>1, <3>1, <3>2, <1>4, OnlyOneAwaited
  <2>2. PICK l : l = Len(servers[p].pipe) + 1
    OBVIOUS
  <2>3. Replies(p)' \subseteq {l} /\ servers'[p].pipe[l] = answer
    <3>1. Replies(p)' = {i \in DOMAIN pipe : pipe[i].kind # "changed"}
      BY <1>9, <1>11 DEF Replies
    <3>2. \A i \in DOMAIN servers[p].pipe : servers[p].pipe[i].kind = "changed"
      BY <1>4 DEF Replies
    <3> QED
      BY <1>8, <1>9, <1>11, <2>2, <3>1, <3>2
  <2>4. Awaited(p)'
    BY <1>2, <1>3, <1>5, <1>9, <1>11, <1>14 DEF Awaited
  <2>5. answer.kind = "agreed" => servers'[p].greeted /\ ~sessions'[servers'[p].by].agreed
    BY <1>3, <1>4, <1>6, <1>7, <1>9, <1>11
  <2>6. answer.kind = "page" =>
              /\ turn'.method = "list"
              /\ \A t \in answer.tools : offeredAt'[servers'[p].config][t] = clock'
    <3>1. servers[p].config \in Configs
      BY <1>2 DEF Started
    <3> QED
      BY <3>1, <1>1, <1>3, <1>4, <1>6, <1>9, <1>11, <1>14 DEF ListedWasOffered
  <2> SUFFICES ASSUME NEW q \in DOMAIN servers
               PROVE  (Requested(q) /\ \A i \in Replies(q) : Replied(q, i))'
    BY <1>11 DEF AskedOnce
  <2>7. CASE q # p
    BY <2>1, <2>7 DEF Requested, Replied
  <2>8. CASE q = p
    BY <2>3, <2>4, <2>5, <2>6, <2>8, <1>9, <1>11 DEF Requested, Replied
  <2> QED
    BY <2>7, <2>8
<1>18. TurnFits'
  BY <1>1, <1>3, <1>5, <1>14 DEF TurnFits, Busy
<1>19. CallsCounted'
  <2>1. CASE turn.method = "list"
    BY <2>1, <1>1, <1>4, <1>13, <1>14 DEF CallsCounted
  <2>2. CASE turn.method # "list"
    <3>1. turn.method = "call" /\ turn.side = "held"
      BY <2>2, <1>1, <1>2 DEF Turns, CallsCounted
    <3>2. sessions["held"].child = p /\ servers'[p].asked = "nothing"
      BY <3>1, <1>5, <1>9, <1>11
    <3>3. turn.reached <= turn.attempt
      BY <3>1, <3>2, <1>1, <1>3, <1>5 DEF CallsCounted
    <3>4. ~sessions["held"].agreed => servers[p].asked # "call"
      BY <3>1, <1>4, <1>5
    <3> QED
      BY <3>1, <3>2, <3>3, <3>4, <1>3, <1>13, <1>14 DEF CallsCounted
  <2> QED
    BY <2>1, <2>2
<1>20. ListedWasOffered'
  BY <1>1, <1>3, <1>5, <1>14 DEF ListedWasOffered
<1> QED
  BY <1>15, <1>16, <1>17, <1>18, <1>19, <1>20 DEF ToolsInv

LEMMA ServeKeeps ==
  ASSUME ToolConstants, ToolsInv, NEW p \in DOMAIN servers, Serve(p)
  PROVE  ToolsInv'
<1>1. PICK answer \in Answers(servers[p])
                \cup (IF used.faults < MaxMishaps THEN {Line("refused", {}, FALSE)} ELSE {}) :
       /\ servers' = [servers EXCEPT ![p].asked = "nothing", ![p].pipe = Append(@, answer),
                                     ![p].greeted = @ \/ answer.kind = "agreed"]
       /\ used' = [used EXCEPT !.faults = @ + IF answer.kind = "refused" THEN 1 ELSE 0]
       /\ turn' = [turn EXCEPT !.reached = @ + IF servers[p].asked = "call" THEN 1 ELSE 0]
  BY DEF Serve
<1>2. used' \in Counters
  <2>1. used \in Counters
    BY DEF ToolsInv, ToolShapes
  <2>2. PICK f \in {0, 1} : f = IF answer.kind = "refused" THEN 1 ELSE 0
    OBVIOUS
  <2>3. used' = [used EXCEPT !.faults = used.faults + f]
    BY <1>1, <2>2
  <2>4. used.faults + f \in Nat
    BY <2>1 DEF Counters
  <2> QED
    BY <2>1, <2>3, <2>4 DEF Counters
<1>3. answer \in Answers(servers[p]) \cup {Line("refused", {}, FALSE)}
  OBVIOUS
<1>4. Says(p, answer)
  BY <1>1, <1>2, <1>3 DEF Says, Serve
<1> QED
  BY <1>4, SaysKeeps

LEMMA ServerOffersKeeps ==
  ASSUME ToolConstants, ToolsInv, NEW c \in Configs, NEW tools \in SUBSET Tools, ServerOffers(c, tools)
  PROVE  ToolsInv'
<1>1. /\ ToolShapes /\ SessionsFit /\ IntroducedFirst /\ AskedOnce /\ NoneLeftBehind
      /\ TurnFits /\ CallsCounted /\ ListedWasOffered
  BY DEF ToolsInv
<1>2. /\ servers \in Seq(Started) /\ DOMAIN servers = 1 .. Len(servers) /\ Len(servers) \in Nat
      /\ clock \in Nat /\ offers \in [Configs -> SUBSET Tools]
      /\ offeredAt \in [Configs -> [Tools -> Nat]]
      /\ \A p \in DOMAIN servers : servers[p] \in Started
  BY <1>1 DEF ToolShapes
<1>3. /\ offers' = [offers EXCEPT ![c] = tools]
      /\ offeredAt' = [offeredAt EXCEPT ![c] = [t \in Tools |-> IF t \in tools \cup offers[c]
                                                              THEN clock ELSE @[t]]]
      /\ UNCHANGED <<clock, connector, held, sessions, turn>>
      /\ used' = [used EXCEPT !.changes = used.changes + 1]
  BY DEF ServerOffers
<1> DEFINE notice == Line("changed", {}, FALSE)
<1>4. notice \in Lines /\ notice.kind = "changed"
  BY DEF Line, Lines
<1>5. /\ DOMAIN servers' = DOMAIN servers
      /\ \A p \in DOMAIN servers :
           servers'[p] = [servers[p] EXCEPT !.pipe = Append(servers[p].pipe, notice)]
             \/ servers'[p] = servers[p]
  BY DEF ServerOffers
<1>6. \A p \in DOMAIN servers :
        /\ servers'[p] \in Started /\ SameServer(servers[p], servers'[p])
        /\ servers'[p].asked = servers[p].asked /\ servers'[p].greeted = servers[p].greeted
        /\ DOMAIN servers[p].pipe \subseteq DOMAIN servers'[p].pipe
        /\ \A i \in DOMAIN servers[p].pipe : servers'[p].pipe[i] = servers[p].pipe[i]
        /\ \A i \in DOMAIN servers'[p].pipe \ DOMAIN servers[p].pipe :
             servers'[p].pipe[i].kind = "changed"
  <2> SUFFICES ASSUME NEW p \in DOMAIN servers
               PROVE
        /\ servers'[p] \in Started /\ SameServer(servers[p], servers'[p])
        /\ servers'[p].asked = servers[p].asked /\ servers'[p].greeted = servers[p].greeted
        /\ DOMAIN servers[p].pipe \subseteq DOMAIN servers'[p].pipe
        /\ \A i \in DOMAIN servers[p].pipe : servers'[p].pipe[i] = servers[p].pipe[i]
        /\ \A i \in DOMAIN servers'[p].pipe \ DOMAIN servers[p].pipe :
             servers'[p].pipe[i].kind = "changed"
    OBVIOUS
  <2>1. servers[p] \in Started /\ servers[p].pipe \in Seq(Lines)
    BY <1>2 DEF Started
  <2>2. CASE servers'[p] = servers[p]
    BY <2>1, <2>2 DEF SameServer
  <2>3. CASE servers'[p] = [servers[p] EXCEPT !.pipe = Append(servers[p].pipe, notice)]
    <3> DEFINE pp == Append(servers[p].pipe, notice)
               l == Len(servers[p].pipe)
    <3> HIDE DEF notice
    <3>1. /\ pp \in Seq(Lines) /\ Len(pp) = l + 1 /\ pp[l + 1] = notice /\ l \in Nat
          /\ \A i \in 1 .. l : pp[i] = servers[p].pipe[i]
      BY <2>1, <1>4, AppendProperties
    <3>2. DOMAIN pp = 1 .. l + 1 /\ DOMAIN servers[p].pipe = 1 .. l
      BY <2>1, <3>1
    <3> HIDE DEF pp
    <3>3. DOMAIN servers[p].pipe \subseteq DOMAIN pp
          /\ \A i \in DOMAIN pp \ DOMAIN servers[p].pipe : pp[i].kind = "changed"
      BY <3>1, <3>2, <1>4
    <3>4. servers'[p] = [servers[p] EXCEPT !.pipe = pp]
      BY <2>3 DEF pp
    <3>5. servers'[p] \in Started /\ servers'[p].pipe = pp /\ SameServer(servers[p], servers'[p])
          /\ servers'[p].asked = servers[p].asked /\ servers'[p].greeted = servers[p].greeted
      BY <2>1, <3>1, <3>4 DEF Started, SameServer
    <3> QED
      BY <3>1, <3>2, <3>3, <3>5
  <2> QED
    BY <1>5, <2>2, <2>3
<1>7. servers' \in Seq(Started) /\ Len(servers') = Len(servers)
  <2>1. servers' = [q \in DOMAIN servers |->
       IF servers[q].config = c /\ Kind[c] = "stdio" /\ sessions["held"].child = q
            /\ servers[q].greeted
         THEN [servers[q] EXCEPT !.pipe = Append(@, notice)]
         ELSE servers[q]]
    BY DEF ServerOffers
  <2>2. \A q \in DOMAIN servers : servers'[q] \in Started
    BY <1>6
  <2> HIDE DEF notice
  <2>3. servers' \in [DOMAIN servers -> Started]
    <3>1. servers' = [q \in DOMAIN servers |-> servers'[q]]
      BY <2>1
    <3> QED
      BY <2>2, <3>1
  <2>4. servers' \in Seq(Started)
    BY <1>2, <2>3
  <2>5. Len(servers') \in Nat /\ 1 .. Len(servers') = 1 .. Len(servers)
    BY <1>2, <1>5, <2>4
  <2> QED
    BY <1>2, <2>4, <2>5
<1>8. /\ offers' \in [Configs -> SUBSET Tools] /\ offeredAt' \in [Configs -> [Tools -> Nat]]
      /\ \A k \in Configs : \A t \in Tools :
           /\ offeredAt'[k][t] = offeredAt[k][t] \/ offeredAt'[k][t] = clock
           /\ t \in offers'[k] => offeredAt'[k][t] = clock
  <2>1. offeredAt'[c] = [t \in Tools |-> IF t \in tools \cup offers[c] THEN clock ELSE offeredAt[c][t]]
        /\ \A k \in Configs \ {c} : offeredAt'[k] = offeredAt[k] /\ offers'[k] = offers[k]
    BY <1>2, <1>3
  <2>2. offers'[c] = tools
    BY <1>2, <1>3
  <2>3. offeredAt'[c] \in [Tools -> Nat]
    BY <1>2, <2>1
  <2>4. \A k \in Configs : offeredAt'[k] \in [Tools -> Nat]
    BY <1>2, <2>1, <2>3
  <2>5. offeredAt' \in [Configs -> [Tools -> Nat]]
    BY <1>2, <1>3, <2>3
  <2> QED
    BY <1>1, <1>2, <1>3, <2>1, <2>2, <2>5 DEF ListedWasOffered
<1>9. ToolShapes'
  <2>1. used' \in Counters
    <3>1. used \in Counters
      BY <1>1 DEF ToolShapes
    <3>2. used.changes + 1 \in Nat
      BY <3>1 DEF Counters
    <3> QED
      BY <1>3, <3>1, <3>2 DEF Counters
  <2> QED
    BY <1>1, <1>3, <1>7, <1>8, <2>1 DEF ToolShapes
<1>10. SessionsFit' /\ IntroducedFirst' /\ NoneLeftBehind'
  BY <1>3, <1>5, <1>6, <1>7, SameServersFit
<1>11. AskedOnce'
  <2>1. ASSUME NEW q \in DOMAIN servers
        PROVE  Replies(q)' = Replies(q) /\ Awaited(q)' = Awaited(q)
    <3>1. Replies(q)' = {i \in DOMAIN servers'[q].pipe : servers'[q].pipe[i].kind # "changed"}
      BY DEF Replies
    <3>2. Replies(q) = {i \in DOMAIN servers[q].pipe : servers[q].pipe[i].kind # "changed"}
      BY DEF Replies
    <3>3. Replies(q)' = Replies(q)
      BY <1>6, <3>1, <3>2
    <3>4. servers'[q].by = servers[q].by
      BY <1>6 DEF SameServer
    <3> QED
      BY <1>3, <3>3, <3>4 DEF Awaited
  <2>2. ASSUME NEW q \in DOMAIN servers, NEW i \in Replies(q)
        PROVE  servers'[q].pipe[i] = servers[q].pipe[i] /\ servers[q].pipe[i] \in Lines
    <3>1. i \in DOMAIN servers[q].pipe /\ servers[q].pipe \in Seq(Lines)
      BY <1>2 DEF Replies, Started
    <3> QED
      BY <3>1, <1>6
  <2>3. ASSUME NEW k \in Configs, NEW t \in Tools, offeredAt[k][t] = clock
        PROVE  offeredAt'[k][t] = clock'
    BY <1>3, <1>8, <2>3
  <2> SUFFICES ASSUME NEW q \in DOMAIN servers
               PROVE  (Requested(q) /\ \A i \in Replies(q) : Replied(q, i))'
    BY <1>5 DEF AskedOnce
  <2>4. /\ servers'[q].asked = servers[q].asked /\ servers'[q].closing = servers[q].closing
        /\ servers'[q].by = servers[q].by /\ servers'[q].greeted = servers[q].greeted
        /\ servers'[q].config = servers[q].config /\ servers[q].config \in Configs
    BY <1>2, <1>6 DEF SameServer, Started
  <2>5. Requested(q)'
    BY <1>1, <1>3, <2>1, <2>4 DEF AskedOnce, Requested, Replied
  <2>6. ASSUME NEW i \in Replies(q)
        PROVE  Replied(q, i)'
    <3>1. servers[q].pipe[i].tools \subseteq Tools
      BY <2>2 DEF Lines
    <3>2. /\ Awaited(q)
          /\ \A j \in Replies(q) : i = j
          /\ servers[q].pipe[i].kind = "agreed" =>
               servers[q].greeted /\ ~sessions[servers[q].by].agreed
          /\ servers[q].pipe[i].kind = "page" =>
               /\ turn.method = "list"
               /\ \A t \in servers[q].pipe[i].tools : offeredAt[servers[q].config][t] = clock
      BY <1>1 DEF AskedOnce, Requested, Replied
    <3> QED
      BY <1>3, <2>1, <2>2, <2>3, <2>4, <3>1, <3>2 DEF Requested, Replied
  <2> QED
    BY <2>1, <2>5, <2>6
<1>12. TurnFits' /\ CallsCounted'
  <2>1. TurnFits'
    BY <1>1, <1>3 DEF TurnFits
  <2>2. turn.at = "waiting" /\ turn.side = "held" => sessions["held"].child \in DOMAIN servers
    <3>1. sessions["held"] \in Session /\ sessions["held"].child <= Len(servers)
      BY <1>1 DEF ToolShapes, Brokers
    <3> QED
      BY <3>1, <1>1, <1>2 DEF TurnFits, Session
  <2> QED
    BY <1>1, <1>3, <1>6, <2>1, <2>2 DEF CallsCounted
<1>13. ListedWasOffered'
  <2>1. \A k \in Configs : offers'[k] \subseteq Tools
    BY <1>8
  <2>2. held.list.known => /\ held.of.config \in Configs /\ held.list.tools \subseteq Tools
                           /\ held.list.at \in Nat
    BY <1>1 DEF ToolShapes, ListedWasOffered, Broker, Listing, Connectors
  <2>3. held.list.known =>
       /\ held.of \in Connectors /\ held.list.at <= clock
       /\ \A t \in held.list.tools : offeredAt'[held.of.config][t] >= held.list.at
    BY <1>1, <1>2, <1>8, <2>2 DEF ListedWasOffered
  <2>4. turn.at \in {"asking", "waiting"} /\ turn.method = "list" /\ turn.side = "held" =>
          /\ held.of.config \in Configs /\ turn.got \subseteq Tools
    BY <1>1 DEF TurnFits, ToolShapes, Broker, Unconnected, Connectors, Turns
  <2> QED
    BY <1>1, <1>3, <1>8, <2>1, <2>3, <2>4 DEF ListedWasOffered
<1> QED
  BY <1>9, <1>10, <1>11, <1>12, <1>13 DEF ToolsInv

\* The servers when one of them is gone, or is not waited for any more.
Silenced(p, ss) ==
  /\ p \in DOMAIN servers /\ ss \in Seq(Started) /\ Len(ss) = Len(servers)
  /\ DOMAIN ss = DOMAIN servers
  /\ \A q \in DOMAIN servers : q # p => ss[q] = servers[q]
  /\ SameServer(servers[p], ss[p]) /\ ss[p].greeted = servers[p].greeted
  /\ ss[p].asked = "nothing" /\ ss[p].pipe = << >>

\* What a server that fell silent keeps.
LEMMA SilencedOnes ==
  ASSUME ToolsInv, NEW p \in DOMAIN servers, NEW up \in {servers[p].up, FALSE}, NEW s,
         s = [servers[p] EXCEPT !.up = up, !.asked = "nothing", !.pipe = << >>]
  PROVE  Silenced(p, [servers EXCEPT ![p] = s])
<1>1. servers \in Seq(Started)
  BY DEF ToolsInv, ToolShapes
<1>a. servers[p] \in Started /\ << >> \in Seq(Lines)
  BY <1>1
<1>2. servers[p] \in Started /\ << >> \in Seq(Lines) /\ up \in BOOLEAN
  BY <1>a DEF Started
<1>3. s \in Started /\ SameServer(servers[p], s) /\ s.greeted = servers[p].greeted
      /\ s.asked = "nothing" /\ s.pipe = << >>
  BY <1>2 DEF Started, SameServer
<1>4. /\ [servers EXCEPT ![p] = s] \in Seq(Started) /\ Len([servers EXCEPT ![p] = s]) = Len(servers)
      /\ DOMAIN [servers EXCEPT ![p] = s] = DOMAIN servers
      /\ [servers EXCEPT ![p] = s][p] = s
      /\ \A q \in DOMAIN servers : q # p => [servers EXCEPT ![p] = s][q] = servers[q]
  BY <1>1, <1>3, OneReplaced
<1> QED
  BY <1>3, <1>4 DEF Silenced

\* Whom a turn waited for fell silent: nobody owes it an answer.
LEMMA SilencedIsQuiet ==
  ASSUME ToolsInv, NEW p, NEW ss, Silenced(p, ss), Awaited(p)
  PROVE  Quietened(ss)
<1>1. ss \in Seq(Started) /\ Len(ss) = Len(servers)
  BY DEF Silenced
<1>2. ASSUME NEW q \in DOMAIN servers
      PROVE
       /\ ss[q].config = servers[q].config /\ ss[q].by = servers[q].by
       /\ ss[q].closing = servers[q].closing /\ ss[q].greeted = servers[q].greeted
       /\ ss[q].served = servers[q].served
       /\ ss[q].up => servers[q].up
       /\ ss[q].asked # "nothing" => ss[q].closing
       /\ \A i \in DOMAIN ss[q].pipe : ss[q].pipe[i].kind = "changed"
  <2>1. CASE q = p
    <3>1. SameServer(servers[p], ss[p]) /\ ss[p].greeted = servers[p].greeted
          /\ ss[p].asked = "nothing" /\ ss[p].pipe = << >> /\ DOMAIN << >> = {}
      BY DEF Silenced
    <3> QED
      BY <2>1, <3>1 DEF SameServer
  <2>2. CASE q # p
    <3>1. ss[q] = servers[q]
      BY <2>2 DEF Silenced
    <3>2. Replies(q) = {} /\ (servers[q].asked # "nothing" => servers[q].closing)
      BY <2>2, OnlyOneAwaited
    <3> QED
      BY <3>1, <3>2 DEF Replies
  <2> QED
    BY <2>1, <2>2
<1> QED
  BY <1>1, <1>2 DEF Quietened

LEMMA TimesOutKeeps ==
  ASSUME ToolConstants, ToolsInv, TimesOut
  PROVE  ToolsInv'
<1>1. PICK p : p = sessions[turn.side].child
  OBVIOUS
<1>2. /\ ToolShapes /\ SessionsFit /\ TurnFits /\ turn.at = "waiting" /\ turn.side \in Brokers
      /\ servers \in Seq(Started) /\ sessions[turn.side] \in Session
      /\ UNCHANGED <<clock, connector, offers, offeredAt>>
  BY DEF ToolsInv, TimesOut, ToolShapes, Turns
<1>3. p \in DOMAIN servers /\ servers[p].by = turn.side /\ Awaited(p)
  <2>1. p # 0 /\ p <= Len(servers)
    BY <1>1, <1>2 DEF TurnFits, ToolShapes
  <2>2. p \in DOMAIN servers
    BY <1>1, <1>2, <2>1 DEF Session
  <2>3. servers[p].by = turn.side
    BY <1>1, <1>2, <2>1 DEF SessionsFit
  <2> QED
    BY <1>1, <1>2, <2>2, <2>3 DEF Awaited
<1>4. used' \in Counters
  <2>1. used \in Counters
    BY <1>2 DEF ToolShapes
  <2>2. used' = [used EXCEPT !.faults = used.faults + 1] /\ used.faults + 1 \in Nat
    BY <2>1 DEF TimesOut, Counters
  <2> QED
    BY <2>1, <2>2 DEF Counters
<1>5. PICK s : s = [servers[p] EXCEPT !.up = servers[p].up, !.asked = "nothing", !.pipe = << >>]
  OBVIOUS
<1>6. [servers EXCEPT ![p].asked = "nothing", ![p].pipe = << >>] = [servers EXCEPT ![p] = s]
  <2>1. servers[p] \in Started
    BY <1>2, <1>3
  <2>2. s = [servers[p] EXCEPT !.asked = "nothing", !.pipe = << >>]
    BY <1>5, <2>1 DEF Started
  <2> QED
    BY <1>3, <2>2
<1>7. Fail([servers EXCEPT ![p] = s])
  BY <1>1, <1>6 DEF TimesOut
<1>8. Quietened([servers EXCEPT ![p] = s])
  BY <1>3, <1>5, SilencedOnes, SilencedIsQuiet
<1> QED
  BY <1>2, <1>4, <1>7, <1>8, FailKeeps

\* A server whose session is not missed yet, or has none.
Leaves(p) ==
  /\ p \in DOMAIN servers
  /\ Silenced(p, servers') /\ ~servers'[p].up
  /\ used' \in Counters
  /\ UNCHANGED <<clock, connector, offers, offeredAt, held>>

\* A server exits that a session is open to, and nobody waited for it.
LEMMA ShutKeeps ==
  ASSUME ToolConstants, ToolsInv, NEW p, Leaves(p), sessions[servers[p].by].child = p,
         ~(turn.at = "waiting" /\ turn.side = servers[p].by),
         sessions' = [sessions EXCEPT ![servers[p].by] = Shut(@)], turn' = turn
  PROVE  ToolsInv'
<1>1. /\ ToolShapes /\ SessionsFit /\ IntroducedFirst /\ AskedOnce /\ NoneLeftBehind
      /\ TurnFits /\ CallsCounted /\ ListedWasOffered
  BY DEF ToolsInv
<1>2. /\ p \in DOMAIN servers /\ servers' \in Seq(Started) /\ Len(servers') = Len(servers)
      /\ DOMAIN servers' = DOMAIN servers
      /\ \A q \in DOMAIN servers : q # p => servers'[q] = servers[q]
      /\ SameServer(servers[p], servers'[p]) /\ ~servers'[p].up
      /\ servers'[p].asked = "nothing" /\ servers'[p].pipe = << >>
      /\ used' \in Counters /\ UNCHANGED <<clock, connector, offers, offeredAt, held>>
  BY DEF Leaves, Silenced
<1>3. servers \in Seq(Started) /\ DOMAIN servers = 1 .. Len(servers) /\ Len(servers) \in Nat
      /\ sessions \in [Brokers -> Session] /\ servers[p] \in Started
  BY <1>1, <1>2 DEF ToolShapes
<1>4. PICK b \in Brokers : b = servers[p].by
  BY <1>3 DEF Started
<1>5. /\ sessions' \in [Brokers -> Session] /\ sessions'[b].child = 0 /\ sessions'[b].closed
      /\ \A d \in Brokers : d # b => sessions'[d] = sessions[d]
  <2>1. sessions[b] \in Session
    BY <1>3
  <2>2. Shut(sessions[b]) \in Session /\ Shut(sessions[b]).child = 0 /\ Shut(sessions[b]).closed
    BY <2>1 DEF Shut, Session
  <2> QED
    BY <1>3, <1>4, <2>2
<1>6. \A d \in Brokers : sessions'[d].child # 0 =>
        /\ d # b /\ sessions'[d] = sessions[d] /\ sessions[d].child \in DOMAIN servers
        /\ sessions[d].child # p /\ servers'[sessions[d].child] = servers[sessions[d].child]
  <2> SUFFICES ASSUME NEW d \in Brokers, sessions'[d].child # 0
               PROVE
        /\ d # b /\ sessions'[d] = sessions[d] /\ sessions[d].child \in DOMAIN servers
        /\ sessions[d].child # p /\ servers'[sessions[d].child] = servers[sessions[d].child]
    OBVIOUS
  <2>1. d # b /\ sessions'[d] = sessions[d]
    BY <1>5
  <2>2. sessions[d] \in Session /\ sessions[d].child <= Len(servers)
    BY <1>1, <1>3 DEF ToolShapes
  <2>3. sessions[d].child \in DOMAIN servers /\ servers[sessions[d].child].by = d
    BY <1>1, <1>3, <2>1, <2>2 DEF Session, SessionsFit
  <2> QED
    BY <1>2, <1>4, <2>1, <2>3
<1>7. ToolShapes'
  <2>1. \A d \in Brokers : sessions'[d].child <= Len(servers')
    BY <1>1, <1>2, <1>3, <1>5 DEF ToolShapes
  <2> QED
    BY <1>1, <1>2, <1>5, <2>1 DEF ToolShapes
<1>8. SessionsFit'
  <2>1. \A d \in Brokers : sessions'[d].child = 0 /\ ~sessions'[d].closed => ~sessions'[d].agreed
    BY <1>1, <1>5 DEF SessionsFit
  <2>2. ASSUME NEW d \in Brokers, sessions'[d].child # 0
        PROVE  /\ servers'[sessions'[d].child].by = d
               /\ ~servers'[sessions'[d].child].closing
               /\ sessions'[d].agreed => servers'[sessions'[d].child].greeted
    <3>1. sessions'[d] = sessions[d] /\ servers'[sessions[d].child] = servers[sessions[d].child]
      BY <1>6, <2>2
    <3> QED
      BY <1>1, <2>2, <3>1 DEF SessionsFit
  <2>3. ASSUME sessions'["held"].child # 0
        PROVE  servers'[sessions'["held"].child].config = held'.of.config
    <3>1. /\ sessions'["held"] = sessions["held"]
          /\ servers'[sessions["held"].child] = servers[sessions["held"].child]
      BY <1>6, <2>3 DEF Brokers
    <3> QED
      BY <1>1, <1>2, <2>3, <3>1 DEF SessionsFit
  <2> QED
    BY <2>1, <2>2, <2>3 DEF SessionsFit
<1>9. IntroducedFirst'
  BY <1>1, <1>2 DEF IntroducedFirst, SameServer
<1>10. AskedOnce'
  <2>1. Replies(p)' = {}
    <3>1. DOMAIN servers'[p].pipe = {}
      BY <1>2
    <3> QED
      BY <3>1 DEF Replies
  <2>2. ASSUME NEW q \in DOMAIN servers, q # p
        PROVE  /\ Replies(q)' = Replies(q) /\ servers'[q] = servers[q]
               /\ Awaited(q) => /\ Awaited(q)'
                                /\ sessions'[servers[q].by] = sessions[servers[q].by]
    <3>1. servers'[q] = servers[q]
      BY <1>2, <2>2
    <3>2. servers[q].by \in Brokers
      <4>1. servers[q] \in Started
        BY <1>3
      <4> QED
        BY <4>1 DEF Started
    <3>3. ASSUME Awaited(q) PROVE sessions'[servers[q].by] = sessions[servers[q].by]
      BY <1>4, <1>5, <3>2, <3>3 DEF Awaited
    <3> QED
      BY <3>1, <3>3 DEF Awaited, Replies
  <2> SUFFICES ASSUME NEW q \in DOMAIN servers
               PROVE  (Requested(q) /\ \A i \in Replies(q) : Replied(q, i))'
    BY <1>2 DEF AskedOnce
  <2>3. CASE q = p
    <3>1. (servers'[q].asked # "nothing" => servers'[q].closing) /\ Replies(q)' = {}
      BY <1>2, <2>1, <2>3
    <3> QED
      BY <3>1 DEF Requested, Replied
  <2>4. CASE q # p
    <3>1. /\ Replies(q)' = Replies(q) /\ servers'[q] = servers[q]
          /\ Awaited(q) => /\ Awaited(q)'
                           /\ sessions'[servers[q].by] = sessions[servers[q].by]
      BY <2>2, <2>4
    <3>2. Requested(q)'
      BY <1>1, <3>1 DEF AskedOnce, Requested, Replied
    <3>3. ASSUME NEW i \in Replies(q)'
          PROVE  Replied(q, i)'
      BY <1>1, <1>2, <3>1 DEF AskedOnce, Requested, Replied
    <3> QED
      BY <3>2, <3>3, Zenon
  <2> QED
    BY <2>3, <2>4
<1>11. NoneLeftBehind'
  <2> SUFFICES ASSUME NEW q \in DOMAIN servers, servers'[q].by = "held", servers'[q].up,
                      ~servers'[q].closing, Kind[servers'[q].config] = "stdio"
               PROVE  sessions'["held"].child = q
    BY <1>2 DEF NoneLeftBehind
  <2>1. q # p /\ servers'[q] = servers[q]
    BY <1>2
  <2>2. sessions["held"].child = q
    BY <1>1, <2>1 DEF NoneLeftBehind
  <2> QED
    BY <1>4, <1>5, <2>1, <2>2 DEF Brokers
<1>12. TurnFits'
  BY <1>1, <1>2, <1>3, <1>4, <1>5 DEF TurnFits, ToolShapes, Turns
<1>13. CallsCounted'
  <2>1. turn.at = "waiting" /\ turn.side = "held" =>
          /\ sessions'["held"] = sessions["held"] /\ sessions'["held"].child # 0
    BY <1>1, <1>4, <1>5 DEF TurnFits, Brokers
  <2>2. turn.at = "waiting" /\ turn.side = "held" =>
          servers'[sessions'["held"].child] = servers[sessions["held"].child]
    BY <1>6, <2>1 DEF Brokers
  <2> QED
    BY <1>1, <2>1, <2>2 DEF CallsCounted
<1>14. ListedWasOffered'
  BY <1>1, <1>2 DEF ListedWasOffered
<1> QED
  BY <1>7, <1>8, <1>9, <1>10, <1>11, <1>12, <1>13, <1>14 DEF ToolsInv

\* A server exits that no session misses.
LEMMA MissedKeeps ==
  ASSUME ToolConstants, ToolsInv, NEW p, Leaves(p), UNCHANGED sessions,
         \/ turn' = turn
         \/ turn.at = "closing" /\ turn' = [turn EXCEPT !.at = "consulting", !.going = 0]
  PROVE  ToolsInv'
<1>1. /\ ToolShapes /\ SessionsFit /\ IntroducedFirst /\ AskedOnce /\ NoneLeftBehind
      /\ TurnFits /\ CallsCounted /\ ListedWasOffered
  BY DEF ToolsInv
<1>2. /\ p \in DOMAIN servers /\ servers' \in Seq(Started) /\ Len(servers') = Len(servers)
      /\ DOMAIN servers' = DOMAIN servers
      /\ \A q \in DOMAIN servers : q # p => servers'[q] = servers[q]
      /\ SameServer(servers[p], servers'[p]) /\ ~servers'[p].up
      /\ servers'[p].asked = "nothing" /\ servers'[p].pipe = << >>
      /\ used' \in Counters /\ UNCHANGED <<clock, connector, offers, offeredAt, held>>
  BY DEF Leaves, Silenced
<1>3. turn \in Turns
  BY <1>1 DEF ToolShapes
<1>a. turn' = turn \/ (turn.at = "closing" /\ turn' = [turn EXCEPT !.at = "consulting", !.going = 0])
  OBVIOUS
<1>4. /\ turn' \in Turns /\ turn'.side = turn.side /\ turn'.method = turn.method
      /\ turn'.reached = turn.reached /\ turn'.attempt = turn.attempt /\ turn'.tool = turn.tool
      /\ turn'.got = turn.got /\ turn'.seen = turn.seen /\ turn'.granted = turn.granted
      /\ turn'.catalogue = turn.catalogue
      /\ turn'.at = turn.at \/ (turn.at = "closing" /\ turn'.at = "consulting")
  <2>1. CASE turn' = turn
    BY <1>3, <2>1
  <2>2. CASE turn.at = "closing" /\ turn' = [turn EXCEPT !.at = "consulting", !.going = 0]
    <3>1. turn' \in Turns
      BY <1>3, <2>2 DEF Turns, Busy
    <3> QED
      BY <1>3, <2>2, <3>1 DEF Turns
  <2> QED
    BY <1>a, <2>1, <2>2
<1>5. \A q \in DOMAIN servers : SameServer(servers[q], servers'[q])
  BY <1>2 DEF SameServer
<1>6. SessionsFit' /\ IntroducedFirst' /\ NoneLeftBehind'
  BY <1>2, <1>5, SameServersFit
<1>7. ToolShapes'
  BY <1>1, <1>2, <1>4 DEF ToolShapes
<1>8. AskedOnce'
  <2>1. servers'[p].asked = "nothing" /\ Replies(p)' = {}
    <3>1. DOMAIN servers'[p].pipe = {}
      BY <1>2
    <3> QED
      BY <1>2, <3>1 DEF Replies
  <2>2. ASSUME NEW q \in DOMAIN servers, q # p
        PROVE  /\ Replies(q)' = Replies(q) /\ servers'[q] = servers[q]
               /\ Awaited(q) => Awaited(q)'
    BY <1>2, <1>4, <2>2 DEF Replies, Awaited
  <2> SUFFICES ASSUME NEW q \in DOMAIN servers
               PROVE  (Requested(q) /\ \A i \in Replies(q) : Replied(q, i))'
    BY <1>2 DEF AskedOnce
  <2>3. CASE q = p
    <3>1. (servers'[q].asked # "nothing" => servers'[q].closing) /\ Replies(q)' = {}
      BY <2>1, <2>3
    <3> QED
      BY <3>1 DEF Requested, Replied
  <2>4. CASE q # p
    <3>1. /\ Replies(q)' = Replies(q) /\ servers'[q] = servers[q]
          /\ Awaited(q) => Awaited(q)'
      BY <2>2, <2>4
    <3>2. Requested(q)'
      BY <1>1, <1>4, <3>1 DEF AskedOnce, Requested, Replied
    <3>3. ASSUME NEW i \in Replies(q)'
          PROVE  Replied(q, i)'
      BY <1>1, <1>2, <1>4, <3>1 DEF AskedOnce, Requested, Replied
    <3> QED
      BY <3>2, <3>3, Zenon
  <2> QED
    BY <2>3, <2>4
<1>9. TurnFits'
  BY <1>1, <1>2, <1>4 DEF TurnFits, Busy
<1>10. CallsCounted'
  <2>1. turn'.at \in {"asking", "waiting"} => turn.at = turn'.at
    BY <1>4
  <2>2. \A q \in DOMAIN servers : servers'[q].asked # "nothing" => servers[q].asked # "nothing"
    BY <1>2
  <2>3. turn.at = "waiting" /\ turn.side = "held" => sessions["held"].child \in DOMAIN servers
    <3>1. sessions["held"] \in Session /\ sessions["held"].child <= Len(servers)
          /\ servers \in Seq(Started)
      BY <1>1 DEF ToolShapes, Brokers
    <3> QED
      BY <3>1, <1>1 DEF TurnFits, Session
  <2> QED
    BY <1>1, <1>4, <2>1, <2>2, <2>3 DEF CallsCounted
<1>11. ListedWasOffered'
  BY <1>1, <1>2, <1>4 DEF ListedWasOffered
<1> QED
  BY <1>6, <1>7, <1>8, <1>9, <1>10, <1>11 DEF ToolsInv

LEMMA ExitsKeeps ==
  ASSUME ToolConstants, ToolsInv, NEW p \in DOMAIN servers, Exits(p)
  PROVE  ToolsInv'
<1> DEFINE gone == [servers EXCEPT ![p].up = FALSE, ![p].asked = "nothing", ![p].pipe = << >>]
           awaited == turn.at = "waiting" /\ turn.side = servers[p].by
           lost == sessions[servers[p].by].child = p
                     /\ (Kind[servers[p].config] = "stdio" \/ awaited)
<1>1. servers \in Seq(Started) /\ servers[p] \in Started
      /\ UNCHANGED <<clock, connector, offers, offeredAt>>
  BY DEF ToolsInv, ToolShapes, Exits
<1>2. PICK s : s = [servers[p] EXCEPT !.up = FALSE, !.asked = "nothing", !.pipe = << >>]
  OBVIOUS
<1>3. gone = [servers EXCEPT ![p] = s] /\ s.up = FALSE
  BY <1>1, <1>2 DEF Started
<1>4. Silenced(p, gone)
  BY <1>2, <1>3, SilencedOnes
<1>5. gone[p].up = FALSE
  BY <1>1, <1>3
<1>6. used' \in Counters
  <2>1. used \in Counters
    BY DEF ToolsInv, ToolShapes
  <2>2. PICK f \in {0, 1} : f = IF servers[p].closing THEN 0 ELSE 1
    OBVIOUS
  <2>3. used' = [used EXCEPT !.faults = used.faults + f]
    BY <2>2 DEF Exits
  <2>4. used.faults + f \in Nat
    BY <2>1 DEF Counters
  <2> QED
    BY <2>1, <2>3, <2>4 DEF Counters
<1>7. \/ lost /\ awaited /\ Fail(gone)
      \/ /\ lost /\ ~awaited /\ servers' = gone
         /\ sessions' = [sessions EXCEPT ![servers[p].by] = Shut(@)]
         /\ UNCHANGED <<held, turn>>
      \/ /\ servers' = gone
         /\ turn' = IF turn.at = "closing" /\ turn.going = p
                      THEN [turn EXCEPT !.at = "consulting", !.going = 0] ELSE turn
         /\ UNCHANGED <<held, sessions>>
  BY DEF Exits
<1> HIDE DEF gone
<1>8. CASE lost /\ awaited /\ Fail(gone)
  <2>1. Awaited(p) /\ turn.at \in {"asking", "waiting"}
    BY <1>8 DEF Awaited
  <2>2. Quietened(gone)
    BY <1>4, <2>1, SilencedIsQuiet
  <2> QED
    BY <1>1, <1>6, <1>8, <2>1, <2>2, FailKeeps
<1>9. CASE /\ lost /\ ~awaited /\ servers' = gone
           /\ sessions' = [sessions EXCEPT ![servers[p].by] = Shut(@)]
           /\ UNCHANGED <<held, turn>>
  <2>1. Leaves(p)
    BY <1>1, <1>4, <1>5, <1>6, <1>9 DEF Leaves
  <2>2. sessions[servers[p].by].child = p
    BY <1>9
  <2> QED
    BY <1>9, <2>1, <2>2, ShutKeeps
<1>10. CASE /\ servers' = gone
            /\ turn' = IF turn.at = "closing" /\ turn.going = p
                         THEN [turn EXCEPT !.at = "consulting", !.going = 0] ELSE turn
            /\ UNCHANGED <<held, sessions>>
  <2>1. Leaves(p)
    BY <1>1, <1>4, <1>5, <1>6, <1>10 DEF Leaves
  <2> QED
    BY <1>10, <2>1, MissedKeeps
<1> QED
  BY <1>7, <1>8, <1>9, <1>10

-------------------------------------------------------------------------------
(* The broker held is replaced.                                              *)

\* The broker held is good for nothing any more, and is replaced.
Replaces(now) ==
  /\ turn.at = "office"
  /\ held' = [has |-> TRUE, of |-> now, list |-> Unlisted]
  /\ servers' = Close(servers, sessions["held"])
  /\ sessions' = [sessions EXCEPT !["held"] = McpSession]
  /\ \E at \in {"consulting", "closing"}, going \in Nat :
       turn' = [turn EXCEPT !.at = at, !.going = going, !.seen = now]
  /\ used' \in Counters
  /\ UNCHANGED <<clock, connector, offers, offeredAt>>

LEMMA ReplacesKeeps ==
  ASSUME ToolConstants, ToolsInv, NEW now \in Connectors \cup {Unconnected}, Replaces(now)
  PROVE  ToolsInv'
<1>1. /\ ToolShapes /\ SessionsFit /\ IntroducedFirst /\ AskedOnce /\ NoneLeftBehind
      /\ TurnFits /\ CallsCounted /\ ListedWasOffered
  BY DEF ToolsInv
<1>2. /\ turn.at = "office" /\ held' = [has |-> TRUE, of |-> now, list |-> Unlisted]
      /\ servers' = Close(servers, sessions["held"])
      /\ sessions' = [sessions EXCEPT !["held"] = McpSession]
      /\ used' \in Counters
      /\ UNCHANGED <<clock, connector, offers, offeredAt>>
  BY DEF Replaces
<1>3. /\ servers \in Seq(Started) /\ DOMAIN servers = 1 .. Len(servers) /\ Len(servers) \in Nat
      /\ sessions \in [Brokers -> Session] /\ turn \in Turns
      /\ sessions["held"] \in Session /\ sessions["held"].child <= Len(servers)
      /\ "held" \in Brokers
  BY <1>1 DEF ToolShapes, Brokers
<1> DEFINE c == sessions["held"].child
<1>4. /\ servers' \in Seq(Started) /\ Len(servers') = Len(servers) /\ DOMAIN servers' = DOMAIN servers
      /\ \A q \in DOMAIN servers :
              /\ \/ servers'[q] = servers[q]
                 \/ servers'[q] = [servers[q] EXCEPT !.closing = TRUE, !.pipe = << >>]
              /\ q = c /\ (Kind[servers[q].config] = "stdio" \/ sessions["held"].agreed) =>
                   servers'[q].closing
              /\ q # c => servers'[q] = servers[q]
  <2>1. /\ Close(servers, sessions["held"]) \in Seq(Started)
        /\ Len(Close(servers, sessions["held"])) = Len(servers)
        /\ DOMAIN Close(servers, sessions["held"]) = DOMAIN servers
        /\ \A q \in DOMAIN servers :
              /\ \/ Close(servers, sessions["held"])[q] = servers[q]
                 \/ Close(servers, sessions["held"])[q] = [servers[q] EXCEPT !.closing = TRUE, !.pipe = << >>]
              /\ q = sessions["held"].child
                   /\ (Kind[servers[q].config] = "stdio" \/ sessions["held"].agreed) =>
                   Close(servers, sessions["held"])[q].closing
              /\ q # sessions["held"].child => Close(servers, sessions["held"])[q] = servers[q]
    BY <1>3, CloseCloses
  <2> QED
    BY <1>2, <2>1
<1>5. \A q \in DOMAIN servers :
        /\ servers'[q].config = servers[q].config /\ servers'[q].by = servers[q].by
        /\ servers'[q].greeted = servers[q].greeted /\ servers'[q].served = servers[q].served
        /\ servers'[q].up = servers[q].up /\ servers'[q].asked = servers[q].asked
        /\ servers[q].closing => servers'[q].closing
        /\ servers'[q].pipe = servers[q].pipe \/ servers'[q].pipe = << >>
  <2> SUFFICES ASSUME NEW q \in DOMAIN servers
               PROVE
        /\ servers'[q].config = servers[q].config /\ servers'[q].by = servers[q].by
        /\ servers'[q].greeted = servers[q].greeted /\ servers'[q].served = servers[q].served
        /\ servers'[q].up = servers[q].up /\ servers'[q].asked = servers[q].asked
        /\ servers[q].closing => servers'[q].closing
        /\ servers'[q].pipe = servers[q].pipe \/ servers'[q].pipe = << >>
    OBVIOUS
  <2>1. servers[q] \in Started
    BY <1>3
  <2>2. \/ servers'[q] = servers[q]
        \/ servers'[q] = [servers[q] EXCEPT !.closing = TRUE, !.pipe = << >>]
    BY <1>4
  <2> QED
    BY <2>1, <2>2 DEF Started
<1>6. /\ sessions' \in [Brokers -> Session] /\ sessions'["held"] = McpSession
      /\ sessions'["own"] = sessions["own"] /\ McpSession.child = 0 /\ ~McpSession.agreed
  <2>1. McpSession \in Session
    BY DEF McpSession, Session
  <2> QED
    BY <1>2, <1>3, <2>1 DEF McpSession, Brokers
<1>7. PICK at \in {"consulting", "closing"}, going \in Nat :
        turn' = [turn EXCEPT !.at = at, !.going = going, !.seen = now]
  BY DEF Replaces
<1>8. /\ turn' \in Turns /\ turn'.at = at /\ turn'.side = turn.side /\ turn'.method = turn.method
      /\ turn'.reached = turn.reached /\ turn'.tool = turn.tool
      /\ turn'.got = turn.got /\ turn'.seen = now /\ turn'.granted = turn.granted
      /\ turn'.catalogue = turn.catalogue
  <2>1. turn' \in Turns
    BY <1>3, <1>7 DEF Turns, Busy
  <2> QED
    BY <1>3, <1>7, <2>1 DEF Turns
<1>9. held' \in Broker /\ held'.of = now /\ ~held'.list.known
  BY <1>2 DEF Broker, Listing, Unlisted
<1>10. ToolShapes'
  <2>1. \A b \in Brokers : sessions'[b].child <= Len(servers')
    <3>1. sessions'["held"].child = 0 /\ Len(servers') = Len(servers) /\ Len(servers) \in Nat
      BY <1>3, <1>4, <1>6
    <3>2. sessions["own"].child <= Len(servers)
      BY <1>1 DEF ToolShapes, Brokers
    <3>3. sessions'["own"].child <= Len(servers')
      BY <1>6, <3>1, <3>2
    <3>4. sessions'["held"].child <= Len(servers')
      BY <3>1
    <3> QED
      BY <3>3, <3>4 DEF Brokers
  <2> QED
    BY <1>1, <1>2, <1>4, <1>6, <1>8, <1>9, <2>1 DEF ToolShapes
<1>11. SessionsFit'
  <2>1. sessions["own"].child # 0 =>
          sessions["own"].child \in DOMAIN servers /\ sessions["own"].child # c
    <3>1. sessions["own"] \in Session /\ sessions["own"].child <= Len(servers)
      BY <1>1 DEF ToolShapes, Brokers
    <3> QED
      BY <3>1, <1>1, <1>3 DEF SessionsFit, Session, Brokers
  <2>2. sessions["own"].child # 0 => servers'[sessions["own"].child] = servers[sessions["own"].child]
    BY <1>4, <2>1
  <2> QED
    BY <1>1, <1>6, <2>2 DEF SessionsFit, Brokers
<1>12. IntroducedFirst'
  BY <1>1, <1>4, <1>5 DEF IntroducedFirst
<1>13. AskedOnce'
  <2> SUFFICES ASSUME NEW q \in DOMAIN servers
               PROVE  (servers'[q].asked # "nothing" => servers'[q].closing) /\ Replies(q)' = {}
    BY <1>4 DEF AskedOnce, Requested, Replied
  <2>1. Replies(q) = {} /\ (servers[q].asked # "nothing" => servers[q].closing)
    BY <1>2, NobodyAsked
  <2>2. Replies(q)' = {i \in DOMAIN servers'[q].pipe : servers'[q].pipe[i].kind # "changed"}
    BY DEF Replies
  <2>3. Replies(q) = {i \in DOMAIN servers[q].pipe : servers[q].pipe[i].kind # "changed"}
    BY DEF Replies
  <2>4. CASE servers'[q].pipe = servers[q].pipe
    BY <1>5, <2>1, <2>2, <2>3, <2>4
  <2>5. CASE servers'[q].pipe = << >>
    <3>1. DOMAIN servers'[q].pipe = {}
      BY <2>5
    <3> QED
      BY <1>5, <2>1, <2>2, <3>1
  <2> QED
    BY <1>5, <2>4, <2>5
<1>14. NoneLeftBehind'
  <2> SUFFICES ASSUME NEW q \in DOMAIN servers, servers'[q].by = "held", servers'[q].up,
                      ~servers'[q].closing, Kind[servers'[q].config] = "stdio"
               PROVE  FALSE
    BY <1>4 DEF NoneLeftBehind
  <2>1. c = q
    <3>1. servers[q].by = "held" /\ servers[q].up /\ ~servers[q].closing
            /\ Kind[servers[q].config] = "stdio"
      BY <1>5
    <3> QED
      BY <1>1, <3>1 DEF NoneLeftBehind
  <2>2. Kind[servers[q].config] = "stdio"
    BY <1>5
  <2>3. servers'[q].closing
    BY <1>4, <2>1, <2>2
  <2> QED
    BY <2>3
<1>15. TurnFits'
  BY <1>1, <1>2, <1>7, <1>8, <1>9 DEF TurnFits, Busy
<1>16. CallsCounted'
  BY <1>1, <1>2, <1>7, <1>8 DEF CallsCounted, TurnFits
<1>17. ListedWasOffered'
  BY <1>1, <1>2, <1>7, <1>8, <1>9 DEF ListedWasOffered
<1> QED
  BY <1>10, <1>11, <1>12, <1>13, <1>14, <1>15, <1>16, <1>17 DEF ToolsInv

LEMMA OfficeSaysKeeps ==
  ASSUME ToolConstants, ToolsInv, NEW now \in {connector, Unconnected}, OfficeSays(now)
  PROVE  ToolsInv'
<1>1. /\ turn \in Turns /\ used \in Counters /\ now \in Connectors \cup {Unconnected}
      /\ turn.at = "office" /\ sessions["held"] \in Session
      /\ UNCHANGED <<clock, connector, offers, offeredAt>>
  BY DEF ToolsInv, ToolShapes, OfficeSays, Brokers
<1>2. used' \in Counters
  <2>1. PICK f \in {0, 1} : f = IF now = Unconnected THEN 1 ELSE 0
    OBVIOUS
  <2>2. used' = [used EXCEPT !.faults = used.faults + f]
    BY <2>1 DEF OfficeSays
  <2>3. used.faults + f \in Nat
    BY <1>1 DEF Counters
  <2> QED
    BY <1>1, <2>2, <2>3 DEF Counters
<1>3. CASE /\ held.has /\ SignatureOf(held.of) = SignatureOf(now)
           /\ turn' = [turn EXCEPT !.at = "consulting", !.seen = now]
           /\ UNCHANGED <<held, sessions, servers>>
  <2>1. /\ turn' \in Turns /\ turn'.at = "consulting"
    BY <1>1, <1>3 DEF Turns, Busy
  <2>2. /\ turn'.side = turn.side /\ turn'.method = turn.method
        /\ turn'.reached = turn.reached /\ turn'.tool = turn.tool
        /\ turn'.got = turn.got /\ turn'.seen = now /\ turn'.granted = turn.granted
        /\ turn'.catalogue = turn.catalogue
    BY <1>1, <1>3 DEF Turns
  <2>3. held.of = now
    BY <1>3 DEF SignatureOf
  <2>4. TurnFits /\ CallsCounted
    BY DEF ToolsInv
  <2>5. TurnFits' /\ CallsCounted'
    BY <1>1, <1>3, <2>1, <2>2, <2>3, <2>4 DEF TurnFits, CallsCounted, Busy
  <2> QED
    BY <1>1, <1>2, <1>3, <2>1, <2>5, TurnGoesOn
<1>4. CASE /\ held' = [has |-> TRUE, of |-> now, list |-> Unlisted]
           /\ servers' = Close(servers, sessions["held"])
           /\ sessions' = [sessions EXCEPT !["held"] = McpSession]
           /\ LET going == {p \in DOMAIN servers : servers[p].up /\ p = sessions["held"].child
                                                     /\ servers'[p].closing}
              IN turn' = [turn EXCEPT !.at = IF going = {} THEN "consulting" ELSE "closing",
                                      !.going = IF going = {} THEN 0 ELSE sessions["held"].child,
                                      !.seen = now]
  <2> DEFINE going == {p \in DOMAIN servers : servers[p].up /\ p = sessions["held"].child
                                                     /\ servers'[p].closing}
  <2>1. turn' = [turn EXCEPT !.at = IF going = {} THEN "consulting" ELSE "closing",
                             !.going = IF going = {} THEN 0 ELSE sessions["held"].child,
                             !.seen = now]
    BY <1>4
  <2> HIDE DEF going
  <2>2. \E at \in {"consulting", "closing"}, g \in Nat :
          turn' = [turn EXCEPT !.at = at, !.going = g, !.seen = now]
    <3>1. sessions["held"].child \in Nat
      BY <1>1 DEF Session
    <3>2. CASE going = {}
      <4>1. turn' = [turn EXCEPT !.at = "consulting", !.going = 0, !.seen = now]
        BY <2>1, <3>2
      <4> QED
        BY <4>1
    <3>3. CASE going # {}
      <4>1. turn' = [turn EXCEPT !.at = "closing", !.going = sessions["held"].child, !.seen = now]
        BY <2>1, <3>3
      <4> QED
        BY <3>1, <4>1
    <3> QED
      BY <3>2, <3>3
  <2>3. Replaces(now)
    BY <1>1, <1>2, <1>4, <2>2 DEF Replaces
  <2> QED
    BY <1>1, <2>3, ReplacesKeeps
<1> QED
  BY <1>3, <1>4 DEF OfficeSays

-------------------------------------------------------------------------------
(* What is heard of a server.                                                *)

\* The servers once n lines of the pipe of p were taken from it.
Drained(ss, p, n) ==
  /\ ss \in Seq(Started) /\ Len(ss) = Len(servers) /\ DOMAIN ss = DOMAIN servers
  /\ \A q \in DOMAIN servers : q # p => ss[q] = servers[q]
  /\ SameServer(servers[p], ss[p]) /\ ss[p].asked = servers[p].asked
  /\ ss[p].greeted = servers[p].greeted
  /\ \A i \in DOMAIN ss[p].pipe :
       /\ i \in Nat \ {0} /\ i + n \in DOMAIN servers[p].pipe
       /\ ss[p].pipe[i] = servers[p].pipe[i + n]

\* Taking lines from a pipe leaves the ones after them, in their order.
LEMMA DrainingDrains ==
  ASSUME ToolsInv, NEW p \in DOMAIN servers, NEW n \in Nat, n <= Len(servers[p].pipe)
  PROVE  Drained([servers EXCEPT ![p].pipe = SubSeq(@, n + 1, Len(@))], p, n)
<1>1. /\ servers \in Seq(Started) /\ servers[p] \in Started /\ servers[p].pipe \in Seq(Lines)
  <2>1. servers \in Seq(Started)
    BY DEF ToolsInv, ToolShapes
  <2>2. servers[p] \in Started
    BY <2>1
  <2> QED
    BY <2>1, <2>2 DEF Started
<1>2. PICK pipe : pipe = servers[p].pipe
  OBVIOUS
<1>3. /\ pipe \in Seq(Lines) /\ Len(pipe) \in Nat /\ DOMAIN pipe = 1 .. Len(pipe)
      /\ n <= Len(pipe)
  BY <1>1, <1>2
<1>4. PICK left : left = SubSeq(pipe, n + 1, Len(pipe))
  OBVIOUS
<1>5. /\ left \in Seq(Lines) /\ DOMAIN left = 1 .. Len(left) /\ Len(left) = Len(pipe) - n
      /\ \A i \in 1 .. Len(left) : left[i] = pipe[i + n]
  <2>1. \A i \in n + 1 .. Len(pipe) : pipe[i] \in Lines
    BY <1>3
  <2>2. /\ SubSeq(pipe, n + 1, Len(pipe)) \in Seq(Lines)
        /\ Len(SubSeq(pipe, n + 1, Len(pipe))) =
             IF n + 1 <= Len(pipe) THEN Len(pipe) - (n + 1) + 1 ELSE 0
        /\ \A i \in 1 .. Len(pipe) - (n + 1) + 1 :
             SubSeq(pipe, n + 1, Len(pipe))[i] = pipe[(n + 1) + i - 1]
    <3>1. n + 1 \in Int /\ Len(pipe) \in Int
      BY <1>3
    <3> QED
      BY <2>1, <3>1, SubSeqProperties
  <2>3. left \in Seq(Lines) /\ DOMAIN left = 1 .. Len(left)
    BY <1>4, <2>2
  <2>4. Len(left) = Len(pipe) - n
    <3>1. Len(left) = IF n + 1 <= Len(pipe) THEN Len(pipe) - (n + 1) + 1 ELSE 0
      BY <1>4, <2>2
    <3>2. PICK l \in Nat : l = Len(pipe)
      BY <1>3
    <3>3. n <= l
      BY <1>3, <3>2
    <3>4. (IF n + 1 <= l THEN l - (n + 1) + 1 ELSE 0) = l - n
      BY <3>3
    <3> QED
      BY <3>1, <3>2, <3>4
  <2>5. \A i \in 1 .. Len(left) : left[i] = pipe[i + n]
    <3> TAKE i \in 1 .. Len(left)
    <3>1. i \in 1 .. Len(pipe) - (n + 1) + 1 /\ (n + 1) + i - 1 = i + n
      BY <1>3, <2>4
    <3> QED
      BY <1>4, <2>2, <3>1
  <2> QED
    BY <2>3, <2>4, <2>5
<1> DEFINE new == [servers[p] EXCEPT !.pipe = left]
<1>6. /\ new \in Started /\ new.asked = servers[p].asked /\ new.greeted = servers[p].greeted
      /\ new.pipe = left /\ SameServer(servers[p], new)
  BY <1>1, <1>5 DEF Started, SameServer
<1>7. [servers EXCEPT ![p].pipe = SubSeq(@, n + 1, Len(@))] = [servers EXCEPT ![p] = new]
  BY <1>2, <1>4
<1> HIDE DEF new
<1>8. /\ [servers EXCEPT ![p] = new] \in Seq(Started) /\ Len([servers EXCEPT ![p] = new]) = Len(servers)
      /\ DOMAIN [servers EXCEPT ![p] = new] = DOMAIN servers
      /\ [servers EXCEPT ![p] = new][p] = new
      /\ \A q \in DOMAIN servers : q # p => [servers EXCEPT ![p] = new][q] = servers[q]
  BY <1>1, <1>6, OneReplaced
<1>9. \A i \in DOMAIN left :
        i \in Nat \ {0} /\ i + n \in DOMAIN pipe /\ left[i] = pipe[i + n]
  BY <1>3, <1>5
<1> QED
  BY <1>2, <1>6, <1>7, <1>8, <1>9 DEF Drained

\* When an answer was among the lines, nobody is owed another.
LEMMA AnsweredIsQuiet ==
  ASSUME ToolsInv, NEW p \in DOMAIN servers, ~servers[p].closing, NEW n \in Nat,
         NEW k \in Replies(p), k <= n, NEW ss, Drained(ss, p, n)
  PROVE  Awaited(p) /\ Quietened(ss)
<1>1. AskedOnce /\ servers \in Seq(Started)
  BY DEF ToolsInv, ToolShapes
<1>2. /\ Awaited(p) /\ \A j \in Replies(p) : k = j
      /\ servers[p].asked = "nothing"
  BY <1>1 DEF AskedOnce, Requested, Replied
<1>3. k \in Nat
  <2>1. servers[p] \in Started
    BY <1>1
  <2>2. servers[p].pipe \in Seq(Lines)
    BY <2>1 DEF Started
  <2> QED
    BY <2>2 DEF Replies
<1>4. \A i \in DOMAIN ss[p].pipe : ss[p].pipe[i].kind = "changed"
  <2> SUFFICES ASSUME NEW i \in DOMAIN ss[p].pipe, ss[p].pipe[i].kind # "changed"
               PROVE  FALSE
    OBVIOUS
  <2>1. i \in Nat \ {0} /\ i + n \in DOMAIN servers[p].pipe
        /\ ss[p].pipe[i] = servers[p].pipe[i + n]
    BY DEF Drained
  <2>2. i + n \in Replies(p)
    BY <2>1 DEF Replies
  <2> QED
    BY <1>2, <1>3, <2>1, <2>2
<1>5. \A q \in DOMAIN servers : q # p =>
        /\ ss[q] = servers[q] /\ (servers[q].asked # "nothing" => servers[q].closing)
        /\ \A i \in DOMAIN servers[q].pipe : servers[q].pipe[i].kind = "changed"
  <2>1. \A q \in DOMAIN servers : q # p =>
           Replies(q) = {} /\ (servers[q].asked # "nothing" => servers[q].closing)
    BY <1>2, OnlyOneAwaited
  <2> QED
    BY <2>1 DEF Replies, Drained
<1>6. /\ ss \in Seq(Started) /\ Len(ss) = Len(servers)
      /\ SameServer(servers[p], ss[p]) /\ ss[p].asked = "nothing"
      /\ ss[p].greeted = servers[p].greeted
  BY <1>2 DEF Drained
<1>7. \A q \in DOMAIN servers :
       /\ ss[q].config = servers[q].config /\ ss[q].by = servers[q].by
       /\ ss[q].closing = servers[q].closing /\ ss[q].greeted = servers[q].greeted
       /\ ss[q].served = servers[q].served
       /\ ss[q].up => servers[q].up
       /\ ss[q].asked # "nothing" => ss[q].closing
       /\ \A i \in DOMAIN ss[q].pipe : ss[q].pipe[i].kind = "changed"
  <2> TAKE q \in DOMAIN servers
  <2>1. CASE q = p
    BY <2>1, <1>4, <1>6 DEF SameServer
  <2>2. CASE q # p
    BY <2>2, <1>5
  <2> QED
    BY <2>1, <2>2
<1> QED
  BY <1>2, <1>6, <1>7 DEF Quietened

\* An answer was heard, and who waited for it goes on.
GoesOn ==
  /\ Quietened(servers') /\ turn' \in Turns /\ turn'.at \in {"deciding", "asking"}
  /\ held' \in Broker /\ held'.of = held.of
  /\ sessions' \in [Brokers -> Session]
  /\ \A b \in Brokers :
       /\ sessions'[b].child = sessions[b].child /\ sessions'[b].closed = sessions[b].closed
       /\ sessions'[b].agreed =>
            \/ sessions[b].agreed
            \/ sessions[b].child # 0 /\ servers[sessions[b].child].greeted
  /\ UNCHANGED <<clock, connector, offers, offeredAt, used>>

LEMMA GoingOnKeeps ==
  ASSUME ToolConstants, ToolsInv, GoesOn, TurnFits', CallsCounted', ListedWasOffered'
  PROVE  ToolsInv'
<1>1. /\ ToolShapes /\ SessionsFit /\ IntroducedFirst /\ AskedOnce /\ NoneLeftBehind
  BY DEF ToolsInv
<1>2. /\ turn' \in Turns /\ turn'.at # "waiting" /\ held' \in Broker /\ held'.of = held.of
      /\ sessions' \in [Brokers -> Session]
      /\ \A b \in Brokers :
           /\ sessions'[b].child = sessions[b].child /\ sessions'[b].closed = sessions[b].closed
           /\ sessions'[b].agreed =>
                \/ sessions[b].agreed
                \/ sessions[b].child # 0 /\ servers[sessions[b].child].greeted
      /\ UNCHANGED <<clock, connector, offers, offeredAt, used>>
  BY DEF GoesOn
<1>3. /\ servers' \in Seq(Started) /\ Len(servers') = Len(servers)
      /\ DOMAIN servers' = DOMAIN servers
      /\ \A q \in DOMAIN servers :
           /\ servers'[q].config = servers[q].config /\ servers'[q].by = servers[q].by
           /\ servers'[q].closing = servers[q].closing /\ servers'[q].greeted = servers[q].greeted
           /\ servers'[q].served = servers[q].served
           /\ servers'[q].up => servers[q].up
           /\ servers'[q].asked # "nothing" => servers'[q].closing
           /\ \A i \in DOMAIN servers'[q].pipe : servers'[q].pipe[i].kind = "changed"
  <2>1. /\ servers' \in Seq(Started) /\ Len(servers') = Len(servers) /\ servers \in Seq(Started)
    BY <1>1 DEF GoesOn, Quietened, ToolShapes
  <2>2. DOMAIN servers' = DOMAIN servers
    BY <2>1
  <2> QED
    BY <2>1, <2>2 DEF GoesOn, Quietened
<1>4. \A b \in Brokers : sessions[b].child # 0 => sessions[b].child \in DOMAIN servers
  <2>1. \A b \in Brokers : sessions[b].child \in Nat /\ sessions[b].child <= Len(servers)
    BY <1>1 DEF ToolShapes, Session
  <2>2. DOMAIN servers = 1 .. Len(servers) /\ Len(servers) \in Nat
    BY <1>1 DEF ToolShapes
  <2> QED
    BY <2>1, <2>2
<1>5. ToolShapes'
  BY <1>1, <1>2, <1>3 DEF ToolShapes
<1>6. SessionsFit'
  <2>1. \A b \in Brokers : sessions'[b].child # 0 =>
           /\ servers'[sessions'[b].child].by = b
           /\ ~servers'[sessions'[b].child].closing
           /\ sessions'[b].agreed => servers'[sessions'[b].child].greeted
    BY <1>1, <1>2, <1>3, <1>4 DEF SessionsFit
  <2>2. sessions'["held"].child # 0 => servers'[sessions'["held"].child].config = held'.of.config
    BY <1>1, <1>2, <1>3, <1>4 DEF SessionsFit, Brokers
  <2>3. \A b \in Brokers : sessions'[b].child = 0 /\ ~sessions'[b].closed => ~sessions'[b].agreed
    BY <1>1, <1>2 DEF SessionsFit
  <2> QED
    BY <2>1, <2>2, <2>3 DEF SessionsFit
<1>7. IntroducedFirst'
  BY <1>1, <1>3 DEF IntroducedFirst
<1>8. AskedOnce'
  <2> SUFFICES ASSUME NEW q \in DOMAIN servers
               PROVE  (servers'[q].asked # "nothing" => servers'[q].closing) /\ Replies(q)' = {}
    BY <1>3 DEF AskedOnce, Requested, Replied
  <2>1. Replies(q)' = {i \in DOMAIN servers'[q].pipe : servers'[q].pipe[i].kind # "changed"}
    BY DEF Replies
  <2> QED
    BY <1>3, <2>1
<1>9. NoneLeftBehind'
  BY <1>1, <1>2, <1>3 DEF NoneLeftBehind, Brokers
<1> QED
  BY <1>5, <1>6, <1>7, <1>8, <1>9 DEF ToolsInv

\* What the broker held is once it was told: its list may be dropped.
Told(h) == h \in Broker /\ h.of = held.of /\ h.list \in {held.list, Unlisted}

TheRestStays == UNCHANGED <<clock, connector, offers, offeredAt, used>>

HeardNotices(p, n) ==
  Drained(servers', p, n) /\ Told(held') /\ UNCHANGED <<sessions, turn>>

HeardRefusal(p, n) == \E ss : Drained(ss, p, n) /\ Fail(ss)

HeardAgreement(p, n) ==
  /\ Drained(servers', p, n) /\ Told(held')
  /\ sessions' = [sessions EXCEPT ![turn.side].agreed = TRUE]
  /\ turn' = [turn EXCEPT !.at = "asking"]

HeardPage(p, n, answer) ==
  /\ Drained(servers', p, n)
  /\ turn' = Page(answer)
  /\ \E h : /\ Told(h)
            /\ held' = IF Complete(answer)
                         THEN [h EXCEPT !.list = [known |-> TRUE, at |-> clock,
                                                  tools |-> turn.got \cup answer.tools]]
                         ELSE h
  /\ UNCHANGED sessions

HeardOutcome(p, n) ==
  Drained(servers', p, n) /\ Told(held') /\ turn' = Concluded(turn) /\ UNCHANGED sessions

\* Hearing of a change only drops the list.
LEMMA ToldIsTold ==
  ASSUME ToolsInv, NEW heard \in BOOLEAN
  PROVE  Told([held EXCEPT !.list = IF heard THEN Unlisted ELSE @])
<1>1. held \in Broker /\ Unlisted \in Listing
  BY DEF ToolsInv, ToolShapes, Listing, Unlisted
<1>2. CASE heard
  <2>1. [held EXCEPT !.list = IF heard THEN Unlisted ELSE @] = [held EXCEPT !.list = Unlisted]
    BY <1>2
  <2>2. [held EXCEPT !.list = Unlisted] \in Broker
    BY <1>1 DEF Broker
  <2>3. [held EXCEPT !.list = Unlisted].of = held.of /\ [held EXCEPT !.list = Unlisted].list = Unlisted
    BY <1>1 DEF Broker
  <2> QED
    BY <2>1, <2>2, <2>3 DEF Told
<1>3. CASE ~heard
  <2>1. [held EXCEPT !.list = IF heard THEN Unlisted ELSE @] = held
    BY <1>1, <1>3 DEF Broker
  <2> QED
    BY <1>1, <2>1 DEF Told
<1> QED
  BY <1>2, <1>3

\* What hearing lines comes to.
LEMMA WhatIsHeard ==
  ASSUME ToolsInv, NEW p \in DOMAIN servers, NEW n \in 1 .. 2, Hear(p, n)
  PROVE  /\ TheRestStays /\ ~servers[p].closing /\ n <= Len(servers[p].pipe)
         /\ \/ HeardNotices(p, n)
            \/ \E k \in Replies(p) :
                 /\ k <= n
                 /\ \/ servers[p].pipe[k].kind = "refused" /\ HeardRefusal(p, n)
                    \/ servers[p].pipe[k].kind = "agreed" /\ HeardAgreement(p, n)
                    \/ servers[p].pipe[k].kind = "page" /\ HeardPage(p, n, servers[p].pipe[k])
                    \/ servers[p].pipe[k].kind = "done" /\ HeardOutcome(p, n)
<1> DEFINE lines == SubSeq(servers[p].pipe, 1, n)
           heard == \E i \in 1 .. n : lines[i].kind = "changed" /\ servers[p].by = "held"
           told == [held EXCEPT !.list = IF heard THEN Unlisted ELSE @]
           answers == {lines[i] : i \in {j \in 1 .. n : lines[j].kind # "changed"}}
           rest == [servers EXCEPT ![p].pipe = SubSeq(@, n + 1, Len(@))]
<1>1. n \in Nat /\ n <= Len(servers[p].pipe) /\ ~servers[p].closing /\ TheRestStays
  <2>1. n \in Nat
    OBVIOUS
  <2>2. n <= Len(servers[p].pipe) /\ ~servers[p].closing
    BY Zenon DEF Hear
  <2>3. TheRestStays
    BY Zenon DEF Hear, TheRestStays
  <2> QED
    BY <2>1, <2>2, <2>3
<1>2. Drained(rest, p, n)
  BY <1>1, DrainingDrains
<1>3. Told(told)
  <2>1. heard \in BOOLEAN
    OBVIOUS
  <2> HIDE DEF heard
  <2> QED
    BY <2>1, ToldIsTold
<1>4. \A answer \in answers : \E k \in Replies(p) : k <= n /\ answer = servers[p].pipe[k]
  <2>1. servers[p].pipe \in Seq(Lines)
    <3>1. servers \in Seq(Started)
      BY DEF ToolsInv, ToolShapes
    <3>2. servers[p] \in Started
      BY <3>1
    <3> QED
      BY <3>2 DEF Started
  <2>2. PICK pipe \in Seq(Lines) : pipe = servers[p].pipe
    BY <2>1
  <2>3. \A i \in 1 .. n : i \in DOMAIN pipe /\ pipe[i] \in Lines
    BY <1>1, <2>2
  <2>4. \A i \in 1 .. n : SubSeq(pipe, 1, n)[i] = pipe[i]
    <3>1. \A i \in 1 .. n - 1 + 1 : SubSeq(pipe, 1, n)[i] = pipe[1 + i - 1]
      <4>1. 1 \in Int /\ n \in Int
        BY <1>1
      <4> QED
        BY <2>3, <4>1, SubSeqProperties
    <3>2. \A i \in 1 .. n : i \in 1 .. n - 1 + 1 /\ 1 + i - 1 = i
      BY <1>1
    <3> QED
      BY <3>1, <3>2
  <2> SUFFICES ASSUME NEW i \in 1 .. n, lines[i].kind # "changed"
               PROVE  \E k \in Replies(p) : k <= n /\ lines[i] = servers[p].pipe[k]
    OBVIOUS
  <2>5. lines[i] = servers[p].pipe[i]
    BY <2>2, <2>4
  <2>6. i \in Replies(p)
    BY <2>2, <2>3, <2>5 DEF Replies
  <2> QED
    BY <2>5, <2>6
<1>5. \/ /\ servers' = rest /\ held' = told
         /\ UNCHANGED <<sessions, turn>>
      \/ \E answer \in answers :
           \/ answer.kind = "refused" /\ Fail(rest)
           \/ /\ answer.kind = "agreed"
              /\ servers' = rest /\ held' = told
              /\ sessions' = [sessions EXCEPT ![turn.side].agreed = TRUE]
              /\ turn' = [turn EXCEPT !.at = "asking"]
           \/ /\ answer.kind = "page"
              /\ servers' = rest
              /\ turn' = Page(answer)
              /\ held' = IF Complete(answer)
                           THEN [told EXCEPT !.list = [known |-> TRUE, at |-> clock,
                                   tools |-> turn.got \cup answer.tools]]
                           ELSE told
              /\ UNCHANGED sessions
           \/ /\ answer.kind = "done"
              /\ servers' = rest /\ held' = told
              /\ turn' = Concluded(turn)
              /\ UNCHANGED sessions
  BY DEF Hear
<1> HIDE DEF answers, told, rest, heard
<1>6. CASE servers' = rest /\ held' = told /\ UNCHANGED <<sessions, turn>>
  BY <1>1, <1>2, <1>3, <1>6 DEF HeardNotices
<1>7. ASSUME NEW answer \in answers, answer.kind = "refused" /\ Fail(rest)
      PROVE  \E k \in Replies(p) : k <= n /\ servers[p].pipe[k].kind = "refused" /\ HeardRefusal(p, n)
  BY <1>2, <1>4, <1>7 DEF HeardRefusal
<1>8. ASSUME NEW answer \in answers, answer.kind = "agreed", servers' = rest /\ held' = told,
             sessions' = [sessions EXCEPT ![turn.side].agreed = TRUE],
             turn' = [turn EXCEPT !.at = "asking"]
      PROVE  \E k \in Replies(p) : k <= n /\ servers[p].pipe[k].kind = "agreed" /\ HeardAgreement(p, n)
  BY <1>2, <1>3, <1>4, <1>8 DEF HeardAgreement
<1>9. ASSUME NEW answer \in answers, answer.kind = "page", servers' = rest,
             turn' = Page(answer),
             held' = IF Complete(answer)
                       THEN [told EXCEPT !.list = [known |-> TRUE, at |-> clock,
                               tools |-> turn.got \cup answer.tools]]
                       ELSE told,
             UNCHANGED sessions
      PROVE  \E k \in Replies(p) :
               k <= n /\ servers[p].pipe[k].kind = "page" /\ HeardPage(p, n, servers[p].pipe[k])
  <2>1. HeardPage(p, n, answer)
    BY <1>2, <1>3, <1>9 DEF HeardPage
  <2> QED
    BY <1>4, <1>9, <2>1
<1>10. ASSUME NEW answer \in answers, answer.kind = "done", servers' = rest /\ held' = told,
              turn' = Concluded(turn), UNCHANGED sessions
       PROVE  \E k \in Replies(p) : k <= n /\ servers[p].pipe[k].kind = "done" /\ HeardOutcome(p, n)
  BY <1>2, <1>3, <1>4, <1>10 DEF HeardOutcome
<1> QED
  BY <1>1, <1>5, <1>6, <1>7, <1>8, <1>9, <1>10

LEMMA NoticesKeep ==
  ASSUME ToolConstants, ToolsInv, NEW p \in DOMAIN servers, NEW n \in Nat,
         HeardNotices(p, n), TheRestStays
  PROVE  ToolsInv'
<1>1. /\ ToolShapes /\ SessionsFit /\ AskedOnce
      /\ TurnFits /\ CallsCounted /\ ListedWasOffered
  BY DEF ToolsInv
<1>2. /\ servers' \in Seq(Started) /\ Len(servers') = Len(servers) /\ DOMAIN servers' = DOMAIN servers
      /\ \A q \in DOMAIN servers : q # p => servers'[q] = servers[q]
      /\ SameServer(servers[p], servers'[p]) /\ servers'[p].asked = servers[p].asked
      /\ servers'[p].greeted = servers[p].greeted
      /\ \A i \in DOMAIN servers'[p].pipe :
           /\ i \in Nat \ {0} /\ i + n \in DOMAIN servers[p].pipe
           /\ servers'[p].pipe[i] = servers[p].pipe[i + n]
  BY DEF HeardNotices, Drained
<1>3. /\ held' \in Broker /\ held'.of = held.of /\ held'.list \in {held.list, Unlisted}
      /\ UNCHANGED <<clock, connector, offers, offeredAt, used, sessions, turn>>
  BY DEF HeardNotices, Told, TheRestStays
<1>4. \A q \in DOMAIN servers : SameServer(servers[q], servers'[q])
                                  /\ servers'[q].asked = servers[q].asked
  BY <1>2 DEF SameServer
<1>5. ToolShapes'
  BY <1>1, <1>2, <1>3 DEF ToolShapes
<1>6. SessionsFit' /\ IntroducedFirst' /\ NoneLeftBehind'
  BY <1>2, <1>3, <1>4, SameServersFit
<1>7. AskedOnce'
  <2> SUFFICES ASSUME NEW q \in DOMAIN servers
               PROVE  (Requested(q) /\ \A i \in Replies(q) : Replied(q, i))'
    BY <1>2 DEF AskedOnce
  <2>1. /\ servers'[q].asked = servers[q].asked /\ servers'[q].closing = servers[q].closing
        /\ servers'[q].by = servers[q].by /\ servers'[q].config = servers[q].config
        /\ servers'[q].greeted = servers[q].greeted
    BY <1>2, <1>4 DEF SameServer
  <2>2. Awaited(q)' = Awaited(q)
    BY <1>3, <2>1 DEF Awaited
  <2>3. /\ Requested(q)
        /\ \A i \in Replies(q) : Replied(q, i)
    BY <1>1 DEF AskedOnce
  <2>4. CASE q # p
    <3>1. servers'[q] = servers[q]
      BY <1>2, <2>4
    <3>2. Replies(q)' = Replies(q)
      BY <3>1 DEF Replies
    <3>3. Requested(q)'
      BY <1>3, <2>2, <2>3, <3>1, <3>2 DEF Requested
    <3>4. \A i \in Replies(q)' : Replied(q, i)'
      BY <1>3, <2>2, <2>3, <3>1, <3>2 DEF Replied
    <3> QED
      BY <3>3, <3>4
  <2>5. CASE q = p
    <3>1. \A i \in Replies(q)' : i \in Nat /\ i + n \in Replies(q)
                                   /\ servers'[q].pipe[i] = servers[q].pipe[i + n]
      BY <1>2, <2>5 DEF Replies
    <3>2. Requested(q)'
      <4>1. Replies(q) = {} => Replies(q)' = {}
        BY <3>1
      <4> QED
        BY <1>3, <2>1, <2>2, <2>3, <4>1 DEF Requested
    <3>3. ASSUME NEW i \in Replies(q)'
          PROVE  Replied(q, i)'
      <4>1. Replied(q, i + n) /\ i \in Nat /\ servers'[q].pipe[i] = servers[q].pipe[i + n]
        BY <2>3, <3>1
      <4>2. \A j \in Replies(q)' : i = j
        <5> TAKE j \in Replies(q)'
        <5>1. j \in Nat /\ j + n \in Replies(q)
          BY <3>1
        <5>2. i + n = j + n
          BY <4>1, <5>1 DEF Replied
        <5> QED
          BY <4>1, <5>1, <5>2
      <4> QED
        BY <1>3, <2>1, <2>2, <4>1, <4>2 DEF Replied
    <3> QED
      BY <3>2, <3>3
  <2> QED
    BY <2>4, <2>5
<1>8. TurnFits' /\ CallsCounted'
  <2>1. TurnFits'
    BY <1>1, <1>3 DEF TurnFits
  <2>2. turn.at = "waiting" /\ turn.side = "held" => sessions["held"].child \in DOMAIN servers
    <3>1. sessions["held"] \in Session /\ sessions["held"].child <= Len(servers)
      BY <1>1 DEF ToolShapes, Brokers
    <3>2. DOMAIN servers = 1 .. Len(servers) /\ Len(servers) \in Nat
      BY <1>1 DEF ToolShapes
    <3> QED
      BY <3>1, <3>2, <1>1 DEF TurnFits, Session
  <2> QED
    BY <1>1, <1>3, <1>4, <2>1, <2>2 DEF CallsCounted
<1>9. ListedWasOffered'
  BY <1>1, <1>3 DEF ListedWasOffered, Unlisted
<1> QED
  BY <1>5, <1>6, <1>7, <1>8, <1>9 DEF ToolsInv

\* What holds when an answer of the server p was heard.
LEMMA AnsweredFits ==
  ASSUME ToolConstants, ToolsInv, NEW p \in DOMAIN servers, ~servers[p].closing, NEW n \in Nat,
         NEW k \in Replies(p), k <= n
  PROVE  /\ turn \in Turns /\ turn.side \in Brokers /\ turn.at = "waiting"
         /\ turn.side = servers[p].by /\ sessions[turn.side].child = p /\ p # 0
         /\ sessions \in [Brokers -> Session] /\ servers[p].pipe[k] \in Lines
         /\ Replied(p, k)
<1>1. servers \in Seq(Started) /\ sessions \in [Brokers -> Session] /\ turn \in Turns /\ AskedOnce
  BY DEF ToolsInv, ToolShapes
<1>2. servers[p] \in Started /\ p # 0
  BY <1>1
<1>3. servers[p].pipe[k] \in Lines
  <2>1. servers[p].pipe \in Seq(Lines) /\ k \in DOMAIN servers[p].pipe
    BY <1>2 DEF Started, Replies
  <2> QED
    BY <2>1
<1>4. Replied(p, k)
  BY <1>1 DEF AskedOnce
<1>5. Awaited(p) /\ turn.side \in Brokers
  BY <1>1, <1>4 DEF Replied, Turns
<1> QED
  BY <1>1, <1>2, <1>3, <1>4, <1>5 DEF Awaited

\* What is heard of a server fails the session, has it agreed, is a page of its tools or
\* the outcome of a call.
LEMMA RefusalKeeps ==
  ASSUME ToolConstants, ToolsInv, NEW p \in DOMAIN servers, ~servers[p].closing, NEW n \in Nat,
         NEW k \in Replies(p), k <= n, HeardRefusal(p, n), TheRestStays
  PROVE  ToolsInv'
<1>1. PICK ss : Drained(ss, p, n) /\ Fail(ss)
  BY DEF HeardRefusal
<1>2. Quietened(ss)
  BY <1>1, AnsweredIsQuiet
<1>3. turn.at \in {"asking", "waiting"}
  BY AnsweredFits
<1>4. used' \in Counters /\ UNCHANGED <<clock, connector, offers, offeredAt>>
  BY DEF ToolsInv, ToolShapes, TheRestStays
<1> QED
  BY <1>1, <1>2, <1>3, <1>4, FailKeeps

LEMMA AgreementKeeps ==
  ASSUME ToolConstants, ToolsInv, NEW p \in DOMAIN servers, ~servers[p].closing, NEW n \in Nat,
         NEW k \in Replies(p), k <= n, servers[p].pipe[k].kind = "agreed",
         HeardAgreement(p, n), TheRestStays
  PROVE  ToolsInv'
<1>1. /\ TurnFits /\ CallsCounted /\ ListedWasOffered
  BY DEF ToolsInv
<1>2. /\ turn \in Turns /\ turn.side \in Brokers /\ turn.at = "waiting"
      /\ sessions[turn.side].child = p /\ p # 0 /\ sessions \in [Brokers -> Session]
      /\ servers[p].greeted /\ ~sessions[turn.side].agreed
  BY AnsweredFits DEF Replied
<1>3. Quietened(servers')
  BY AnsweredIsQuiet DEF HeardAgreement
<1>4. /\ turn' \in Turns /\ turn'.at = "asking" /\ turn'.side = turn.side /\ turn'.method = turn.method
      /\ turn'.reached = turn.reached /\ turn'.attempt = turn.attempt /\ turn'.tool = turn.tool
      /\ turn'.got = turn.got /\ turn'.seen = turn.seen /\ turn'.granted = turn.granted
      /\ turn'.catalogue = turn.catalogue
  <2>1. turn' = [turn EXCEPT !.at = "asking"]
    BY DEF HeardAgreement
  <2>2. turn' \in Turns
    BY <1>2, <2>1 DEF Turns, Busy
  <2> QED
    BY <1>2, <2>1, <2>2 DEF Turns
<1>5. held' \in Broker /\ held'.of = held.of /\ held'.list \in {held.list, Unlisted}
  BY DEF HeardAgreement, Told
<1>6. /\ sessions' \in [Brokers -> Session]
      /\ \A b \in Brokers :
           /\ sessions'[b].child = sessions[b].child /\ sessions'[b].closed = sessions[b].closed
           /\ sessions'[b].agreed =>
                \/ sessions[b].agreed
                \/ sessions[b].child # 0 /\ servers[sessions[b].child].greeted
  <2>1. PICK new : new = [sessions[turn.side] EXCEPT !.agreed = TRUE]
    OBVIOUS
  <2>2. sessions[turn.side] \in Session
    BY <1>2
  <2>3. new \in Session /\ new.child = p /\ new.closed = sessions[turn.side].closed
    BY <1>2, <2>1, <2>2 DEF Session
  <2>4. sessions' = [sessions EXCEPT ![turn.side] = new]
    BY <2>1 DEF HeardAgreement
  <2>5. sessions' \in [Brokers -> Session] /\ sessions'[turn.side] = new
        /\ \A b \in Brokers : b # turn.side => sessions'[b] = sessions[b]
    BY <1>2, <2>3, <2>4
  <2> QED
    BY <1>2, <2>3, <2>5
<1>7. GoesOn
  BY <1>3, <1>4, <1>5, <1>6 DEF GoesOn, TheRestStays
<1>8. TurnFits'
  BY <1>1, <1>2, <1>4, <1>5 DEF TurnFits, Busy
<1>9. CallsCounted'
  <2>1. turn.method = "call" => turn.reached <= turn.attempt
    BY <1>1, <1>2 DEF CallsCounted
  <2> QED
    BY <1>1, <1>4, <2>1 DEF CallsCounted
<1>10. ListedWasOffered'
  BY <1>1, <1>2, <1>4, <1>5 DEF ListedWasOffered, TheRestStays, Unlisted
<1> QED
  BY <1>7, <1>8, <1>9, <1>10, GoingOnKeeps

LEMMA OutcomeKeeps ==
  ASSUME ToolConstants, ToolsInv, NEW p \in DOMAIN servers, ~servers[p].closing, NEW n \in Nat,
         NEW k \in Replies(p), k <= n, HeardOutcome(p, n), TheRestStays
  PROVE  ToolsInv'
<1>1. /\ TurnFits /\ ListedWasOffered /\ turn \in Turns /\ sessions \in [Brokers -> Session]
  BY DEF ToolsInv, ToolShapes
<1>2. Quietened(servers')
  BY AnsweredIsQuiet DEF HeardOutcome
<1>3. /\ turn' \in Turns /\ turn'.at = "deciding" /\ turn'.method = "list" /\ turn'.reached = 0
      /\ turn'.got = {} /\ turn'.granted = turn.granted /\ turn'.catalogue = turn.catalogue
  BY <1>1, ConcludedShape DEF HeardOutcome
<1>4. held' \in Broker /\ held'.of = held.of /\ held'.list \in {held.list, Unlisted}
      /\ UNCHANGED sessions
  BY DEF HeardOutcome, Told
<1>5. GoesOn
  BY <1>1, <1>2, <1>3, <1>4 DEF GoesOn, TheRestStays
<1>6. TurnFits' /\ CallsCounted'
  BY <1>1, <1>3 DEF TurnFits, CallsCounted, Busy
<1>7. ListedWasOffered'
  BY <1>1, <1>3, <1>4 DEF ListedWasOffered, TheRestStays, Unlisted
<1> QED
  BY <1>5, <1>6, <1>7, GoingOnKeeps

\* How a turn goes on that a page was read for.
LEMMA PageGoesOn ==
  ASSUME ToolConstants, turn \in Turns, turn.side \in Brokers, TurnFits, turn.at = "waiting",
         turn.method = "list", turn.reached = 0, NEW answer \in Lines
  PROVE  /\ Page(answer) \in Turns
         /\ Page(answer).catalogue \subseteq Page(answer).granted
         /\ Page(answer).reached = 0
         /\ \/ /\ Page(answer).at = "deciding" /\ Page(answer).method = "list"
               /\ Page(answer).got = {}
            \/ /\ Page(answer).at = "asking" /\ Page(answer).side = turn.side
               /\ Page(answer).tool = turn.tool /\ Page(answer).seen = turn.seen
               /\ Page(answer).catalogue = turn.catalogue
               /\ \/ /\ Page(answer).method = "list"
                     /\ Page(answer).got = turn.got \cup answer.tools
                  \/ /\ Page(answer).method = "call" /\ turn.side = "held"
                     /\ turn.tool \in turn.got \cup answer.tools
<1> DEFINE got == turn.got \cup answer.tools
           ended == ~answer.more \/ turn.page + 1 = MaxPages
<1>1. /\ got \in SUBSET Tools /\ turn.page + 1 \in Nat /\ turn.catalogue \subseteq turn.granted
      /\ turn.granted \in SUBSET Tools /\ 0 \in 0 .. MaxAttempts - 1
  BY DEF Turns, Lines, TurnFits, ToolConstants
<1>2. CASE ~ended
  <2>1. Page(answer) = [turn EXCEPT !.at = "asking", !.page = turn.page + 1, !.got = got]
    BY <1>2 DEF Page
  <2> HIDE DEF got
  <2>2. Page(answer) \in Turns
    <3>1. PICK page \in Nat, all \in SUBSET Tools : page = turn.page + 1 /\ all = got
      BY <1>1
    <3>2. Page(answer) = [turn EXCEPT !.at = "asking", !.page = page, !.got = all]
      BY <2>1, <3>1
    <3>3. [turn EXCEPT !.at = "asking", !.page = page, !.got = all] \in Turns
      BY DEF Turns, Busy
    <3> QED
      BY <3>2, <3>3
  <2>3. /\ Page(answer).at = "asking" /\ Page(answer).side = turn.side
        /\ Page(answer).tool = turn.tool /\ Page(answer).seen = turn.seen
        /\ Page(answer).catalogue = turn.catalogue /\ Page(answer).granted = turn.granted
        /\ Page(answer).reached = turn.reached /\ Page(answer).method = turn.method
        /\ Page(answer).got = got
    BY <2>1 DEF Turns
  <2> QED
    BY <1>1, <2>2, <2>3 DEF got
<1>3. CASE ended /\ turn.side = "own"
  <2>1. Page(answer) = [Concluded(turn) EXCEPT !.catalogue = CatalogFor(turn.granted, got)]
    BY <1>3 DEF Page
  <2>2. PICK t : t = Concluded(turn)
    OBVIOUS
  <2>3. /\ t \in Turns /\ t.at = "deciding" /\ t.method = "list"
        /\ t.reached = 0 /\ t.got = {} /\ t.granted = turn.granted
    BY <2>2, ConcludedShape
  <2>4. PICK described : described = CatalogFor(turn.granted, got)
    OBVIOUS
  <2>5. described \in SUBSET Tools /\ described \subseteq turn.granted
    BY <1>1, <2>4 DEF CatalogFor
  <2>6. Page(answer) = [t EXCEPT !.catalogue = described]
    BY <2>1, <2>2, <2>4
  <2>7. Page(answer) \in Turns
    BY <2>3, <2>5, <2>6 DEF Turns
  <2>8. /\ Page(answer).at = "deciding" /\ Page(answer).method = "list" /\ Page(answer).got = {}
        /\ Page(answer).reached = 0 /\ Page(answer).catalogue = described
        /\ Page(answer).granted = turn.granted
    BY <2>3, <2>6 DEF Turns
  <2> QED
    BY <2>5, <2>7, <2>8
<1>4. CASE ended /\ turn.side # "own"
  <2>1. Page(answer) = Knowing(turn, got) /\ turn.side = "held"
    BY <1>4 DEF Page, Brokers
  <2> HIDE DEF got
  <2>2. CASE turn.tool \in got
    <3>1. Page(answer) = [turn EXCEPT !.at = "asking", !.method = "call", !.attempt = 0,
                                      !.page = 0, !.got = {}]
      BY <2>1, <2>2 DEF Knowing
    <3>2. Page(answer) \in Turns
      BY <1>1, <3>1 DEF Turns, Busy
    <3>3. /\ Page(answer).at = "asking" /\ Page(answer).side = turn.side
          /\ Page(answer).tool = turn.tool /\ Page(answer).seen = turn.seen
          /\ Page(answer).catalogue = turn.catalogue /\ Page(answer).granted = turn.granted
          /\ Page(answer).reached = turn.reached /\ Page(answer).method = "call"
      BY <3>1 DEF Turns
    <3> QED
      BY <1>1, <2>1, <2>2, <3>2, <3>3 DEF got
  <2>3. CASE turn.tool \notin got
    <3>1. Page(answer) = Concluded(turn)
      BY <2>1, <2>3 DEF Knowing
    <3> QED
      BY <1>1, <3>1, ConcludedShape
  <2> QED
    BY <2>2, <2>3
<1> QED
  BY <1>2, <1>3, <1>4

LEMMA PageKeeps ==
  ASSUME ToolConstants, ToolsInv, NEW p \in DOMAIN servers, ~servers[p].closing, NEW n \in Nat,
         NEW k \in Replies(p), k <= n, servers[p].pipe[k].kind = "page",
         HeardPage(p, n, servers[p].pipe[k]), TheRestStays
  PROVE  /\ ToolsInv'
         /\ turn'.at = "asking" /\ turn'.method = "call" =>
              offeredAt[held.of.config][turn.tool] = clock
<1>1. /\ SessionsFit /\ TurnFits /\ CallsCounted /\ ListedWasOffered /\ held \in Broker
      /\ clock \in Nat
  BY DEF ToolsInv, ToolShapes
<1>2. PICK answer : answer = servers[p].pipe[k]
  OBVIOUS
<1>3. /\ turn \in Turns /\ turn.side \in Brokers /\ turn.at = "waiting" /\ turn.method = "list"
      /\ turn.reached = 0 /\ sessions[turn.side].child = p /\ p # 0
      /\ sessions \in [Brokers -> Session] /\ answer \in Lines
      /\ \A t \in answer.tools : offeredAt[servers[p].config][t] = clock
  BY <1>1, <1>2, AnsweredFits DEF Replied, CallsCounted
<1>4. Quietened(servers') /\ turn' = Page(answer) /\ UNCHANGED sessions
      /\ UNCHANGED <<clock, connector, offers, offeredAt, used>>
  BY <1>2, AnsweredIsQuiet DEF HeardPage, TheRestStays
<1>5. turn.side = "held" =>
        /\ held.of = turn.seen /\ held.of.enabled /\ servers[p].config = held.of.config
        /\ held.of \in Connectors
  BY <1>1, <1>3 DEF TurnFits, SessionsFit, Broker, Unconnected
<1>6. turn.got \cup answer.tools \in SUBSET Tools
  BY <1>3 DEF Turns, Lines
<1>7. turn.side = "held" =>
        \A t \in turn.got \cup answer.tools : offeredAt[held.of.config][t] = clock
  BY <1>1, <1>3, <1>5 DEF ListedWasOffered
<1>8. /\ turn' \in Turns /\ turn'.catalogue \subseteq turn'.granted /\ turn'.reached = 0
      /\ \/ /\ turn'.at = "deciding" /\ turn'.method = "list" /\ turn'.got = {}
         \/ /\ turn'.at = "asking" /\ turn'.side = turn.side
            /\ turn'.tool = turn.tool /\ turn'.seen = turn.seen
            /\ turn'.catalogue = turn.catalogue
            /\ \/ /\ turn'.method = "list"
                  /\ turn'.got = turn.got \cup answer.tools
               \/ /\ turn'.method = "call" /\ turn.side = "held"
                  /\ turn.tool \in turn.got \cup answer.tools
  BY <1>1, <1>3, <1>4, PageGoesOn
<1>9. /\ held' \in Broker /\ held'.of = held.of
      /\ \/ held'.list \in {held.list, Unlisted}
         \/ /\ turn.side = "held"
            /\ held'.list = [known |-> TRUE, at |-> clock, tools |-> turn.got \cup answer.tools]
  <2>1. PICK h : /\ Told(h)
                 /\ held' = IF Complete(answer)
                              THEN [h EXCEPT !.list = [known |-> TRUE, at |-> clock,
                                                       tools |-> turn.got \cup answer.tools]]
                              ELSE h
    BY <1>2 DEF HeardPage
  <2>2. PICK list : list = [known |-> TRUE, at |-> clock, tools |-> turn.got \cup answer.tools]
    OBVIOUS
  <2>3. list \in Listing
    BY <1>1, <1>6, <2>2 DEF Listing
  <2>4. h \in Broker /\ h.of = held.of /\ h.list \in {held.list, Unlisted}
    BY <2>1 DEF Told
  <2>5. CASE Complete(answer)
    <3>1. held' = [h EXCEPT !.list = list] /\ turn.side = "held"
      BY <2>1, <2>2, <2>5 DEF Complete
    <3>2. held' \in Broker /\ held'.of = h.of /\ held'.list = list
      BY <2>3, <2>4, <3>1 DEF Broker
    <3> QED
      BY <2>2, <2>4, <3>1, <3>2
  <2>6. CASE ~Complete(answer)
    BY <2>1, <2>4, <2>6
  <2> QED
    BY <2>5, <2>6
<1>10. GoesOn
  BY <1>3, <1>4, <1>8, <1>9 DEF GoesOn
<1>11. TurnFits'
  BY <1>1, <1>3, <1>8, <1>9 DEF TurnFits, Busy
<1>12. CallsCounted'
  <2>1. turn'.attempt \in Nat
    BY <1>8 DEF Turns
  <2> QED
    BY <1>3, <1>8, <2>1 DEF CallsCounted
<1>13. ListedWasOffered'
  <2>1. \A c \in Configs : \A t \in offers'[c] : offeredAt'[c][t] = clock'
    BY <1>1, <1>4 DEF ListedWasOffered
  <2>2. held'.list.known =>
       /\ held'.of \in Connectors /\ held'.list.at <= clock'
       /\ \A t \in held'.list.tools : offeredAt'[held'.of.config][t] >= held'.list.at
    <3>1. CASE held'.list \in {held.list, Unlisted}
      BY <1>1, <1>4, <1>9, <3>1 DEF ListedWasOffered, Unlisted
    <3>2. CASE turn.side = "held" /\ held'.list = [known |-> TRUE, at |-> clock,
                                                    tools |-> turn.got \cup answer.tools]
      <4>1. held'.list.at = clock /\ held'.list.tools = turn.got \cup answer.tools
        BY <3>2
      <4> QED
        BY <1>1, <1>4, <1>5, <1>7, <1>9, <3>2, <4>1
    <3> QED
      BY <1>9, <3>1, <3>2
  <2>3. turn'.at \in {"asking", "waiting"} /\ turn'.method = "list" /\ turn'.side = "held" =>
          \A t \in turn'.got : offeredAt'[held'.of.config][t] = clock'
    BY <1>4, <1>7, <1>8, <1>9
  <2> QED
    BY <2>1, <2>2, <2>3 DEF ListedWasOffered
<1>14. turn'.at = "asking" /\ turn'.method = "call" =>
         offeredAt[held.of.config][turn.tool] = clock
  BY <1>7, <1>8
<1> QED
  BY <1>10, <1>11, <1>12, <1>13, <1>14, GoingOnKeeps

\* A session that failed begins no call: it is made again, or not.
LEMMA FailGoesOn ==
  ASSUME ToolConstants, ToolsInv, NEW ss, Fail(ss)
  PROVE  turn'.at = "asking" => turn'.method = turn.method
<1>1. turn \in Turns
  BY DEF ToolsInv, ToolShapes
<1>2. /\ Concluded(turn) \in Turns /\ Concluded(turn).at = "deciding"
  BY <1>1, ConcludedShape
<1>3. turn' = CASE turn.side = "own" -> [Concluded(turn) EXCEPT !.catalogue = {}]
                [] Retries(turn) -> [turn EXCEPT !.at = "asking", !.attempt = @ + 1]
                [] OTHER -> Concluded(turn)
  BY DEF Fail
<1>4. PICK t : t = Concluded(turn)
  OBVIOUS
<1>5. PICK again : again = [turn EXCEPT !.at = "asking", !.attempt = turn.attempt + 1]
  OBVIOUS
<1>6. again.method = turn.method
  BY <1>1, <1>5 DEF Turns
<1>7. [t EXCEPT !.catalogue = {}].at = "deciding"
  BY <1>2, <1>4 DEF Turns
<1>8. turn' = [t EXCEPT !.catalogue = {}] \/ turn' = again \/ turn' = t
  <2>1. CASE turn.side = "own" /\ ~Retries(turn)
    BY <1>3, <1>4, <2>1
  <2>2. CASE turn.side # "own" /\ Retries(turn)
    BY <1>3, <1>5, <2>2
  <2>3. CASE turn.side # "own" /\ ~Retries(turn)
    BY <1>3, <1>4, <2>3
  <2>4. CASE turn.side = "own" /\ Retries(turn)
    BY <1>3, <1>4, <1>5, <2>4
  <2> QED
    BY <2>1, <2>2, <2>3, <2>4
<1> QED
  BY <1>2, <1>4, <1>6, <1>7, <1>8

LEMMA HearKeeps ==
  ASSUME ToolConstants, ToolsInv, NEW p \in DOMAIN servers, NEW n \in 1 .. 2, Hear(p, n)
  PROVE  /\ ToolsInv'
         /\ turn.method = "list" /\ turn'.at = "asking" /\ turn'.method = "call" =>
              offeredAt[held.of.config][turn.tool] = clock
<1>1. /\ TheRestStays /\ ~servers[p].closing /\ n \in Nat
      /\ \/ HeardNotices(p, n)
         \/ \E k \in Replies(p) :
              /\ k <= n
              /\ \/ servers[p].pipe[k].kind = "refused" /\ HeardRefusal(p, n)
                 \/ servers[p].pipe[k].kind = "agreed" /\ HeardAgreement(p, n)
                 \/ servers[p].pipe[k].kind = "page" /\ HeardPage(p, n, servers[p].pipe[k])
                 \/ servers[p].pipe[k].kind = "done" /\ HeardOutcome(p, n)
  BY WhatIsHeard
<1>2. turn \in Turns
  BY DEF ToolsInv, ToolShapes
<1>3. CASE HeardNotices(p, n)
  BY <1>1, <1>3, NoticesKeep DEF HeardNotices
<1>4. ASSUME NEW k \in Replies(p), k <= n, servers[p].pipe[k].kind = "refused" /\ HeardRefusal(p, n)
      PROVE  ToolsInv' /\ (turn'.at = "asking" => turn'.method = turn.method)
  <2>1. ToolsInv'
    BY <1>1, <1>4, RefusalKeeps
  <2>2. \E ss : Fail(ss)
    BY <1>4 DEF HeardRefusal
  <2> QED
    BY <1>2, <2>1, <2>2, FailGoesOn
<1>5. ASSUME NEW k \in Replies(p), k <= n, servers[p].pipe[k].kind = "agreed" /\ HeardAgreement(p, n)
      PROVE  ToolsInv' /\ turn'.method = turn.method
  <2>1. ToolsInv'
    BY <1>1, <1>5, AgreementKeeps
  <2>2. turn' = [turn EXCEPT !.at = "asking"]
    BY <1>5 DEF HeardAgreement
  <2> QED
    BY <1>2, <2>1, <2>2 DEF Turns
<1>6. ASSUME NEW k \in Replies(p), k <= n,
             servers[p].pipe[k].kind = "page" /\ HeardPage(p, n, servers[p].pipe[k])
      PROVE  /\ ToolsInv'
             /\ turn'.at = "asking" /\ turn'.method = "call" =>
                  offeredAt[held.of.config][turn.tool] = clock
  BY <1>1, <1>6, PageKeeps
<1>7. ASSUME NEW k \in Replies(p), k <= n, servers[p].pipe[k].kind = "done" /\ HeardOutcome(p, n)
      PROVE  ToolsInv' /\ turn'.at = "deciding"
  <2>1. ToolsInv'
    BY <1>1, <1>7, OutcomeKeeps
  <2>2. turn' = Concluded(turn)
    BY <1>7 DEF HeardOutcome
  <2> QED
    BY <1>2, <2>1, <2>2, ConcludedShape
<1> QED
  BY <1>1, <1>3, <1>4, <1>5, <1>6, <1>7

-------------------------------------------------------------------------------
(* What is called was offered.                                               *)

\* A call begun from a list that is kept is of a tool listed within the time lists are.
LEMMA ConsultCalls ==
  ASSUME ToolConstants, ToolsInv, Consult, turn'.at = "asking", turn'.method = "call"
  PROVE  clock - offeredAt[held.of.config][turn.tool] < TTL
<1>1. /\ ToolShapes /\ ListedWasOffered /\ turn \in Turns /\ turn.method = "list"
      /\ turn.at = "consulting"
  BY DEF ToolsInv, ToolShapes, Consult, TurnFits
<1>2. CASE held.of.enabled /\ FreshList(held.list) /\ turn.tool \in held.list.tools
  <2>1. held.list.known /\ clock - held.list.at < TTL
    BY <1>2 DEF FreshList
  <2>2. /\ held.of \in Connectors /\ held.list.at \in Nat /\ held.list.tools \subseteq Tools
        /\ offeredAt[held.of.config][turn.tool] >= held.list.at
    BY <1>1, <1>2, <2>1 DEF ListedWasOffered, ToolShapes, Broker, Listing
  <2>3. held.of.config \in Configs /\ turn.tool \in Tools
    BY <1>2, <2>2 DEF Connectors
  <2>4. offeredAt[held.of.config][turn.tool] \in Nat /\ clock \in Nat /\ TTL \in Nat
    BY <1>1, <2>3 DEF ToolShapes, ToolConstants
  <2> QED
    BY <2>1, <2>2, <2>4
<1>3. CASE held.of.enabled /\ FreshList(held.list) /\ turn.tool \notin held.list.tools
  <2>1. turn' = Concluded(turn)
    BY <1>3 DEF Consult, Knowing
  <2> QED
    BY <1>1, <2>1, ConcludedShape
<1>4. CASE ~held.of.enabled
  <2>1. turn' = Concluded(turn)
    BY <1>4 DEF Consult
  <2> QED
    BY <1>1, <2>1, ConcludedShape
<1>5. CASE held.of.enabled /\ ~FreshList(held.list)
  <2>1. turn' = [turn EXCEPT !.at = "asking"]
    BY <1>5 DEF Consult
  <2> QED
    BY <1>1, <2>1 DEF Turns
<1> QED
  BY <1>2, <1>3, <1>4, <1>5

\* Every other step makes no call of what was a listing.
CallsNothingNew == turn'.at = "asking" /\ turn'.method = "call" => turn.method = "call"

\* A request, an exit and an answer begin no call that was not begun already.
LEMMA AskCallsNothingNew ==
  ASSUME ToolConstants, ToolsInv, Ask
  PROVE  CallsNothingNew
<1>1. turn \in Turns
  BY DEF ToolsInv, ToolShapes
<1>2. Fail(servers) \/ turn' = [turn EXCEPT !.at = "waiting"]
  BY DEF Ask
<1> QED
  BY <1>1, <1>2, FailGoesOn DEF CallsNothingNew, Turns

LEMMA ExitsCallsNothingNew ==
  ASSUME ToolConstants, ToolsInv, NEW p \in DOMAIN servers, Exits(p)
  PROVE  CallsNothingNew
<1>1. turn \in Turns
  BY DEF ToolsInv, ToolShapes
<1>2. \/ \E ss : Fail(ss)
      \/ turn' = turn
      \/ turn' = [turn EXCEPT !.at = "consulting", !.going = 0]
  BY DEF Exits
<1>3. CASE \E ss : Fail(ss)
  BY <1>3, FailGoesOn DEF CallsNothingNew
<1> QED
  BY <1>1, <1>2, <1>3 DEF CallsNothingNew, Turns

LEMMA ServeCallsNothingNew ==
  ASSUME ToolsInv, NEW p \in DOMAIN servers, Serve(p)
  PROVE  CallsNothingNew
<1>1. turn \in Turns
  BY DEF ToolsInv, ToolShapes
<1>2. PICK r : turn' = [turn EXCEPT !.reached = r]
  BY DEF Serve
<1> QED
  BY <1>1, <1>2 DEF CallsNothingNew, Turns

LEMMA OfficeSaysCallsNothingNew ==
  ASSUME ToolsInv, NEW now, OfficeSays(now)
  PROVE  CallsNothingNew
<1>1. turn \in Turns
  BY DEF ToolsInv, ToolShapes
<1>2. \E at, going : turn' = [turn EXCEPT !.at = at, !.going = going, !.seen = now]
  <2>1. CASE turn' = [turn EXCEPT !.at = "consulting", !.seen = now]
    <3>1. turn' = [turn EXCEPT !.at = "consulting", !.going = turn.going, !.seen = now]
      BY <1>1, <2>1 DEF Turns
    <3> QED
      BY <3>1
  <2> QED
    BY <2>1 DEF OfficeSays
<1>3. turn'.method = turn.method
  BY <1>1, <1>2 DEF Turns
<1> QED
  BY <1>3 DEF CallsNothingNew

\* Every step keeps the invariant, and calls only what was offered of late.
LEMMA NextKeepsTools ==
  ASSUME ToolConstants, ToolsInv, [ToolsNext]_toolVars
  PROVE  ToolsInv' /\ CallsWhatWasOffered
<1>1. SUFFICES ToolsInv' /\ (turn.method = "list" /\ turn'.at = "asking" /\ turn'.method = "call"
                               => clock - offeredAt[held.of.config][turn.tool] < TTL)
  BY DEF CallsWhatWasOffered
<1>2. turn \in Turns /\ clock \in Nat /\ TTL \in Nat \ {0} /\ MaxAttempts \in Nat \ {0}
  BY DEF ToolsInv, ToolShapes, ToolConstants
<1>3. ASSUME NEW now \in {connector, Unconnected}, OfficeSays(now)
      PROVE  ToolsInv' /\ CallsNothingNew
  BY <1>3, OfficeSaysKeeps, OfficeSaysCallsNothingNew
<1>4. CASE Consult
  BY <1>4, ConsultKeeps, ConsultCalls
<1>5. CASE Ask
  BY <1>5, AskKeeps, AskCallsNothingNew DEF CallsNothingNew
<1>6. ASSUME NEW p \in DOMAIN servers, Serve(p)
      PROVE  ToolsInv' /\ CallsNothingNew
  BY <1>6, ServeKeeps, ServeCallsNothingNew
<1>7. ASSUME NEW p \in DOMAIN servers, NEW n \in 1 .. 2, Hear(p, n)
      PROVE  ToolsInv' /\ (turn.method = "list" /\ turn'.at = "asking" /\ turn'.method = "call"
                             => clock - offeredAt[held.of.config][turn.tool] < TTL)
  <2>1. /\ ToolsInv'
        /\ turn.method = "list" /\ turn'.at = "asking" /\ turn'.method = "call" =>
             offeredAt[held.of.config][turn.tool] = clock
    BY <1>7, HearKeeps
  <2> QED
    BY <1>2, <2>1
<1>8. ASSUME NEW p \in DOMAIN servers, Exits(p)
      PROVE  ToolsInv' /\ CallsNothingNew
  BY <1>8, ExitsKeeps, ExitsCallsNothingNew
<1>9. ASSUME NEW granted \in Grants, BeginTurn(granted)
      PROVE  ToolsInv' /\ CallsNothingNew
  <2>1. turn'.method = "list"
    <3>1. \E at : turn' = [NoTurn EXCEPT !.at = at, !.side = "own", !.seen = connector,
                                         !.granted = granted]
      BY <1>9 DEF BeginTurn
    <3>2. NoTurn.method = "list"
      BY DEF NoTurn
    <3> QED
      BY <3>1 DEF NoTurn
  <2> QED
    BY <1>9, <2>1, BeginTurnKeeps DEF CallsNothingNew
<1>10. ASSUME NEW tool \in Tools, CallTool(tool)
       PROVE  ToolsInv' /\ CallsNothingNew
  <2>1. turn'.method = "list"
    BY <1>2, <1>10 DEF CallTool, Turns
  <2> QED
    BY <1>10, <2>1, CallToolKeeps DEF CallsNothingNew
<1>11. CASE EndTurn
  BY <1>11, EndTurnKeeps DEF EndTurn, NoTurn
<1>12. ASSUME NEW c \in Configs, NEW tools \in SUBSET Tools, ServerOffers(c, tools)
       PROVE  ToolsInv' /\ CallsNothingNew
  BY <1>12, ServerOffersKeeps DEF ServerOffers, CallsNothingNew
<1>13. CASE TimesOut
  <2>1. \E ss : Fail(ss)
    BY <1>13 DEF TimesOut
  <2> QED
    BY <1>13, <2>1, TimesOutKeeps, FailGoesOn
<1>14. ASSUME NEW c \in Connectors, OfficeEdits(c)
       PROVE  ToolsInv' /\ CallsNothingNew
  BY <1>14, OfficeEditsKeeps DEF OfficeEdits, CallsNothingNew
<1>15. CASE TimePasses
  BY <1>15, TimePassesKeeps DEF TimePasses
<1>16. CASE UNCHANGED toolVars
  <2>1. ToolsInv'
    BY <1>16 DEF toolVars, ToolsInv, ToolShapes, SessionsFit, IntroducedFirst, AskedOnce, Requested,
                 Replied, Replies, Awaited, NoneLeftBehind, TurnFits, CallsCounted, ListedWasOffered
  <2> QED
    BY <2>1, <1>16 DEF toolVars
<1> QED
  BY <1>3, <1>4, <1>5, <1>6, <1>7, <1>8, <1>9, <1>10, <1>11, <1>12, <1>13, <1>14, <1>15, <1>16
  DEF ToolsNext, Goes, CallsNothingNew

\* The invariant holds throughout, whatever the connectors, grants and bounds, and every
\* call begun is of a tool its server offered within the time a list is kept.
THEOREM ToolsInvariance ==
  ASSUME ToolConstants
  PROVE  ToolsSpec => [](ToolsInv /\ ToolConstants) /\ [][CallsWhatWasOffered]_toolVars
<1>1. ToolsInit => ToolsInv
  BY ToolsBegin
<1>2. ToolsInv /\ [ToolsNext]_toolVars => ToolsInv' /\ [CallsWhatWasOffered]_toolVars
  BY NextKeepsTools
<1> QED
  BY <1>1, <1>2, PTL DEF ToolsSpec

\* The tools of a turn keep their types.
THEOREM ToolsTypeCorrect ==
  ASSUME ToolConstants
  PROVE  ToolsSpec => []ToolsTypeOK
<1>1. ToolsInv /\ ToolConstants => ToolsTypeOK
  <2> SUFFICES ASSUME ToolsInv, ToolConstants
               PROVE  ToolsTypeOK
    OBVIOUS
  <2>1. /\ clock \in 1 .. MaxTime /\ connector \in Connectors
        /\ offers \in [Configs -> SUBSET Tools] /\ servers \in Seq(Started) /\ turn \in Turns
        /\ sessions \in [Brokers -> Session] /\ Len(servers) \in Nat
        /\ \A b \in Brokers : sessions[b].child <= Len(servers)
    BY DEF ToolsInv, ToolShapes
  <2>2. \A p \in DOMAIN servers :
          /\ servers[p].by \in {"own", "held"} /\ servers[p].config \in Configs
          /\ servers[p].asked \in {"nothing", "initialize", "list", "call"}
    <3> TAKE p \in DOMAIN servers
    <3>1. servers[p] \in Started
      BY <2>1
    <3> QED
      BY <3>1 DEF Started, Brokers
  <2>3. \A b \in {"own", "held"} : sessions[b].child \in 0 .. Len(servers)
    <3> TAKE b \in {"own", "held"}
    <3>1. sessions[b] \in Session /\ sessions[b].child <= Len(servers)
      BY <2>1 DEF Brokers
    <3> QED
      BY <2>1, <3>1 DEF Session
  <2>4. /\ turn.at \in {"idle", "deciding"} \cup Busy
        /\ turn.catalogue \subseteq Tools /\ turn.attempt \in 0 .. MaxAttempts - 1
    BY <2>1 DEF Turns
  <2> QED
    BY <2>1, <2>2, <2>3, <2>4 DEF ToolsTypeOK
<1> QED
  BY <1>1, ToolsInvariance, PTL

\* No server is asked for its tools or for a call before it was introduced.
THEOREM AskedOnceIntroduced ==
  ASSUME ToolConstants
  PROVE  ToolsSpec => []IntroducedFirst
<1>1. ToolsInv => IntroducedFirst
  BY DEF ToolsInv
<1> QED
  BY <1>1, ToolsInvariance, PTL

\* A call goes to the connector as the office had it when it was asked, and is granted.
THEOREM CallsAsTheOfficeSaid ==
  ASSUME ToolConstants
  PROVE  ToolsSpec => []AsTheOfficeStands
<1>1. ToolsInv => AsTheOfficeStands
  <2> SUFFICES ASSUME ToolsInv, Calling
               PROVE  /\ turn.seen.enabled
                      /\ servers[sessions["held"].child].config = turn.seen.config
                      /\ turn.tool \in turn.granted
    BY DEF AsTheOfficeStands
  <2>1. /\ turn.at = "waiting" /\ turn.method = "call" /\ sessions["held"].child # 0
        /\ TurnFits /\ CallsCounted /\ SessionsFit
    BY DEF Calling, ToolsInv
  <2>2. turn.side = "held"
    BY <2>1 DEF CallsCounted
  <2> QED
    BY <2>1, <2>2 DEF TurnFits, SessionsFit, Busy
<1> QED
  BY <1>1, ToolsInvariance, PTL

\* A call reaches its server as often as it may be attempted, and no more.
THEOREM CallsReachAtMostTwice ==
  ASSUME ToolConstants
  PROVE  ToolsSpec => []ReachedTwice
<1>1. ToolsInv /\ ToolConstants => ReachedTwice
  <2> SUFFICES ASSUME ToolsInv, ToolConstants
               PROVE  turn.reached <= MaxAttempts
    BY DEF ReachedTwice
  <2>1. turn \in Turns /\ CallsCounted /\ MaxAttempts \in Nat \ {0}
    BY DEF ToolsInv, ToolShapes, ToolConstants
  <2>2. /\ turn.method \in {"list", "call"} /\ turn.attempt \in 0 .. MaxAttempts - 1
        /\ turn.reached \in Nat
    BY <2>1 DEF Turns
  <2>3. turn.reached = 0 \/ turn.reached <= turn.attempt + 1
    BY <2>1, <2>2 DEF CallsCounted
  <2> QED
    BY <2>1, <2>2, <2>3
<1> QED
  BY <1>1, ToolsInvariance, PTL

\* Of the servers started for calls over a pipe, those that were not told to go are
\* the one of the session held: none is left running behind.
THEOREM NoServerIsLeft ==
  ASSUME ToolConstants
  PROVE  ToolsSpec => []NoneLeftBehind
<1>1. ToolsInv => NoneLeftBehind
  BY DEF ToolsInv
<1> QED
  BY <1>1, ToolsInvariance, PTL

\* All of it, as the runs check it.
THEOREM ToolsAreSound ==
  ASSUME ToolConstants
  PROVE  ToolsSpec => ToolsHold
<1>1. ToolsSpec => [][CallsWhatWasOffered]_toolVars
  BY ToolsInvariance
<1> QED
  BY <1>1, ToolsTypeCorrect, AskedOnceIntroduced, CallsAsTheOfficeSaid, CallsReachAtMostTwice,
     NoServerIsLeft, PTL DEF ToolsHold

-------------------------------------------------------------------------------
(* Calls to a model: the invariant.                                          *)

Came == {"skipped", "fallback", "success"}

BreakerEntry == [failures : Seq(Nat), openedAt : Nat, trials : Nat]

Route == [stage : {"idle", "calling", "sleeping"} \cup Over, kind : {"complete", "stream"},
          chain : Seq(Providers), candidate : Nat, attempt : Nat, yielded : BOOLEAN,
          trial : BOOLEAN]

CallShapes ==
  /\ time \in 1 .. MaxInstant
  /\ breaker \in [Providers -> BreakerEntry]
  /\ routes \in [Calls -> Route]
  /\ failed \in [Providers -> Seq(Nat)]
  /\ streamed \in [Calls -> SUBSET (Nat \X Nat)]
  /\ tried \in [Calls -> Seq(Came)]

\* What an entry remembers, at instant t: it is tried only once it has cooled down.
EntryFits(e, t) ==
  /\ Len(e.failures) < Threshold
  /\ \A i \in 1 .. Len(e.failures) : e.failures[i] \in 1 .. t
  /\ e.openedAt <= t /\ e.trials <= TrialCalls
  /\ e.trials > 0 => e.openedAt # Never /\ t - e.openedAt >= Cooldown

\* While it is closed, it remembers the last of what failed since the last answer.
EntryRecalls(e, f) ==
  /\ Len(f) <= Threshold
  /\ e.openedAt = Never =>
       /\ Len(e.failures) <= Len(f)
       /\ \A i \in 1 .. Len(e.failures) : e.failures[i] = f[Len(f) - Len(e.failures) + i]

\* A call knows where it has got to, and what reached whoever asked.
RouteFits(r, given, came) ==
  /\ r.candidate <= Len(r.chain) /\ r.attempt <= MaxTries
  /\ r.stage \in {"calling", "sleeping"} =>
       /\ r.candidate >= 1 /\ Len(came) = r.candidate - 1
       /\ \A i \in 1 .. Len(came) : came[i] # "success"
       /\ r.yielded \/ given = {}
  /\ r.stage = "sleeping" => r.attempt + 1 <= MaxTries /\ ~r.yielded
  /\ given = {} \/ \E x : given = {x}
  /\ r.stage = "exhausted" =>
       Len(came) = Len(r.chain) /\ \A i \in 1 .. Len(came) : came[i] # "success"
  /\ r.stage = "answered" => Len(came) = r.candidate

\* Whose trials are counted are being tried, but for those whose trial was lost.
TrialsGoOn ==
  \A p \in Providers \ leaked :
    breaker[p].trials > 0 => \E c \in Calls : InFlight(c) /\ routes[c].trial /\ ProviderOf(c) = p

CallsInv ==
  /\ CallShapes
  /\ \A p \in Providers : EntryFits(breaker[p], time) /\ EntryRecalls(breaker[p], failed[p])
  /\ \A c \in Calls : RouteFits(routes[c], streamed[c], tried[c])
  /\ TrialsGoOn

-------------------------------------------------------------------------------
(* Entries of the breaker.                                                   *)

\* The history of failures, one later.
Later(f) == Append(IF Len(f) = Threshold THEN Tail(f) ELSE f, time)

\* No more than Threshold failures are kept, the latest last.
LEMMA LaterFacts ==
  ASSUME CallConstants, time \in Nat, NEW f \in Seq(Nat), Len(f) <= Threshold
  PROVE  /\ Later(f) \in Seq(Nat)
         /\ Len(Later(f)) = IF Len(f) = Threshold THEN Threshold ELSE Len(f) + 1
         /\ Later(f)[Len(Later(f))] = time
         /\ \A i \in 1 .. Len(Later(f)) - 1 : Later(f)[i] = f[Len(f) - Len(Later(f)) + 1 + i]
<1>1. PICK l \in Nat : l = Len(f)
  OBVIOUS
<1>2. Threshold \in Nat \ {0}
  BY DEF CallConstants
<1>3. CASE l = Threshold
  <2>1. f # << >>
    BY <1>1, <1>2, <1>3, EmptySeq
  <2>2. /\ Tail(f) \in Seq(Nat) /\ Len(Tail(f)) = l - 1
        /\ \A i \in 1 .. l - 1 : Tail(f)[i] = f[i + 1]
    BY <1>1, <2>1, HeadTailProperties
  <2>3. Later(f) = Append(Tail(f), time)
    BY <1>1, <1>3 DEF Later
  <2>4. /\ Later(f) \in Seq(Nat) /\ Len(Later(f)) = l
        /\ Later(f)[l] = time
        /\ \A i \in 1 .. l - 1 : Later(f)[i] = Tail(f)[i]
    BY <1>2, <1>3, <2>2, <2>3
  <2> QED
    BY <1>1, <1>2, <1>3, <2>2, <2>4
<1>4. CASE l # Threshold
  <2>1. Later(f) = Append(f, time)
    BY <1>1, <1>4 DEF Later
  <2>2. /\ Later(f) \in Seq(Nat) /\ Len(Later(f)) = l + 1
        /\ Later(f)[l + 1] = time
        /\ \A i \in 1 .. l : Later(f)[i] = f[i]
    BY <1>1, <2>1
  <2> QED
    BY <1>1, <1>4, <2>2
<1> QED
  BY <1>3, <1>4

\* What is recent is the last of what failed, and all of it unless some is too old.
LEMMA RecentFacts ==
  ASSUME CallConstants, time \in Nat, NEW s \in Seq(Nat)
  PROVE  \E k \in 0 .. Len(s) :
           /\ Recent(s) \in Seq(Nat) /\ Len(Recent(s)) = k
           /\ \A i \in 1 .. k : Recent(s)[i] = s[Len(s) - k + i]
           /\ k = Len(s) => \A i \in 1 .. k : time - s[i] < Window
<1>1. PICK l \in Nat : l = Len(s) /\ DOMAIN s = 1 .. l /\ \A i \in 1 .. l : s[i] \in Nat
  OBVIOUS
<1>2. PICK old : old = {i \in DOMAIN s : time - s[i] >= Window}
  OBVIOUS
<1>3. IsFiniteSet(1 .. l) /\ Cardinality(1 .. l) = l
  <2>1. /\ IsFiniteSet(1 .. l)
        /\ Cardinality(1 .. l) = IF 1 > l THEN 0 ELSE l - 1 + 1
    BY FS_Interval
  <2> QED
    BY <2>1
<1>4. IsFiniteSet(old) /\ Cardinality(old) <= l
  BY <1>1, <1>2, <1>3, FS_Subset
<1>5. PICK n \in 0 .. l : n = Cardinality(old)
  BY <1>4, FS_CardinalityType
<1>6. Recent(s) = SubSeq(s, n + 1, l)
  BY <1>1, <1>2, <1>5 DEF Recent
<1>7. /\ SubSeq(s, n + 1, l) \in Seq(Nat) /\ Len(SubSeq(s, n + 1, l)) = l - n
      /\ \A i \in 1 .. l - n : SubSeq(s, n + 1, l)[i] = s[n + i]
  <2>1. \A i \in n + 1 .. l : s[i] \in Nat
    BY <1>1
  <2>2. /\ SubSeq(s, n + 1, l) \in Seq(Nat)
        /\ Len(SubSeq(s, n + 1, l)) = IF n + 1 <= l THEN l - (n + 1) + 1 ELSE 0
        /\ \A i \in 1 .. l - (n + 1) + 1 : SubSeq(s, n + 1, l)[i] = s[n + 1 + i - 1]
    BY <2>1, SubSeqProperties
  <2>3. l - (n + 1) + 1 = l - n /\ (n + 1 <= l \/ l - n = 0)
    OBVIOUS
  <2>4. Len(SubSeq(s, n + 1, l)) = l - n
    BY <2>2, <2>3
  <2>5. \A i \in 1 .. l - n : SubSeq(s, n + 1, l)[i] = s[n + 1 + i - 1]
    BY <2>2, <2>3
  <2>6. \A i \in 1 .. l - n : n + 1 + i - 1 = n + i
    OBVIOUS
  <2> QED
    BY <2>2, <2>4, <2>5, <2>6
<1>8. l - n = l => \A i \in 1 .. l : time - s[i] < Window
  <2> SUFFICES ASSUME n = 0, NEW i \in 1 .. l
               PROVE  time - s[i] < Window
    OBVIOUS
  <2>1. old = {}
    BY <1>4, <1>5, FS_EmptySet
  <2>2. ~(time - s[i] >= Window)
    BY <1>1, <1>2, <2>1
  <2> QED
    BY <1>1, <2>2 DEF CallConstants
<1>9. PICK k \in 0 .. l : k = l - n
  OBVIOUS
<1>10. PICK r : r = Recent(s)
  OBVIOUS
<1>11. r \in Seq(Nat) /\ Len(r) = k /\ \A i \in 1 .. k : r[i] = s[l - k + i]
  BY <1>6, <1>7, <1>9, <1>10
<1>12. k = l => \A i \in 1 .. k : time - s[i] < Window
  BY <1>8, <1>9
<1> QED
  BY <1>1, <1>10, <1>11, <1>12

\* A failure is remembered with those that came before it, and nobody is trying an
\* entry that has just failed.
LEMMA RecordFailureFits ==
  ASSUME CallConstants, time \in Nat \ {0}, NEW e \in BreakerEntry, NEW f \in Seq(Nat),
         EntryFits(e, time), EntryRecalls(e, f)
  PROVE  /\ RecordFailure(e) \in BreakerEntry
         /\ EntryFits(RecordFailure(e), time) /\ EntryRecalls(RecordFailure(e), Later(f))
         /\ RecordFailure(e).trials = 0
         /\ e.openedAt = Never /\ RecordFailure(e).openedAt # Never =>
              Cardinality({i \in DOMAIN Later(f) : time - Later(f)[i] < Window}) >= Threshold
<1>1. /\ e.failures \in Seq(Nat) /\ e.openedAt \in Nat /\ e.trials \in Nat
      /\ Threshold \in Nat \ {0} /\ TrialCalls \in Nat \ {0} /\ Window \in Nat \ {0}
      /\ Cooldown \in Nat
  BY DEF BreakerEntry, CallConstants
<1>2. /\ Later(f) \in Seq(Nat) /\ Len(Later(f)) \in Nat /\ Len(Later(f)) <= Threshold
      /\ Len(Later(f)) = (IF Len(f) = Threshold THEN Threshold ELSE Len(f) + 1)
      /\ Later(f)[Len(Later(f))] = time
      /\ \A i \in 1 .. Len(Later(f)) - 1 : Later(f)[i] = f[Len(f) - Len(Later(f)) + 1 + i]
  <2>1. Len(f) <= Threshold /\ Len(f) \in Nat
    BY DEF EntryRecalls
  <2> QED
    BY <1>1, <2>1, LaterFacts
<1>3. CASE State(e) = "half_open"
  <2>1. RecordFailure(e) = [e EXCEPT !.openedAt = time, !.trials = 0]
    BY <1>3 DEF RecordFailure
  <2>2. e.openedAt # Never
    BY <1>3 DEF State
  <2>7. RecordFailure(e) = [failures |-> e.failures, openedAt |-> time, trials |-> 0]
    BY <2>1 DEF BreakerEntry
  <2>3. RecordFailure(e) \in BreakerEntry
    BY <1>1, <2>7 DEF BreakerEntry
  <2>4. /\ RecordFailure(e).failures = e.failures /\ RecordFailure(e).openedAt = time
        /\ RecordFailure(e).trials = 0
    BY <2>7
  <2>5. EntryFits(RecordFailure(e), time)
    BY <1>1, <2>4 DEF EntryFits, Never
  <2>6. EntryRecalls(RecordFailure(e), Later(f))
    BY <1>2, <2>4 DEF EntryRecalls, Never
  <2> QED
    BY <2>2, <2>3, <2>4, <2>5, <2>6
<1>4. CASE State(e) = "open"
  <2>1. RecordFailure(e) = e
    BY <1>4 DEF RecordFailure
  <2>2. e.openedAt # Never /\ ~(time - e.openedAt >= Cooldown)
    BY <1>4 DEF State
  <2>3. e.trials = 0
    BY <1>1, <2>2 DEF EntryFits
  <2> QED
    BY <1>2, <2>1, <2>2, <2>3 DEF EntryRecalls
<1>5. CASE State(e) \notin {"half_open", "open"}
  <2>1. e.openedAt = Never
    BY <1>5 DEF State
  <2>2. e.trials = 0
    BY <1>1, <2>1 DEF EntryFits
  <2>3. PICK l \in Nat : l = Len(e.failures)
    BY <1>1
  <2>4. PICK m \in Nat : m = Len(f)
    OBVIOUS
  <2>5. /\ l < Threshold /\ l <= m /\ m <= Threshold
        /\ \A i \in 1 .. l : e.failures[i] \in 1 .. time
        /\ \A i \in 1 .. l : e.failures[i] = f[m - l + i]
    BY <2>1, <2>3, <2>4 DEF EntryFits, EntryRecalls
  <2>6. PICK k \in 0 .. l :
          /\ Recent(e.failures) \in Seq(Nat) /\ Len(Recent(e.failures)) = k
          /\ \A i \in 1 .. k : Recent(e.failures)[i] = e.failures[l - k + i]
          /\ k = l => \A i \in 1 .. k : time - e.failures[i] < Window
    BY <1>1, <2>3, RecentFacts
  <2>7. PICK r : r = Append(Recent(e.failures), time)
    OBVIOUS
  <2>8. /\ r \in Seq(Nat) /\ Len(r) = k + 1 /\ r[k + 1] = time
        /\ \A i \in 1 .. k : r[i] = e.failures[l - k + i]
    BY <2>6, <2>7
  <2>9. PICK n \in Nat : n = Len(Later(f)) /\ n <= Threshold /\ (n = m + 1 \/ n = m)
                          /\ (m # Threshold => n = m + 1)
    BY <1>2, <2>4
  <2>10. k + 1 <= n /\ \A i \in 1 .. k + 1 : r[i] = Later(f)[n - (k + 1) + i]
    <3>1. k + 1 <= n
      BY <1>1, <2>5, <2>6, <2>9
    <3>2. r[k + 1] = Later(f)[n - (k + 1) + (k + 1)]
      <4>1. n - (k + 1) + (k + 1) = n
        OBVIOUS
      <4> QED
        BY <1>2, <2>8, <2>9, <4>1
    <3>3. ASSUME NEW i \in 1 .. k
          PROVE  r[i] = Later(f)[n - (k + 1) + i]
      <4>1. l - k + i \in 1 .. l
        BY <2>6
      <4>2. r[i] = f[m - l + (l - k + i)]
        BY <2>5, <2>8, <4>1
      <4>3. n - (k + 1) + i \in 1 .. n - 1
        BY <3>1
      <4>4. Later(f)[n - (k + 1) + i] = f[m - n + 1 + (n - (k + 1) + i)]
        BY <1>2, <2>4, <2>9, <4>3
      <4>5. m - l + (l - k + i) = m - n + 1 + (n - (k + 1) + i)
        OBVIOUS
      <4> QED
        BY <4>2, <4>4, <4>5
    <3> QED
      BY <3>1, <3>2, <3>3
  <2>11. CASE k + 1 >= Threshold
    <3>1. RecordFailure(e) = [failures |-> << >>, openedAt |-> time, trials |-> 0]
      BY <1>5, <2>7, <2>8, <2>11 DEF RecordFailure
    <3>2. k = l /\ n = Threshold /\ k + 1 = n
      BY <1>1, <2>5, <2>6, <2>9, <2>10, <2>11
    <3>3. \A i \in 1 .. n : time - Later(f)[i] < Window
      <4> SUFFICES ASSUME NEW i \in 1 .. n
                   PROVE  time - Later(f)[i] < Window
        OBVIOUS
      <4>1. Later(f)[i] = r[i]
        <5>1. i \in 1 .. k + 1 /\ n - (k + 1) + i = i
          BY <3>2
        <5> QED
          BY <2>10, <5>1
      <4>2. CASE i = n
        BY <1>1, <2>8, <3>2, <4>1, <4>2
      <4>3. CASE i # n
        <5>1. i \in 1 .. k
          BY <3>2, <4>3
        <5>2. r[i] = e.failures[i]
          BY <2>8, <3>2, <5>1
        <5> QED
          BY <2>6, <3>2, <4>1, <5>1, <5>2
      <4> QED
        BY <4>2, <4>3
    <3>4. DOMAIN Later(f) = 1 .. n
      BY <1>2, <2>9
    <3>5. {i \in DOMAIN Later(f) : time - Later(f)[i] < Window} = 1 .. n
      BY <3>3, <3>4
    <3>6. Cardinality(1 .. n) = n
      BY FS_Interval
    <3>7. RecordFailure(e) \in BreakerEntry
      BY <3>1 DEF BreakerEntry
    <3>8. EntryFits(RecordFailure(e), time)
      BY <1>1, <3>1 DEF EntryFits, Never
    <3>9. EntryRecalls(RecordFailure(e), Later(f))
      BY <1>2, <3>1 DEF EntryRecalls, Never
    <3>10. RecordFailure(e).trials = 0
      BY <3>1
    <3>11. Cardinality({i \in DOMAIN Later(f) : time - Later(f)[i] < Window}) = Threshold
      BY <3>2, <3>5, <3>6
    <3> QED
      BY <1>1, <3>7, <3>8, <3>9, <3>10, <3>11
  <2>12. CASE ~(k + 1 >= Threshold)
    <3>1. RecordFailure(e) = [e EXCEPT !.failures = r]
      BY <1>5, <2>7, <2>8, <2>12 DEF RecordFailure
    <3>6. RecordFailure(e) = [failures |-> r, openedAt |-> Never, trials |-> 0]
      BY <2>1, <2>2, <3>1 DEF BreakerEntry
    <3>7. Never \in Nat
      BY DEF Never
    <3>2. /\ RecordFailure(e) \in BreakerEntry
          /\ RecordFailure(e).failures = r /\ RecordFailure(e).openedAt = Never
          /\ RecordFailure(e).trials = 0
      BY <2>8, <3>6, <3>7 DEF BreakerEntry
    <3>3. \A i \in 1 .. k + 1 : r[i] \in 1 .. time
      <4>1. ASSUME NEW i \in 1 .. k PROVE r[i] \in 1 .. time
        <5>1. l - k + i \in 1 .. l
          BY <2>6
        <5> QED
          BY <2>5, <2>8, <5>1
      <4>2. r[k + 1] \in 1 .. time
        BY <2>8
      <4>3. ASSUME NEW i \in 1 .. k + 1 PROVE i \in 1 .. k \/ i = k + 1
        OBVIOUS
      <4> QED
        BY <4>1, <4>2, <4>3
    <3>4. EntryFits(RecordFailure(e), time)
      <4>1. Len(r) < Threshold /\ \A i \in 1 .. Len(r) : r[i] \in 1 .. time
        BY <1>1, <2>8, <2>12, <3>3
      <4>2. 0 <= time /\ 0 <= TrialCalls
        BY <1>1
      <4> QED
        BY <3>2, <4>1, <4>2 DEF EntryFits, Never
    <3>5. EntryRecalls(RecordFailure(e), Later(f))
      <4>1. Len(r) <= Len(Later(f)) /\ Len(Later(f)) <= Threshold
        BY <2>8, <2>9, <2>10
      <4>2. \A i \in 1 .. Len(r) : r[i] = Later(f)[Len(Later(f)) - Len(r) + i]
        BY <2>8, <2>9, <2>10
      <4> QED
        BY <3>2, <4>1, <4>2 DEF EntryRecalls
    <3> QED
      BY <3>2, <3>4, <3>5
  <2> QED
    BY <1>1, <2>11, <2>12
<1> QED
  BY <1>3, <1>4, <1>5

-------------------------------------------------------------------------------
(* Calls on their way.                                                       *)

\* A call that ends is still a call.
LEMMA EndedFacts ==
  ASSUME CallConstants, NEW call \in Route, NEW stage \in Over
  PROVE  /\ Ended(call, stage) \in Route
         /\ Ended(call, stage).stage = stage /\ Ended(call, stage).chain = call.chain
         /\ Ended(call, stage).candidate = call.candidate /\ Ended(call, stage).attempt = 0
<1>1. Ended(call, stage) =
        [stage |-> stage, kind |-> call.kind, chain |-> call.chain, candidate |-> call.candidate,
         attempt |-> 0, yielded |-> FALSE, trial |-> FALSE]
  <2>1. PICK e : e = [call EXCEPT !.stage = stage, !.attempt = 0, !.yielded = FALSE,
                                  !.trial = FALSE]
    OBVIOUS
  <2>2. e = [stage |-> stage, kind |-> call.kind, chain |-> call.chain,
             candidate |-> call.candidate, attempt |-> 0, yielded |-> FALSE, trial |-> FALSE]
    BY <2>1 DEF Route
  <2> QED
    BY <2>1, <2>2 DEF Ended
<1>2. /\ call.kind \in {"complete", "stream"} /\ call.chain \in Seq(Providers)
      /\ call.candidate \in Nat
  BY DEF Route
<1> QED
  BY <1>1, <1>2 DEF Route

\* What is passed over is noted after what came of those before.
LEMMA SkipsFollow ==
  ASSUME NEW came \in Seq(Came), \A i \in 1 .. Len(came) : came[i] # "success", NEW k \in Nat
  PROVE  LET ts == came \o [i \in 1 .. k |-> "skipped"]
         IN /\ ts \in Seq(Came) /\ Len(ts) = Len(came) + k
            /\ \A i \in 1 .. Len(ts) : ts[i] # "success"
<1>1. PICK skips : skips = [i \in 1 .. k |-> "skipped"]
  OBVIOUS
<1>2. skips \in Seq(Came) /\ Len(skips) = k /\ \A i \in 1 .. k : skips[i] = "skipped"
  <2>1. skips \in [1 .. k -> Came]
    BY <1>1 DEF Came
  <2> QED
    BY <1>1, <2>1
<1>3. PICK m \in Nat : m = Len(came)
  OBVIOUS
<1>4. PICK ts : ts = came \o skips
  OBVIOUS
<1>5. /\ ts \in Seq(Came) /\ Len(ts) = m + k
      /\ \A i \in 1 .. m + k : ts[i] = IF i <= m THEN came[i] ELSE skips[i - m]
  <2>1. came \in Seq(Came) /\ skips \in Seq(Came)
    BY <1>2
  <2>2. /\ came \o skips \in Seq(Came) /\ Len(came \o skips) = Len(came) + Len(skips)
        /\ \A i \in 1 .. Len(came) + Len(skips) :
             (came \o skips)[i] = IF i <= Len(came) THEN came[i] ELSE skips[i - Len(came)]
    BY <2>1, ConcatProperties
  <2> QED
    BY <1>2, <1>3, <1>4, <2>2
<1>6. \A i \in 1 .. m + k : ts[i] # "success"
  <2> SUFFICES ASSUME NEW i \in 1 .. m + k
               PROVE  ts[i] # "success"
    OBVIOUS
  <2>1. CASE i <= m
    BY <1>3, <1>5, <2>1
  <2>2. CASE ~(i <= m)
    <3>1. i - m \in 1 .. k
      BY <2>2
    <3> QED
      BY <1>2, <1>5, <2>2, <3>1
  <2> QED
    BY <2>1, <2>2
<1> QED
  BY <1>1, <1>3, <1>4, <1>5, <1>6

\* A call that ends otherwise than by its chain has given what it has given.
LEMMA EndedFits ==
  ASSUME CallConstants, NEW call \in Route, NEW given, NEW came \in Seq(Came),
         RouteFits(call, given, came), NEW r \in Route, NEW ts \in Seq(Came),
         r.chain = call.chain, r.candidate = call.candidate, r.attempt = 0,
         \/ r.stage \in {"thrown", "abandoned"}
         \/ r.stage = "answered" /\ Len(ts) = r.candidate
  PROVE  RouteFits(r, given, ts)
<1>1. r.candidate <= Len(r.chain)
  BY DEF RouteFits
<1>2. r.attempt <= MaxTries
  BY DEF CallConstants
<1>3. given = {} \/ \E x : given = {x}
  BY DEF RouteFits
<1> QED
  BY <1>1, <1>2, <1>3 DEF RouteFits

\* Going on with the chain: the call comes to a model whose provider lets it in, or
\* to the end, having noted each it passed over; if it is a trial, it is counted.
GoneOn(c, r, ts, br, fs) ==
  /\ r \in Route /\ ts \in Seq(Came)
  /\ routes' = [routes EXCEPT ![c] = r] /\ tried' = [tried EXCEPT ![c] = ts]
  /\ RouteFits(r, {}, ts)
  /\ breaker' \in [Providers -> BreakerEntry]
  /\ \A p \in Providers :
       /\ EntryFits(breaker'[p], time) /\ EntryRecalls(breaker'[p], fs[p])
       /\ breaker'[p].openedAt = br[p].openedAt
       /\ breaker'[p].trials > 0 =>
            br[p].trials > 0 \/ (r.stage = "calling" /\ r.trial /\ r.chain[r.candidate] = p)

LEMMA GoOnFacts ==
  ASSUME CallConstants, time \in Nat, NEW c, NEW call \in Route,
         NEW from \in 1 .. Len(call.chain) + 1,
         NEW br \in [Providers -> BreakerEntry], NEW came \in Seq(Came), NEW fs,
         Len(came) = from - 1, \A i \in 1 .. Len(came) : came[i] # "success",
         call.candidate <= Len(call.chain),
         \A p \in Providers : EntryFits(br[p], time) /\ EntryRecalls(br[p], fs[p]),
         GoOn(c, call, from, br, came)
  PROVE  \E r, ts : GoneOn(c, r, ts, br, fs)
<1>1. PICK n \in Nat : n = Len(call.chain)
  BY DEF Route
<1>2. /\ call.chain \in Seq(Providers) /\ call.kind \in {"complete", "stream"}
      /\ call.candidate \in Nat /\ MaxTries \in Nat \ {0} /\ TrialCalls \in Nat \ {0}
  BY DEF Route, CallConstants
<1>3. PICK to \in from .. n + 1 :
        /\ tried' = [tried EXCEPT ![c] = came \o [i \in 1 .. to - from |-> "skipped"]]
        /\ \/ /\ to > n
              /\ routes' = [routes EXCEPT ![c] = Ended(call, "exhausted")] /\ breaker' = br
           \/ /\ to <= n /\ CanRequest(br[call.chain[to]])
              /\ routes' = [routes EXCEPT ![c] =
                   [call EXCEPT !.stage = "calling", !.candidate = to, !.attempt = 1,
                                !.yielded = FALSE,
                                !.trial = State(br[call.chain[to]]) = "half_open"]]
              /\ breaker' = IF State(br[call.chain[to]]) = "half_open"
                              THEN [br EXCEPT ![call.chain[to]].trials = @ + 1] ELSE br
  BY <1>1 DEF GoOn
<1>4. PICK ts : ts = came \o [i \in 1 .. to - from |-> "skipped"]
  OBVIOUS
<1>8. from \in 1 .. n + 1 /\ to \in Nat /\ from <= to /\ to <= n + 1
  <2>1. from \in 1 .. n + 1
    BY <1>1
  <2> QED
    BY <1>3, <2>1
<1>5. ts \in Seq(Came) /\ Len(ts) = to - 1 /\ \A i \in 1 .. Len(ts) : ts[i] # "success"
  <2>1. PICK k \in Nat : k = to - from
    BY <1>8
  <2>2. /\ ts \in Seq(Came) /\ Len(ts) = Len(came) + k
        /\ \A i \in 1 .. Len(ts) : ts[i] # "success"
    BY <1>4, <2>1, SkipsFollow
  <2>3. Len(came) + k = to - 1
    BY <1>8, <2>1
  <2> QED
    BY <2>2, <2>3
<1>6. CASE to > n
  <2>1. /\ routes' = [routes EXCEPT ![c] = Ended(call, "exhausted")] /\ breaker' = br
    BY <1>3, <1>6
  <2>2. "exhausted" \in Over
    BY DEF Over
  <2>3. PICK r : r = Ended(call, "exhausted")
    OBVIOUS
  <2>4. r \in Route /\ r.stage = "exhausted" /\ r.chain = call.chain
        /\ r.candidate = call.candidate /\ r.attempt = 0
    BY <2>2, <2>3, EndedFacts
  <2>5. to - 1 = n
    BY <1>6, <1>8
  <2>6. RouteFits(r, {}, ts)
    BY <1>1, <1>2, <1>5, <2>4, <2>5 DEF RouteFits
  <2>7. GoneOn(c, r, ts, br, fs)
    <3>1. routes' = [routes EXCEPT ![c] = r] /\ tried' = [tried EXCEPT ![c] = ts]
      BY <1>3, <1>4, <2>1, <2>3
    <3> QED
      BY <1>5, <2>1, <2>4, <2>6, <3>1 DEF GoneOn
  <2> QED
    BY <2>7
<1>7. CASE ~(to > n)
  <2>1. PICK p \in Providers : p = call.chain[to]
    <3>1. to \in 1 .. Len(call.chain)
      BY <1>1, <1>7, <1>8
    <3> QED
      BY <1>2, <3>1
  <2>2. PICK trial \in BOOLEAN : trial = (State(br[p]) = "half_open")
    OBVIOUS
  <2>3. /\ CanRequest(br[p])
        /\ routes' = [routes EXCEPT ![c] =
             [call EXCEPT !.stage = "calling", !.candidate = to, !.attempt = 1,
                          !.yielded = FALSE, !.trial = trial]]
        /\ breaker' = IF trial THEN [br EXCEPT ![p].trials = @ + 1] ELSE br
    BY <1>1, <1>3, <1>7, <2>1, <2>2
  <2>4. PICK r : r = [call EXCEPT !.stage = "calling", !.candidate = to, !.attempt = 1,
                                  !.yielded = FALSE, !.trial = trial]
    OBVIOUS
  <2>5. r = [stage |-> "calling", kind |-> call.kind, chain |-> call.chain, candidate |-> to,
             attempt |-> 1, yielded |-> FALSE, trial |-> trial]
    BY <2>4 DEF Route
  <2>6. r \in Route
    BY <1>2, <1>3, <2>5 DEF Route
  <2>7. RouteFits(r, {}, ts)
    <3>1. to <= Len(call.chain) /\ to >= 1 /\ Len(ts) = to - 1 /\ 1 <= MaxTries
      BY <1>1, <1>2, <1>5, <1>7, <1>8
    <3>2. \A i \in 1 .. Len(ts) : ts[i] # "success"
      BY <1>5
    <3> QED
      BY <2>5, <3>1, <3>2 DEF RouteFits
  <2>8. CASE ~trial
    <3>1. breaker' = br
      BY <2>3, <2>8
    <3>2. GoneOn(c, r, ts, br, fs)
      BY <1>3, <1>4, <1>5, <2>3, <2>4, <2>6, <2>7, <3>1 DEF GoneOn
    <3> QED
      BY <3>2
  <2>9. CASE trial
    <3>1. breaker' = [br EXCEPT ![p].trials = @ + 1]
      BY <2>3, <2>9
    <3>2. State(br[p]) = "half_open" /\ br[p].trials < TrialCalls
      BY <2>2, <2>3, <2>9 DEF CanRequest
    <3>3. br[p].openedAt # Never /\ time - br[p].openedAt >= Cooldown
      BY <3>2 DEF State
    <3>4. br[p] \in BreakerEntry /\ br[p].trials \in Nat
      BY DEF BreakerEntry
    <3>5. breaker'[p] = [failures |-> br[p].failures, openedAt |-> br[p].openedAt,
                         trials |-> br[p].trials + 1]
      BY <3>1, <3>4 DEF BreakerEntry
    <3>6. breaker'[p] \in BreakerEntry
      BY <3>4, <3>5 DEF BreakerEntry
    <3>7. breaker' \in [Providers -> BreakerEntry]
          /\ \A q \in Providers \ {p} : breaker'[q] = br[q]
      BY <3>1, <3>5, <3>6
    <3>8. EntryFits(breaker'[p], time)
      <4>1. EntryFits(br[p], time)
        OBVIOUS
      <4> QED
        BY <1>2, <3>2, <3>3, <3>4, <3>5, <4>1 DEF EntryFits
    <3>9. EntryRecalls(breaker'[p], fs[p])
      <4>1. EntryRecalls(br[p], fs[p])
        OBVIOUS
      <4>2. breaker'[p].failures = br[p].failures /\ breaker'[p].openedAt = br[p].openedAt
        BY <3>5
      <4> QED
        BY <4>1, <4>2 DEF EntryRecalls
    <3>10. r.stage = "calling" /\ r.trial /\ r.chain[r.candidate] = p
      BY <2>1, <2>5, <2>9
    <3>11. ASSUME NEW q \in Providers
           PROVE  /\ EntryFits(breaker'[q], time) /\ EntryRecalls(breaker'[q], fs[q])
                  /\ breaker'[q].openedAt = br[q].openedAt
                  /\ breaker'[q].trials > 0 =>
                       br[q].trials > 0
                         \/ (r.stage = "calling" /\ r.trial /\ r.chain[r.candidate] = q)
      BY <3>5, <3>7, <3>8, <3>9, <3>10
    <3>12. GoneOn(c, r, ts, br, fs)
      BY <1>3, <1>4, <1>5, <2>3, <2>4, <2>6, <2>7, <3>7, <3>11 DEF GoneOn
    <3> QED
      BY <3>12
  <2> QED
    BY <2>8, <2>9
<1> QED
  BY <1>6, <1>7

\* Those whose trial is another call's go on being tried.
LEMMA OthersTry ==
  ASSUME CallShapes, TrialsGoOn, NEW c \in Calls, NEW r, routes' = [routes EXCEPT ![c] = r],
         NEW p \in Providers, p \notin leaked, breaker[p].trials > 0,
         ~(InFlight(c) /\ routes[c].trial /\ ProviderOf(c) = p)
  PROVE  \E d \in Calls : (InFlight(d) /\ routes[d].trial /\ ProviderOf(d) = p)'
<1>1. PICK d \in Calls : InFlight(d) /\ routes[d].trial /\ ProviderOf(d) = p
  BY DEF TrialsGoOn
<1>2. d # c
  BY <1>1
<1>3. routes'[d] = routes[d]
  BY <1>2 DEF CallShapes
<1> QED
  BY <1>1, <1>3 DEF InFlight, ProviderOf

-------------------------------------------------------------------------------
(* Every step keeps the invariant.                                           *)

LEMMA CallsBegin ==
  ASSUME CallConstants, CallsInit
  PROVE  CallsInv
<1>1. /\ Threshold \in Nat \ {0} /\ TrialCalls \in Nat \ {0} /\ MaxTries \in Nat \ {0}
      /\ MaxInstant \in Nat \ {0} /\ Cooldown \in Nat
  BY DEF CallConstants
<1>2. /\ time = 1 /\ breaker = [p \in Providers |-> Entry]
      /\ routes = [c \in Calls |-> NotBegun] /\ failed = [p \in Providers |-> << >>]
      /\ streamed = [c \in Calls |-> {}] /\ tried = [c \in Calls |-> << >>]
  BY DEF CallsInit
<1>3. Entry \in BreakerEntry /\ NotBegun \in Route
  BY DEF Entry, BreakerEntry, NotBegun, Route, Never
<1>4. CallShapes
  BY <1>1, <1>2, <1>3 DEF CallShapes
<1>5. EntryFits(Entry, 1) /\ EntryRecalls(Entry, << >>)
  BY <1>1 DEF EntryFits, EntryRecalls, Entry, Never
<1>6. RouteFits(NotBegun, {}, << >>)
  BY <1>1 DEF RouteFits, NotBegun
<1>7. TrialsGoOn
  BY <1>2 DEF TrialsGoOn, Entry
<1> QED
  BY <1>2, <1>4, <1>5, <1>6, <1>7 DEF CallsInv

\* A chain is made of the model a person chose and those they fall back on.
LEMMA RequestKeeps ==
  ASSUME CallConstants, CallsInv, NEW c \in Calls, Begin(c)
  PROVE  CallsInv' /\ OpensForCause
<1>1. PICK kind \in {"complete", "stream"}, config \in Settings :
        GoOn(c, [NotBegun EXCEPT !.kind = kind, !.chain = PolicyFromLlmConfig(config)], 1,
             breaker, << >>)
  BY DEF Begin
<1>2. /\ routes[c].stage \in Over \cup {"idle"} /\ streamed' = [streamed EXCEPT ![c] = {}]
      /\ time' = time /\ failed' = failed /\ leaked' = leaked
  BY DEF Begin
<1>3. PICK call : call = [NotBegun EXCEPT !.kind = kind, !.chain = PolicyFromLlmConfig(config)]
  OBVIOUS
<1>4. call \in Route /\ call.candidate = 0 /\ Len(call.chain) \in Nat
  <2>1. PolicyFromLlmConfig(config) \in Seq(Providers)
    <3>1. config.provider \in Providers /\ config.fallbacks \in Seq(Providers)
      BY DEF CallConstants
    <3>2. <<config.provider>> \in Seq(Providers)
      BY <3>1
    <3> QED
      BY <3>1, <3>2, ConcatProperties DEF PolicyFromLlmConfig
  <2>2. call = [stage |-> "idle", kind |-> kind, chain |-> PolicyFromLlmConfig(config),
                candidate |-> 0, attempt |-> 0, yielded |-> FALSE, trial |-> FALSE]
    BY <1>3 DEF NotBegun
  <2>3. call \in Route /\ call.candidate = 0
    BY <2>1, <2>2 DEF Route
  <2> QED
    BY <2>1, <2>2, <2>3
<1>5. /\ breaker \in [Providers -> BreakerEntry] /\ time \in Nat /\ CallShapes /\ TrialsGoOn
      /\ \A p \in Providers : EntryFits(breaker[p], time) /\ EntryRecalls(breaker[p], failed[p])
      /\ \A d \in Calls : RouteFits(routes[d], streamed[d], tried[d])
  BY DEF CallsInv, CallShapes
<1>6. PICK r, ts : GoneOn(c, r, ts, breaker, failed)
  <2>1. GoOn(c, call, 1, breaker, << >>)
    BY <1>1, <1>3
  <2>2. /\ << >> \in Seq(Came) /\ Len(<< >>) = 1 - 1
        /\ \A i \in 1 .. Len(<< >>) : << >>[i] # "success"
    OBVIOUS
  <2>3. 1 \in 1 .. Len(call.chain) + 1 /\ call.candidate <= Len(call.chain)
    BY <1>4
  <2> QED
    BY <1>4, <1>5, <2>1, <2>2, <2>3, GoOnFacts
<1>7. /\ r \in Route /\ ts \in Seq(Came)
      /\ routes' = [routes EXCEPT ![c] = r] /\ tried' = [tried EXCEPT ![c] = ts]
      /\ RouteFits(r, {}, ts) /\ breaker' \in [Providers -> BreakerEntry]
      /\ \A p \in Providers :
           /\ EntryFits(breaker'[p], time) /\ EntryRecalls(breaker'[p], failed[p])
           /\ breaker'[p].openedAt = breaker[p].openedAt
           /\ breaker'[p].trials > 0 =>
                breaker[p].trials > 0
                  \/ (r.stage = "calling" /\ r.trial /\ r.chain[r.candidate] = p)
  BY <1>6 DEF GoneOn
<1>8. CallShapes'
  BY <1>2, <1>5, <1>7 DEF CallShapes
<1>9. \A d \in Calls : RouteFits(routes'[d], streamed'[d], tried'[d])
  BY <1>2, <1>5, <1>7 DEF CallShapes
<1>10. TrialsGoOn'
  <2> SUFFICES ASSUME NEW p \in Providers, p \notin leaked', breaker'[p].trials > 0
               PROVE  \E d \in Calls : (InFlight(d) /\ routes[d].trial /\ ProviderOf(d) = p)'
    BY DEF TrialsGoOn
  <2>1. CASE r.stage = "calling" /\ r.trial /\ r.chain[r.candidate] = p
    <3>1. routes'[c] = r
      BY <1>5, <1>7 DEF CallShapes
    <3> QED
      BY <2>1, <3>1 DEF InFlight, ProviderOf
  <2>2. CASE ~(r.stage = "calling" /\ r.trial /\ r.chain[r.candidate] = p)
    <3>1. breaker[p].trials > 0 /\ p \notin leaked
      BY <1>2, <1>7, <2>2
    <3>2. ~InFlight(c)
      BY <1>2 DEF InFlight, Over
    <3> QED
      BY <1>5, <1>7, <3>1, <3>2, OthersTry
  <2> QED
    BY <2>1, <2>2
<1>11. OpensForCause
  BY <1>7 DEF OpensForCause
<1> QED
  BY <1>2, <1>7, <1>8, <1>9, <1>10, <1>11 DEF CallsInv

\* The first event of an attempt is the first that reaches whoever asked.
LEMMA YieldsKeeps ==
  ASSUME CallConstants, CallsInv, NEW c \in Calls, Yields(c)
  PROVE  CallsInv' /\ OpensForCause
<1>1. /\ CallShapes /\ TrialsGoOn
      /\ \A p \in Providers : EntryFits(breaker[p], time) /\ EntryRecalls(breaker[p], failed[p])
      /\ \A d \in Calls : RouteFits(routes[d], streamed[d], tried[d])
  BY DEF CallsInv
<1>2. PICK r : r = [routes[c] EXCEPT !.yielded = TRUE]
  OBVIOUS
<1>3. PICK x : x = <<routes[c].candidate, routes[c].attempt>>
  OBVIOUS
<1>4. /\ routes[c].stage = "calling" /\ ~routes[c].yielded
      /\ routes' = [routes EXCEPT ![c] = r]
      /\ streamed' = [streamed EXCEPT ![c] = @ \cup {x}]
      /\ time' = time /\ breaker' = breaker /\ failed' = failed /\ tried' = tried
      /\ leaked' = leaked
  BY <1>2, <1>3 DEF Yields, InFlight
<1>5. routes[c] \in Route
  BY <1>1 DEF CallShapes
<1>6. r = [stage |-> routes[c].stage, kind |-> routes[c].kind, chain |-> routes[c].chain,
           candidate |-> routes[c].candidate, attempt |-> routes[c].attempt, yielded |-> TRUE,
           trial |-> routes[c].trial]
  BY <1>2, <1>5 DEF Route
<1>7. r \in Route /\ x \in Nat \X Nat
  BY <1>3, <1>5, <1>6 DEF Route
<1>8. CallShapes'
  BY <1>1, <1>4, <1>7 DEF CallShapes
<1>9. streamed[c] = {} /\ streamed'[c] = {x} /\ routes'[c] = r
  BY <1>1, <1>4 DEF RouteFits, CallShapes
<1>10. RouteFits(r, {x}, tried[c])
  <2>1. RouteFits(routes[c], streamed[c], tried[c])
    BY <1>1
  <2> QED
    BY <1>4, <1>6, <2>1 DEF RouteFits
<1>11. \A d \in Calls : RouteFits(routes'[d], streamed'[d], tried'[d])
  BY <1>1, <1>4, <1>9, <1>10 DEF CallShapes
<1>12. TrialsGoOn'
  <2> SUFFICES ASSUME NEW p \in Providers, p \notin leaked', breaker'[p].trials > 0
               PROVE  \E d \in Calls : (InFlight(d) /\ routes[d].trial /\ ProviderOf(d) = p)'
    BY DEF TrialsGoOn
  <2>1. p \notin leaked /\ breaker[p].trials > 0
    BY <1>4
  <2>2. CASE routes[c].trial /\ ProviderOf(c) = p
    <3>1. routes'[c].stage = "calling" /\ routes'[c].trial
          /\ routes'[c].chain[routes'[c].candidate] = p
      BY <1>4, <1>6, <1>9, <2>2 DEF ProviderOf
    <3> QED
      BY <3>1 DEF InFlight, ProviderOf
  <2>3. CASE ~(routes[c].trial /\ ProviderOf(c) = p)
    BY <1>1, <1>4, <2>1, <2>3, OthersTry
  <2> QED
    BY <2>2, <2>3
<1>13. OpensForCause
  BY <1>4 DEF OpensForCause
<1> QED
  BY <1>1, <1>4, <1>8, <1>11, <1>12, <1>13 DEF CallsInv

\* A provider that answers is as good as new.
LEMMA SucceedsKeeps ==
  ASSUME CallConstants, CallsInv, NEW c \in Calls, Succeeds(c)
  PROVE  CallsInv' /\ OpensForCause
<1>1. /\ CallShapes /\ TrialsGoOn
      /\ \A p \in Providers : EntryFits(breaker[p], time) /\ EntryRecalls(breaker[p], failed[p])
      /\ \A d \in Calls : RouteFits(routes[d], streamed[d], tried[d])
  BY DEF CallsInv
<1>2. PICK r : r = Ended(routes[c], "answered")
  OBVIOUS
<1>3. PICK q : q = ProviderOf(c)
  OBVIOUS
<1>4. PICK ts : ts = Append(tried[c], "success")
  OBVIOUS
<1>5. /\ routes[c].stage = "calling"
      /\ routes' = [routes EXCEPT ![c] = r] /\ breaker' = [breaker EXCEPT ![q] = Entry]
      /\ failed' = [failed EXCEPT ![q] = << >>] /\ leaked' = leaked \ {q}
      /\ tried' = [tried EXCEPT ![c] = ts]
      /\ time' = time /\ streamed' = streamed
  BY <1>2, <1>3, <1>4 DEF Succeeds, InFlight, RecordSuccess
<1>6. routes[c] \in Route /\ tried[c] \in Seq(Came)
  BY <1>1 DEF CallShapes
<1>7. "answered" \in Over /\ "success" \in Came
  BY DEF Over, Came
<1>8. r \in Route /\ r.stage = "answered" /\ r.chain = routes[c].chain
      /\ r.candidate = routes[c].candidate /\ r.attempt = 0
  BY <1>2, <1>6, <1>7, EndedFacts
<1>9. ts \in Seq(Came) /\ Len(ts) = Len(tried[c]) + 1
  BY <1>4, <1>6, <1>7
<1>10. Entry \in BreakerEntry /\ EntryFits(Entry, time) /\ EntryRecalls(Entry, << >>)
  BY <1>1 DEF Entry, BreakerEntry, EntryFits, EntryRecalls, Never, CallShapes, CallConstants
<1>11. CallShapes'
  <2>1. breaker' \in [Providers -> BreakerEntry] /\ routes' \in [Calls -> Route]
    BY <1>1, <1>5, <1>8, <1>10 DEF CallShapes
  <2>2. failed' \in [Providers -> Seq(Nat)]
    <3>1. << >> \in Seq(Nat)
      OBVIOUS
    <3> QED
      BY <1>1, <1>5, <3>1 DEF CallShapes
  <2>3. tried' \in [Calls -> Seq(Came)]
    BY <1>1, <1>5, <1>9 DEF CallShapes
  <2> QED
    BY <1>1, <1>5, <2>1, <2>2, <2>3 DEF CallShapes
<1>12. \A p \in Providers : EntryFits(breaker'[p], time) /\ EntryRecalls(breaker'[p], failed'[p])
  BY <1>1, <1>5, <1>10 DEF CallShapes
<1>13. RouteFits(r, streamed[c], ts)
  <2>1. RouteFits(routes[c], streamed[c], tried[c])
    BY <1>1
  <2>2. routes[c].candidate \in Nat
    BY <1>6 DEF Route
  <2>3. Len(tried[c]) = routes[c].candidate - 1
    BY <1>5, <2>1 DEF RouteFits
  <2>4. Len(ts) = r.candidate
    BY <1>8, <1>9, <2>2, <2>3
  <2> QED
    BY <1>6, <1>8, <1>9, <2>1, <2>4, EndedFits
<1>14. \A d \in Calls : RouteFits(routes'[d], streamed'[d], tried'[d])
  BY <1>1, <1>5, <1>13 DEF CallShapes
<1>15. TrialsGoOn'
  <2> SUFFICES ASSUME NEW p \in Providers, p \notin leaked', breaker'[p].trials > 0
               PROVE  \E d \in Calls : (InFlight(d) /\ routes[d].trial /\ ProviderOf(d) = p)'
    BY DEF TrialsGoOn
  <2>1. p # q
    BY <1>1, <1>5 DEF CallShapes, Entry
  <2>2. p \notin leaked /\ breaker[p].trials > 0
    BY <1>1, <1>5, <2>1 DEF CallShapes
  <2> QED
    BY <1>1, <1>3, <1>5, <2>1, <2>2, OthersTry
<1>16. OpensForCause
  BY <1>1, <1>5 DEF OpensForCause, CallShapes, Entry
<1> QED
  BY <1>5, <1>11, <1>12, <1>14, <1>15, <1>16 DEF CallsInv

\* The trial of a call that ends without the breaker hearing of it is noted as lost.
LEMMA EndsUnrecordedKeeps ==
  ASSUME CallConstants, CallsInv, NEW c \in Calls, NEW stage \in {"thrown", "abandoned"},
         InFlight(c), EndsUnrecorded(c, stage)
  PROVE  CallsInv' /\ OpensForCause
<1>1. /\ CallShapes /\ TrialsGoOn
      /\ \A p \in Providers : EntryFits(breaker[p], time) /\ EntryRecalls(breaker[p], failed[p])
      /\ \A d \in Calls : RouteFits(routes[d], streamed[d], tried[d])
  BY DEF CallsInv
<1>2. PICK r : r = Ended(routes[c], stage)
  OBVIOUS
<1>3. /\ routes' = [routes EXCEPT ![c] = r]
      /\ leaked' = (IF routes[c].trial THEN leaked \cup {ProviderOf(c)} ELSE leaked)
      /\ time' = time /\ breaker' = breaker /\ failed' = failed /\ streamed' = streamed
      /\ tried' = tried
  BY <1>2 DEF EndsUnrecorded
<1>4. routes[c] \in Route
  BY <1>1 DEF CallShapes
<1>5. r \in Route /\ r.stage = stage /\ r.chain = routes[c].chain
      /\ r.candidate = routes[c].candidate /\ r.attempt = 0
  <2>1. stage \in Over
    BY DEF Over
  <2> QED
    BY <1>2, <1>4, <2>1, EndedFacts
<1>6. CallShapes'
  BY <1>1, <1>3, <1>5 DEF CallShapes
<1>7. RouteFits(r, streamed[c], tried[c])
  <2>1. RouteFits(routes[c], streamed[c], tried[c])
    BY <1>1
  <2>2. tried[c] \in Seq(Came)
    BY <1>1 DEF CallShapes
  <2> QED
    BY <1>4, <1>5, <2>1, <2>2, EndedFits
<1>8. \A d \in Calls : RouteFits(routes'[d], streamed'[d], tried'[d])
  BY <1>1, <1>3, <1>7 DEF CallShapes
<1>9. TrialsGoOn'
  <2> SUFFICES ASSUME NEW p \in Providers, p \notin leaked', breaker'[p].trials > 0
               PROVE  \E d \in Calls : (InFlight(d) /\ routes[d].trial /\ ProviderOf(d) = p)'
    BY DEF TrialsGoOn
  <2>1. p \notin leaked /\ breaker[p].trials > 0 /\ ~(routes[c].trial /\ ProviderOf(c) = p)
    BY <1>3
  <2> QED
    BY <1>1, <1>3, <2>1, OthersTry
<1>10. OpensForCause
  BY <1>3 DEF OpensForCause
<1> QED
  BY <1>1, <1>3, <1>6, <1>8, <1>9, <1>10 DEF CallsInv

\* The breaker after a failure, as every entry then is.
LEMMA AfterFailure ==
  ASSUME CallConstants, CallsInv, NEW q \in Providers, NEW after,
         after = [breaker EXCEPT ![q] = RecordFailure(@)],
         failed' = [failed EXCEPT ![q] = Later(@)]
  PROVE  /\ after \in [Providers -> BreakerEntry] /\ failed' \in [Providers -> Seq(Nat)]
         /\ \A p \in Providers : EntryFits(after[p], time) /\ EntryRecalls(after[p], failed'[p])
         /\ after[q].trials = 0 /\ \A p \in Providers \ {q} : after[p] = breaker[p]
         /\ \A p \in Providers : breaker[p].openedAt = Never /\ after[p].openedAt # Never =>
              Cardinality({i \in DOMAIN failed'[p] : time - failed'[p][i] < Window})
                >= Threshold
<1>1. PICK e : e = RecordFailure(breaker[q])
  OBVIOUS
<1>2. PICK f : f = Later(failed[q])
  OBVIOUS
<1>3. /\ breaker \in [Providers -> BreakerEntry] /\ failed \in [Providers -> Seq(Nat)]
      /\ time \in Nat \ {0}
      /\ \A p \in Providers : EntryFits(breaker[p], time) /\ EntryRecalls(breaker[p], failed[p])
  BY DEF CallsInv, CallShapes, CallConstants
<1>4. /\ e \in BreakerEntry /\ EntryFits(e, time) /\ EntryRecalls(e, f) /\ e.trials = 0
      /\ breaker[q].openedAt = Never /\ e.openedAt # Never =>
           Cardinality({i \in DOMAIN f : time - f[i] < Window}) >= Threshold
  <2>1. breaker[q] \in BreakerEntry /\ failed[q] \in Seq(Nat)
    BY <1>3
  <2>2. EntryFits(breaker[q], time) /\ EntryRecalls(breaker[q], failed[q])
    BY <1>3
  <2> QED
    BY <1>1, <1>2, <1>3, <2>1, <2>2, RecordFailureFits
<1>5. f \in Seq(Nat)
  <2>1. Len(failed[q]) <= Threshold /\ failed[q] \in Seq(Nat)
    BY <1>3 DEF EntryRecalls
  <2> QED
    BY <1>2, <1>3, <2>1, LaterFacts
<1>6. after = [breaker EXCEPT ![q] = e] /\ failed' = [failed EXCEPT ![q] = f]
  BY <1>1, <1>2
<1>7. /\ after \in [Providers -> BreakerEntry] /\ after[q] = e
      /\ \A p \in Providers \ {q} : after[p] = breaker[p]
  BY <1>3, <1>4, <1>6
<1>8. /\ failed' \in [Providers -> Seq(Nat)] /\ failed'[q] = f
      /\ \A p \in Providers \ {q} : failed'[p] = failed[p]
  BY <1>3, <1>5, <1>6
<1> QED
  BY <1>3, <1>4, <1>7, <1>8

\* A failure is recorded, and the call is tried again or goes on with its chain.
LEMMA FailsKeeps ==
  ASSUME CallConstants, CallsInv, NEW c \in Calls, Fails(c)
  PROVE  CallsInv' /\ OpensForCause
<1>1. /\ CallShapes /\ TrialsGoOn
      /\ \A p \in Providers : EntryFits(breaker[p], time) /\ EntryRecalls(breaker[p], failed[p])
      /\ \A d \in Calls : RouteFits(routes[d], streamed[d], tried[d])
  BY DEF CallsInv
<1>2. PICK q : q = ProviderOf(c)
  OBVIOUS
<1>3. PICK after : after = [breaker EXCEPT ![q] = RecordFailure(@)]
  OBVIOUS
<1>4. /\ routes[c].stage = "calling" /\ ~routes[c].yielded
      /\ failed' = [failed EXCEPT ![q] = Later(@)]
      /\ leaked' = (IF State(breaker[q]) = "half_open" THEN leaked \ {q} ELSE leaked)
      /\ time' = time /\ streamed' = streamed
      /\ IF HasRetry(routes[c])
           THEN /\ routes' = [routes EXCEPT ![c] = [@ EXCEPT !.stage = "sleeping", !.trial = FALSE]]
                /\ breaker' = after /\ tried' = tried
           ELSE GoOn(c, routes[c], routes[c].candidate + 1, after, Append(tried[c], "fallback"))
  BY <1>2, <1>3 DEF Fails, InFlight, HandsOn, Later
<1>5. /\ routes[c] \in Route /\ tried[c] \in Seq(Came) /\ RouteFits(routes[c], streamed[c], tried[c])
  BY <1>1 DEF CallShapes
<1>6. /\ routes[c].chain \in Seq(Providers) /\ routes[c].candidate \in Nat
      /\ routes[c].attempt \in Nat /\ routes[c].kind \in {"complete", "stream"}
  BY <1>5 DEF Route
<1>7. /\ routes[c].candidate \in 1 .. Len(routes[c].chain)
      /\ Len(tried[c]) = routes[c].candidate - 1 /\ streamed[c] = {}
      /\ \A i \in 1 .. Len(tried[c]) : tried[c][i] # "success"
  BY <1>4, <1>5, <1>6 DEF RouteFits
<1>8. q \in Providers
  BY <1>2, <1>6, <1>7 DEF ProviderOf
<1>9. /\ after \in [Providers -> BreakerEntry] /\ failed' \in [Providers -> Seq(Nat)]
      /\ \A p \in Providers : EntryFits(after[p], time) /\ EntryRecalls(after[p], failed'[p])
      /\ after[q].trials = 0 /\ \A p \in Providers \ {q} : after[p] = breaker[p]
      /\ \A p \in Providers : breaker[p].openedAt = Never /\ after[p].openedAt # Never =>
           Cardinality({i \in DOMAIN failed'[p] : time - failed'[p][i] < Window}) >= Threshold
  BY <1>3, <1>4, <1>8, AfterFailure
<1>10. ASSUME NEW r, routes' = [routes EXCEPT ![c] = r], NEW p \in Providers, p \notin leaked',
              after[p].trials > 0
       PROVE  \E d \in Calls : (InFlight(d) /\ routes[d].trial /\ ProviderOf(d) = p)'
  <2>1. p # q
    BY <1>9, <1>10
  <2>2. p \notin leaked /\ breaker[p].trials > 0
    BY <1>4, <1>9, <1>10, <2>1
  <2> QED
    BY <1>1, <1>2, <1>10, <2>1, <2>2, OthersTry
<1>11. CASE HasRetry(routes[c])
  <2>1. PICK r : r = [routes[c] EXCEPT !.stage = "sleeping", !.trial = FALSE]
    OBVIOUS
  <2>2. routes' = [routes EXCEPT ![c] = r] /\ breaker' = after /\ tried' = tried
    BY <1>4, <1>11, <2>1
  <2>3. r = [stage |-> "sleeping", kind |-> routes[c].kind, chain |-> routes[c].chain,
             candidate |-> routes[c].candidate, attempt |-> routes[c].attempt,
             yielded |-> routes[c].yielded, trial |-> FALSE]
    BY <1>5, <2>1 DEF Route
  <2>4. r \in Route
    BY <1>4, <1>5, <1>6, <2>3 DEF Route
  <2>5. CallShapes'
    BY <1>1, <1>4, <1>9, <2>2, <2>4 DEF CallShapes
  <2>6. RouteFits(r, streamed[c], tried[c])
    <3>1. routes[c].attempt + 1 <= MaxTries
      BY <1>11 DEF HasRetry
    <3>2. MaxTries \in Nat
      BY DEF CallConstants
    <3> QED
      BY <1>4, <1>6, <1>7, <2>3, <3>1, <3>2 DEF RouteFits
  <2>7. \A d \in Calls : RouteFits(routes'[d], streamed'[d], tried'[d])
    BY <1>1, <1>4, <2>2, <2>6 DEF CallShapes
  <2>8. TrialsGoOn'
    BY <1>10, <2>2 DEF TrialsGoOn
  <2>9. OpensForCause
    BY <1>9, <2>2 DEF OpensForCause
  <2> QED
    BY <1>4, <1>9, <2>2, <2>5, <2>7, <2>8, <2>9 DEF CallsInv
<1>12. CASE ~HasRetry(routes[c])
  <2>1. PICK came : came = Append(tried[c], "fallback")
    OBVIOUS
  <2>2. /\ came \in Seq(Came) /\ Len(came) = routes[c].candidate + 1 - 1
        /\ \A i \in 1 .. Len(came) : came[i] # "success"
    <3>1. "fallback" \in Came
      BY DEF Came
    <3>2. PICK l \in Nat : l = Len(tried[c])
      BY <1>5
    <3>3. /\ came \in Seq(Came) /\ Len(came) = l + 1 /\ came[l + 1] = "fallback"
          /\ \A i \in 1 .. l : came[i] = tried[c][i]
      BY <1>5, <2>1, <3>1, <3>2
    <3>4. l = routes[c].candidate - 1 /\ \A i \in 1 .. l : tried[c][i] # "success"
      BY <1>7, <3>2
    <3>5. Len(came) = routes[c].candidate + 1 - 1
      BY <1>6, <3>3, <3>4
    <3>6. ASSUME NEW i \in 1 .. l + 1 PROVE came[i] # "success"
      <4>1. CASE i \in 1 .. l
        BY <3>3, <3>4, <4>1
      <4>2. CASE i = l + 1
        BY <3>3, <4>2
      <4> QED
        BY <4>1, <4>2
    <3> QED
      BY <3>3, <3>5, <3>6
  <2>3. GoOn(c, routes[c], routes[c].candidate + 1, after, came)
    BY <1>4, <1>12, <2>1
  <2>10. PICK fs : fs = failed'
    OBVIOUS
  <2>11. PICK from \in 1 .. Len(routes[c].chain) + 1 : from = routes[c].candidate + 1
    BY <1>6, <1>7
  <2>4. PICK r, ts : GoneOn(c, r, ts, after, fs)
    <3>1. /\ GoOn(c, routes[c], from, after, came) /\ Len(came) = from - 1
          /\ routes[c].candidate <= Len(routes[c].chain)
      BY <1>6, <1>7, <2>2, <2>3, <2>11
    <3>2. time \in Nat
      BY <1>1 DEF CallShapes
    <3>3. \A p \in Providers : EntryFits(after[p], time) /\ EntryRecalls(after[p], fs[p])
      BY <1>9, <2>10
    <3>4. after \in [Providers -> BreakerEntry] /\ came \in Seq(Came) /\ routes[c] \in Route
          /\ \A i \in 1 .. Len(came) : came[i] # "success"
      BY <1>5, <1>9, <2>2
    <3> QED
      BY <3>1, <3>2, <3>3, <3>4, GoOnFacts
  <2>5. /\ r \in Route /\ ts \in Seq(Came)
        /\ routes' = [routes EXCEPT ![c] = r] /\ tried' = [tried EXCEPT ![c] = ts]
        /\ RouteFits(r, {}, ts) /\ breaker' \in [Providers -> BreakerEntry]
        /\ \A p \in Providers :
             /\ EntryFits(breaker'[p], time) /\ EntryRecalls(breaker'[p], failed'[p])
             /\ breaker'[p].openedAt = after[p].openedAt
             /\ breaker'[p].trials > 0 =>
                  after[p].trials > 0
                    \/ (r.stage = "calling" /\ r.trial /\ r.chain[r.candidate] = p)
    BY <2>4, <2>10 DEF GoneOn
  <2>6. CallShapes'
    BY <1>1, <1>4, <1>9, <2>5 DEF CallShapes
  <2>7. \A d \in Calls : RouteFits(routes'[d], streamed'[d], tried'[d])
    <3>1. /\ routes'[c] = r /\ tried'[c] = ts /\ streamed'[c] = {}
          /\ \A d \in Calls \ {c} : routes'[d] = routes[d] /\ tried'[d] = tried[d]
                                    /\ streamed'[d] = streamed[d]
      BY <1>1, <1>4, <1>7, <2>5 DEF CallShapes
    <3>2. ASSUME NEW d \in Calls PROVE RouteFits(routes'[d], streamed'[d], tried'[d])
      <4>1. CASE d = c
        BY <2>5, <3>1, <4>1
      <4>2. CASE d # c
        <5>1. RouteFits(routes[d], streamed[d], tried[d])
          BY <1>1
        <5> QED
          BY <3>1, <4>2, <5>1
      <4> QED
        BY <4>1, <4>2
    <3> QED
      BY <3>2
  <2>8. TrialsGoOn'
    <3> SUFFICES ASSUME NEW p \in Providers, p \notin leaked', breaker'[p].trials > 0
                 PROVE  \E d \in Calls : (InFlight(d) /\ routes[d].trial /\ ProviderOf(d) = p)'
      BY DEF TrialsGoOn
    <3>1. CASE r.stage = "calling" /\ r.trial /\ r.chain[r.candidate] = p
      <4>1. routes'[c] = r
        BY <1>1, <2>5 DEF CallShapes
      <4> QED
        BY <3>1, <4>1 DEF InFlight, ProviderOf
    <3>2. CASE ~(r.stage = "calling" /\ r.trial /\ r.chain[r.candidate] = p)
      <4>1. after[p].trials > 0
        BY <2>5, <3>2
      <4> QED
        BY <1>10, <2>5, <4>1
    <3> QED
      BY <3>1, <3>2
  <2>9. OpensForCause
    BY <1>9, <2>5 DEF OpensForCause
  <2> QED
    BY <1>4, <2>5, <2>6, <2>7, <2>8, <2>9 DEF CallsInv
<1> QED
  BY <1>11, <1>12

\* A delay ends in another attempt, which the policy has counted on.
LEMMA WakesKeeps ==
  ASSUME CallConstants, CallsInv, NEW c \in Calls, Wakes(c)
  PROVE  CallsInv' /\ OpensForCause
<1>1. /\ CallShapes /\ TrialsGoOn
      /\ \A p \in Providers : EntryFits(breaker[p], time) /\ EntryRecalls(breaker[p], failed[p])
      /\ \A d \in Calls : RouteFits(routes[d], streamed[d], tried[d])
  BY DEF CallsInv
<1>2. PICK r : r = Retried(routes[c])
  OBVIOUS
<1>3. /\ routes[c].stage = "sleeping" /\ routes' = [routes EXCEPT ![c] = r]
      /\ time' = time /\ breaker' = breaker /\ failed' = failed /\ streamed' = streamed
      /\ tried' = tried /\ leaked' = leaked
  BY <1>2 DEF Wakes
<1>4. routes[c] \in Route /\ RouteFits(routes[c], streamed[c], tried[c])
  BY <1>1 DEF CallShapes
<1>5. r = [stage |-> "calling", kind |-> routes[c].kind, chain |-> routes[c].chain,
           candidate |-> routes[c].candidate, attempt |-> routes[c].attempt + 1,
           yielded |-> FALSE, trial |-> routes[c].trial]
  BY <1>2, <1>4 DEF Route, Retried
<1>6. r \in Route
  BY <1>4, <1>5 DEF Route
<1>7. RouteFits(r, streamed[c], tried[c])
  BY <1>3, <1>4, <1>5 DEF RouteFits
<1>8. CallShapes'
  BY <1>1, <1>3, <1>6 DEF CallShapes
<1>9. \A d \in Calls : RouteFits(routes'[d], streamed'[d], tried'[d])
  BY <1>1, <1>3, <1>7 DEF CallShapes
<1>10. TrialsGoOn'
  <2> SUFFICES ASSUME NEW p \in Providers, p \notin leaked', breaker'[p].trials > 0
               PROVE  \E d \in Calls : (InFlight(d) /\ routes[d].trial /\ ProviderOf(d) = p)'
    BY DEF TrialsGoOn
  <2>1. p \notin leaked /\ breaker[p].trials > 0 /\ ~InFlight(c)
    BY <1>3 DEF InFlight
  <2> QED
    BY <1>1, <1>3, <2>1, OthersTry
<1>11. OpensForCause
  BY <1>3 DEF OpensForCause
<1> QED
  BY <1>1, <1>3, <1>8, <1>9, <1>10, <1>11 DEF CallsInv

\* What has cooled down stays so.
LEMMA InstantPassesKeeps ==
  ASSUME CallConstants, CallsInv, InstantPasses
  PROVE  CallsInv' /\ OpensForCause
<1>1. /\ CallShapes /\ TrialsGoOn
      /\ \A p \in Providers : EntryFits(breaker[p], time) /\ EntryRecalls(breaker[p], failed[p])
      /\ \A d \in Calls : RouteFits(routes[d], streamed[d], tried[d])
  BY DEF CallsInv
<1>2. /\ time' = time + 1 /\ time < MaxInstant
      /\ breaker' = breaker /\ routes' = routes /\ failed' = failed /\ streamed' = streamed
      /\ tried' = tried /\ leaked' = leaked
  BY DEF InstantPasses
<1>3. time \in Nat /\ MaxInstant \in Nat /\ Cooldown \in Nat
  BY <1>1 DEF CallShapes, CallConstants
<1>4. ASSUME NEW p \in Providers PROVE EntryFits(breaker'[p], time')
  <2>1. /\ EntryFits(breaker[p], time) /\ breaker[p].openedAt \in Nat
        /\ breaker[p].failures \in Seq(Nat)
    BY <1>1 DEF CallShapes, BreakerEntry
  <2>2. breaker'[p] = breaker[p] /\ time' = time + 1
    BY <1>2
  <2>3. PICK e : e = breaker[p]
    OBVIOUS
  <2>4. e.openedAt \in Nat /\ EntryFits(e, time)
    BY <2>1, <2>3
  <2>5. PICK t \in Nat : t = time'
    BY <1>3, <2>2
  <2>6. ASSUME NEW i \in 1 .. Len(e.failures) PROVE e.failures[i] \in 1 .. t
    <3>1. e.failures[i] \in 1 .. time
      BY <2>4 DEF EntryFits
    <3> QED
      BY <1>3, <2>2, <2>5, <3>1
  <2>7. e.openedAt <= t
    <3>1. e.openedAt <= time
      BY <2>4 DEF EntryFits
    <3> QED
      BY <1>3, <2>2, <2>4, <2>5, <3>1
  <2>8. e.trials > 0 => e.openedAt # Never /\ t - e.openedAt >= Cooldown
    <3>1. e.trials > 0 => e.openedAt # Never /\ time - e.openedAt >= Cooldown
      BY <2>4 DEF EntryFits
    <3> QED
      BY <1>3, <2>2, <2>4, <2>5, <3>1
  <2>9. Len(e.failures) < Threshold /\ e.trials <= TrialCalls
    BY <2>4 DEF EntryFits
  <2>10. EntryFits(e, t)
    BY <2>6, <2>7, <2>8, <2>9 DEF EntryFits
  <2> QED
    BY <2>2, <2>3, <2>5, <2>10
<1>5. CallShapes'
  BY <1>1, <1>2, <1>3 DEF CallShapes
<1>6. TrialsGoOn'
  BY <1>1, <1>2 DEF TrialsGoOn, InFlight, ProviderOf
<1>7. OpensForCause
  BY <1>2 DEF OpensForCause
<1> QED
  BY <1>1, <1>2, <1>4, <1>5, <1>6, <1>7 DEF CallsInv

LEMMA CallsStep ==
  ASSUME CallConstants, CallsInv, [CallsNext]_callVars
  PROVE  CallsInv' /\ (OpensForCause \/ UNCHANGED callVars)
<1>1. CASE UNCHANGED callVars
  <2>1. CallsInv'
    BY <1>1 DEF CallsInv, CallShapes, TrialsGoOn, InFlight, ProviderOf, callVars
  <2> QED
    BY <1>1, <2>1
<1>2. CASE InstantPasses
  BY <1>2, InstantPassesKeeps
<1>3. ASSUME NEW c \in Calls,
             Begin(c) \/ Yields(c) \/ Succeeds(c) \/ Throws(c) \/ Abandons(c) \/ Fails(c)
               \/ Wakes(c)
      PROVE  CallsInv' /\ OpensForCause
  <2>1. CASE Throws(c)
    BY <2>1, EndsUnrecordedKeeps DEF Throws
  <2>2. CASE Abandons(c)
    BY <2>2, EndsUnrecordedKeeps DEF Abandons
  <2> QED
    BY <1>3, <2>1, <2>2, RequestKeeps, YieldsKeeps, SucceedsKeeps, FailsKeeps, WakesKeeps
<1> QED
  BY <1>1, <1>2, <1>3 DEF CallsNext

-------------------------------------------------------------------------------
(* What follows for the calls.                                               *)

\* The invariant: a breaker remembers, while it is closed, the last failures since
\* its provider answered, and what it lets in are trials that are underway.
THEOREM CallsInvariance ==
  ASSUME CallConstants
  PROVE  CallsSpec => []CallsInv /\ [][OpensForCause]_callVars
<1>1. CallsInit => CallsInv
  BY CallsBegin
<1>2. CallsInv /\ [CallsNext]_callVars => CallsInv' /\ [OpensForCause]_callVars
  BY CallsStep
<1> QED
  BY <1>1, <1>2, PTL DEF CallsSpec

\* Calls keep their types: a breaker remembers fewer failures than open it, a
\* provider has no more trials than it may have, and a call makes no more attempts
\* than the policy allows.
THEOREM CallsTypeCorrect ==
  ASSUME CallConstants
  PROVE  CallsSpec => []CallsTypeOK
<1>1. CallsInv => CallsTypeOK
  <2> SUFFICES ASSUME CallsInv
               PROVE  CallsTypeOK
    OBVIOUS
  <2>1. /\ time \in 1 .. MaxInstant /\ MaxInstant \in Nat
        /\ breaker \in [Providers -> BreakerEntry] /\ routes \in [Calls -> Route]
        /\ MaxTries \in Nat /\ TrialCalls \in Nat
    BY DEF CallsInv, CallShapes, CallConstants
  <2>2. ASSUME NEW p \in Providers
        PROVE  /\ breaker[p].failures \in Seq(1 .. MaxInstant)
               /\ Len(breaker[p].failures) < Threshold
               /\ breaker[p].openedAt \in 0 .. MaxInstant /\ breaker[p].trials \in 0 .. TrialCalls
    <3>1. EntryFits(breaker[p], time) /\ breaker[p] \in BreakerEntry
      BY <2>1 DEF CallsInv
    <3>2. /\ breaker[p].failures \in Seq(Nat) /\ breaker[p].openedAt \in Nat
          /\ breaker[p].trials \in Nat
      BY <3>1 DEF BreakerEntry
    <3>3. \A i \in 1 .. Len(breaker[p].failures) : breaker[p].failures[i] \in 1 .. MaxInstant
      BY <2>1, <3>1, <3>2 DEF EntryFits
    <3>4. breaker[p].failures \in Seq(1 .. MaxInstant)
      <4>1. PICK s \in Seq(Nat) : s = breaker[p].failures
        BY <3>2
      <4>2. \A i \in 1 .. Len(s) : s[i] \in 1 .. MaxInstant
        BY <3>3, <4>1
      <4>3. s \in Seq(1 .. MaxInstant)
        <5>1. PICK T : T = 1 .. MaxInstant
          OBVIOUS
        <5>2. PICK l \in Nat : l = Len(s)
          OBVIOUS
        <5>3. \A i \in 1 .. l : s[i] \in T
          BY <4>2, <5>1, <5>2
        <5>4. s \in [1 .. l -> T]
          BY <5>2, <5>3
        <5>5. s \in Seq(T)
          BY <5>2, <5>4
        <5> QED
          BY <5>1, <5>5
      <4> QED
        BY <4>1, <4>3
    <3> QED
      BY <2>1, <3>1, <3>2, <3>4 DEF EntryFits
  <2>3. ASSUME NEW c \in Calls
        PROVE  /\ routes[c].stage \in {"idle", "calling", "sleeping"} \cup Over
               /\ routes[c].attempt \in 0 .. MaxTries
               /\ routes[c].candidate \in 0 .. Len(routes[c].chain)
    <3>1. RouteFits(routes[c], streamed[c], tried[c]) /\ routes[c] \in Route
      BY <2>1 DEF CallsInv
    <3>2. /\ routes[c].stage \in {"idle", "calling", "sleeping"} \cup Over
          /\ routes[c].attempt \in Nat /\ routes[c].candidate \in Nat
          /\ routes[c].chain \in Seq(Providers)
      BY <3>1 DEF Route
    <3> QED
      BY <2>1, <3>1, <3>2 DEF RouteFits
  <2> QED
    BY <2>1, <2>2, <2>3 DEF CallsTypeOK
<1> QED
  BY <1>1, CallsInvariance, PTL

\* Whoever asked for a stream is given the events of one attempt, whichever fail.
THEOREM OneAttemptIsStreamed ==
  ASSUME CallConstants
  PROVE  CallsSpec => []OneAttemptStreamed
<1>1. CallsInv => OneAttemptStreamed
  <2> SUFFICES ASSUME CallsInv, NEW c \in Calls
               PROVE  Cardinality(streamed[c]) <= 1
    BY DEF OneAttemptStreamed
  <2>1. streamed[c] = {} \/ \E x : streamed[c] = {x}
    BY DEF CallsInv, RouteFits
  <2> QED
    BY <2>1, FS_EmptySet, FS_Singleton
<1> QED
  BY <1>1, CallsInvariance, PTL

\* A call gives up on a chain it has tried, and answers from the model it came to.
THEOREM ChainsAreTriedInFull ==
  ASSUME CallConstants
  PROVE  CallsSpec => []TriedInFull
<1>1. CallsInv => TriedInFull
  <2> SUFFICES ASSUME CallsInv, NEW c \in Calls
               PROVE  /\ routes[c].stage = "exhausted" =>
                           /\ Len(tried[c]) = Len(routes[c].chain)
                           /\ "success" \notin ToSet(tried[c])
                      /\ routes[c].stage = "answered" => Len(tried[c]) = routes[c].candidate
    BY DEF TriedInFull
  <2>1. RouteFits(routes[c], streamed[c], tried[c]) /\ tried[c] \in Seq(Came)
    BY DEF CallsInv, CallShapes
  <2> QED
    BY <2>1 DEF RouteFits, ToSet
<1> QED
  BY <1>1, CallsInvariance, PTL

\* A provider that has cooled down and lets nobody in is being tried, unless its
\* trial ended in an error nobody recorded.
THEOREM RefusedWhileTried ==
  ASSUME CallConstants
  PROVE  CallsSpec => []TriedWhileRefused
<1>1. CallsInv => TriedWhileRefused
  <2> SUFFICES ASSUME CallsInv, NEW p \in Providers \ leaked,
                      State(breaker[p]) = "half_open", ~CanRequest(breaker[p])
               PROVE  \E c \in Calls : InFlight(c) /\ routes[c].trial /\ ProviderOf(c) = p
    BY DEF TriedWhileRefused
  <2>1. breaker[p].trials \in Nat /\ TrialCalls \in Nat \ {0} /\ TrialsGoOn
    BY DEF CallsInv, CallShapes, BreakerEntry, CallConstants
  <2>2. breaker[p].trials > 0
    BY <2>1 DEF CanRequest
  <2> QED
    BY <2>1, <2>2 DEF TrialsGoOn
<1> QED
  BY <1>1, CallsInvariance, PTL

\* All of it, as the runs check it: and a provider is opened only by as many
\* failures within the window, with no answer between them.
THEOREM CallsAreRouted ==
  ASSUME CallConstants
  PROVE  CallsSpec => CallsHold
<1>1. CallsSpec => [][OpensForCause]_callVars
  BY CallsInvariance
<1> QED
  BY <1>1, CallsTypeCorrect, OneAttemptIsStreamed, ChainsAreTriedInFull, RefusedWhileTried,
     PTL DEF CallsHold
===============================================================================
