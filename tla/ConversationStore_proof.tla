----------------------- MODULE ConversationStore_proof -----------------------
(***************************************************************************)
(* Theorems about ConversationStore: the types, and, for users who let a   *)
(* command finish before they act on what it works on, that attachments    *)
(* outlive the messages that refer to them and that every prompt reaches   *)
(* the model again.                                                        *)
(*                                                                         *)
(* The first part is about filter, a recursive function over the messages: *)
(* what it keeps stays in its order, and a beginning without the filtered  *)
(* kind stays in its place.  The inductive invariant has three parts.      *)
(* Base: the types, and that a run works on the active conversation.       *)
(* BlobsSound: what is used, on disk too, is stored or unwanted, what the  *)
(* input field holds is used nowhere else, and what is being removed is    *)
(* unwanted.  SummariesSound: a summary, pending ones too, ends right      *)
(* before a prompt, covers the prompts it replaces and replaces nothing    *)
(* that a filter drops later.                                              *)
(***************************************************************************)
EXTENDS ConversationStore, FiniteSetTheorems, WellFoundedInduction, TLAPS

\* The least element; induction over the places of a message goes by it.
LEMMA Smallest ==
  ASSUME NEW S \in SUBSET Nat, S # {}
  PROVE  \E n \in S : \A m \in S : n <= m
<1> DEFINE less == {ss \in Nat \X Nat : ss[1] < ss[2]}
<1>1. IsWellFoundedOn(less, Nat)
  BY NatLessThanWellFounded DEF OpToRel
<1>2. PICK n \in S : \A m \in S : ~(<<m, n>> \in less)
  BY <1>1, WFMin
<1>3. ASSUME NEW m \in S PROVE n <= m
  <2>1. n \in Nat /\ m \in Nat
    OBVIOUS
  <2>2. ~(m < n)
    BY <1>2, <2>1
  <2> QED
    BY <2>1, <2>2
<1> QED
  BY <1>3

-----------------------------------------------------------------------------
(* filter.                                                                  *)

Step(kind, m, rest) == IF m.kind = kind THEN rest ELSE Append(rest, m)

Keeps(f, kind, messages, n) ==
  f = [i \in 0..n |-> IF i = 0 THEN <<>> ELSE Step(kind, messages[i], f[i - 1])]

LEMMA KeepsExists ==
  ASSUME NEW kind, NEW messages, NEW n \in Nat
  PROVE  \E f : Keeps(f, kind, messages, n)
<1> DEFINE S == {i \in Nat : ~\E f : Keeps(f, kind, messages, i)}
<1> SUFFICES ASSUME S # {} PROVE FALSE
  OBVIOUS
<1>1. PICK i \in S : \A j \in S : i <= j
  BY Smallest
<1>2. i \in Nat /\ ~\E f : Keeps(f, kind, messages, i)
  OBVIOUS
<1>3. CASE i = 0
  <2> DEFINE f == [j \in 0..0 |-> <<>>]
  <2>1. f = [j \in 0..0 |-> IF j = 0 THEN <<>> ELSE Step(kind, messages[j], f[j - 1])]
    OBVIOUS
  <2>2. Keeps(f, kind, messages, 0)
    BY <2>1 DEF Keeps
  <2> QED
    BY <1>2, <1>3, <2>2
<1>4. CASE i # 0
  <2>1. i - 1 \in Nat /\ i - 1 \notin S
    BY <1>1, <1>2, <1>4
  <2>2. PICK g : Keeps(g, kind, messages, i - 1)
    BY <2>1
  <2> DEFINE f == [j \in 0..i |-> IF j = i THEN Step(kind, messages[i], g[i - 1]) ELSE g[j]]
  <2>3. ASSUME NEW j \in 0..i
        PROVE  f[j] = IF j = 0 THEN <<>> ELSE Step(kind, messages[j], f[j - 1])
    <3>1. CASE j = i
      BY <1>2, <1>4, <3>1
    <3>2. CASE j # i
      <4>1. j \in 0..(i - 1)
        BY <1>2, <3>2
      <4>2. g[j] = IF j = 0 THEN <<>> ELSE Step(kind, messages[j], g[j - 1])
        BY <2>2, <4>1 DEF Keeps
      <4>3. j # 0 => f[j - 1] = g[j - 1]
        BY <1>2, <4>1
      <4> QED
        BY <3>2, <4>2, <4>3
    <3> QED
      BY <3>1, <3>2
  <2>4. Keeps(f, kind, messages, i)
    BY <2>3 DEF Keeps
  <2> QED
    BY <1>2, <2>4
<1> QED
  BY <1>3, <1>4

\* What is left of the first n messages: t holds them in their order, h says
\* where each comes from, and nothing before the first dropped one moves.
Selects(t, h, kind, messages, n) ==
  /\ t \in Seq(Message) /\ Len(t) <= n
  /\ h \in [1..Len(t) -> 1..n]
  /\ \A i \in 1..Len(t) : t[i] = messages[h[i]] /\ messages[h[i]].kind # kind
  /\ \A i, j \in 1..Len(t) : i < j => h[i] < h[j]
  /\ \A k \in 0..n : (\A i \in 1..k : messages[i].kind # kind) =>
       k <= Len(t) /\ \A i \in 1..k : h[i] = i

LEMMA SelectsNext ==
  ASSUME NEW kind, NEW messages, NEW n \in Nat, messages[n + 1] \in Message,
         NEW t, NEW h, Selects(t, h, kind, messages, n)
  PROVE  \E g : Selects(Step(kind, messages[n + 1], t), g, kind, messages, n + 1)
<1> DEFINE m == messages[n + 1]
<1>1. CASE m.kind = kind
  <2>1. Step(kind, m, t) = t
    BY <1>1 DEF Step
  <2>2. Selects(t, h, kind, messages, n + 1)
    <3>1. t \in Seq(Message) /\ Len(t) \in Nat /\ Len(t) <= n
      BY DEF Selects
    <3>2. h \in [1..Len(t) -> 1..(n + 1)]
      BY <3>1 DEF Selects
    <3>3. ASSUME NEW k \in 0..(n + 1), \A i \in 1..k : messages[i].kind # kind
          PROVE  k <= Len(t) /\ \A i \in 1..k : h[i] = i
      <4>1. k # n + 1
        BY <1>1, <3>3
      <4>2. k \in 0..n
        BY <4>1
      <4> QED
        BY <3>3, <4>2 DEF Selects
    <3> QED
      BY <3>1, <3>2, <3>3 DEF Selects
  <2> QED
    BY <2>1, <2>2
<1>2. CASE m.kind # kind
  <2> DEFINE u == Append(t, m)
             l == Len(t)
             g == [i \in 1..(l + 1) |-> IF i = l + 1 THEN n + 1 ELSE h[i]]
  <2>1. Step(kind, m, t) = u
    BY <1>2 DEF Step
  <2>2. t \in Seq(Message) /\ l \in Nat /\ l <= n
    BY DEF Selects
  <2>3. /\ u \in Seq(Message) /\ Len(u) = l + 1 /\ u[l + 1] = m
        /\ \A i \in 1..l : u[i] = t[i]
    BY <2>2
  <2>4. /\ \A i \in 1..(l + 1) : i = l + 1 \/ (i \in 1..l /\ i # l + 1)
        /\ \A i \in 1..l : h[i] \in 1..n /\ t[i] = messages[h[i]] /\ messages[h[i]].kind # kind
        /\ \A i, j \in 1..l : i < j => h[i] < h[j]
        /\ \A k \in 0..n : (\A i \in 1..k : messages[i].kind # kind) =>
             k <= l /\ \A i \in 1..k : h[i] = i
    BY <2>2 DEF Selects
  <2>5. g[l + 1] = n + 1 /\ \A i \in 1..l : g[i] = h[i]
    BY <2>2
  <2>6. g \in [1..(l + 1) -> 1..(n + 1)]
    <3>1. \A i \in 1..(l + 1) : g[i] \in 1..(n + 1)
      BY <2>4, <2>5
    <3> QED
      BY <3>1
  <2> HIDE DEF u, l, g, m
  <2>7. \A i \in 1..(l + 1) : u[i] = messages[g[i]] /\ messages[g[i]].kind # kind
    BY <1>2, <2>3, <2>4, <2>5 DEF m
  <2>8. ASSUME NEW i \in 1..(l + 1), NEW j \in 1..(l + 1), i < j PROVE g[i] < g[j]
    <3>1. i \in 1..l
      BY <2>2, <2>8
    <3>2. h[i] \in 1..n
      BY <2>4, <3>1
    <3> QED
      BY <2>4, <2>5, <2>8, <3>1, <3>2
  <2>9. ASSUME NEW k \in 0..(n + 1), \A i \in 1..k : messages[i].kind # kind
        PROVE  k <= l + 1 /\ \A i \in 1..k : g[i] = i
    <3>1. CASE k = n + 1
      <4>1. n \in 0..n /\ \A i \in 1..n : messages[i].kind # kind
        BY <2>9, <3>1
      <4>2. n <= l /\ \A i \in 1..n : h[i] = i
        BY <2>4, <4>1
      <4>3. n = l
        BY <2>2, <4>2
      <4> QED
        BY <2>2, <2>4, <2>5, <3>1, <4>2, <4>3
    <3>2. CASE k # n + 1
      <4>1. k \in 0..n
        BY <3>2
      <4>2. k <= l /\ \A i \in 1..k : h[i] = i
        BY <2>4, <2>9, <4>1
      <4> QED
        BY <2>2, <2>5, <4>1, <4>2
    <3> QED
      BY <3>1, <3>2
  <2>10. Selects(u, g, kind, messages, n + 1)
    BY <2>2, <2>3, <2>6, <2>7, <2>8, <2>9 DEF Selects
  <2> QED
    BY <2>1, <2>10 DEF m
<1> QED
  BY <1>1, <1>2

\* filter keeps some messages, in their order.
LEMMA Filtered ==
  ASSUME NEW kind, NEW messages \in Seq(Message)
  PROVE  \E h : Selects(Without(kind, messages), h, kind, messages, Len(messages))
<1> DEFINE n == Len(messages)
           kept == CHOOSE f : Keeps(f, kind, messages, n)
<1>1. n \in Nat /\ \A i \in 1..n : messages[i] \in Message
  OBVIOUS
<1>2. Keeps(kept, kind, messages, n)
  BY <1>1, KeepsExists
<1>3. Without(kind, messages) = kept[n]
  BY DEF Without, Keeps, Step
<1> DEFINE Good(i) == \E h : Selects(kept[i], h, kind, messages, i)
           S == {i \in Nat : i <= n /\ ~Good(i)}
<1> HIDE DEF kept, n
<1>4. ASSUME S # {} PROVE FALSE
  <2>1. PICK i \in S : \A j \in S : i <= j
    BY <1>4, Smallest
  <2>2. i \in Nat /\ i <= n /\ ~Good(i)
    BY <2>1
  <2>3. kept[0] = <<>> /\ \A j \in 1..n : kept[j] = Step(kind, messages[j], kept[j - 1])
    BY <1>1, <1>2 DEF Keeps
  <2>4. CASE i = 0
    <3> DEFINE h == [j \in 1..0 |-> 1]
    <3>1. <<>> \in Seq(Message) /\ Len(<<>>) = 0
      OBVIOUS
    <3>2. Selects(<<>>, h, kind, messages, 0)
      BY <3>1 DEF Selects
    <3> QED
      BY <2>2, <2>3, <2>4, <3>2
  <2>5. CASE i # 0
    <3>1. i - 1 \in Nat /\ i - 1 <= n /\ i - 1 \notin S /\ i \in 1..n /\ (i - 1) + 1 = i
      BY <1>1, <2>1, <2>2, <2>5
    <3>2. Good(i - 1)
      BY <3>1
    <3>3. PICK h : Selects(kept[i - 1], h, kind, messages, i - 1)
      BY <3>2
    <3>4. messages[(i - 1) + 1] \in Message
      BY <1>1, <3>1
    <3>5. \E g : Selects(Step(kind, messages[(i - 1) + 1], kept[i - 1]), g, kind, messages,
                         (i - 1) + 1)
      <4> DEFINE p == i - 1
      <4>1. p \in Nat /\ messages[p + 1] \in Message /\ Selects(kept[p], h, kind, messages, p)
        BY <3>1, <3>3, <3>4
      <4> HIDE DEF p
      <4>2. \E g : Selects(Step(kind, messages[p + 1], kept[p]), g, kind, messages, p + 1)
        BY <4>1, SelectsNext
      <4> QED
        BY <4>2 DEF p
    <3> QED
      BY <2>2, <2>3, <3>1, <3>5
  <2> QED
    BY <2>4, <2>5
<1>5. Good(n)
  BY <1>1, <1>4
<1> QED
  BY <1>3, <1>5 DEF n

LEMMA Largest ==
  ASSUME NEW n \in Nat, NEW S \in SUBSET (1..n), S # {}
  PROVE  \E i \in S : \A j \in S : j <= i
<1> DEFINE T == {d \in Nat : n - d \in S}
<1>1. T # {}
  <2>1. PICK i \in S : TRUE
    OBVIOUS
  <2>2. n - i \in Nat /\ n - (n - i) = i
    OBVIOUS
  <2> QED
    BY <2>1, <2>2
<1>2. PICK d \in T : \A e \in T : d <= e
  BY <1>1, Smallest
<1>3. ASSUME NEW j \in S PROVE j <= n - d
  <2>1. n - j \in Nat /\ n - (n - j) = j
    OBVIOUS
  <2>2. d <= n - j
    BY <1>2, <2>1
  <2> QED
    BY <2>2
<1> QED
  BY <1>3

-----------------------------------------------------------------------------
(* The messages of a conversation.                                          *)

\* Errors come after every prompt: the next prompt drops them.
ErrorsLast(m) == \A i, j \in DOMAIN m : m[i].kind = "error" /\ IsPrompt(m[j]) => j < i

\* A summary ends right before a prompt; what it replaces is not filtered out
\* any more, and the prompts among it are covered.
Stands(m, s) == s.from = 0 \/
  /\ s.from < Len(m) /\ IsPrompt(m[s.from + 1])
  /\ \A i \in 1..s.from : /\ m[i].kind \notin {"error", "memory"}
                          /\ IsPrompt(m[i]) => m[i].prompt \in s.covered

ConvSound(conv) == ErrorsLast(conv.messages) /\ Stands(conv.messages, conv.summary)

LEMMA MessageTyped ==
  ASSUME NEW m \in Seq(Message)
  PROVE  /\ DOMAIN m = 1..Len(m) /\ Len(m) \in Nat
         /\ \A i \in DOMAIN m : /\ m[i] \in Message
                                /\ IsPrompt(m[i]) => m[i].prompt \in Prompts
                                                       /\ m[i].atts \subseteq Attachments
BY DEF Message, IsPrompt, Kinds

LEMMA AttachmentsOf ==
  ASSUME NEW m \in Seq(Message), NEW a
  PROVE  a \in AttachmentIds(m) <=> \E i \in DOMAIN m : IsPrompt(m[i]) /\ a \in m[i].atts
BY DEF AttachmentIds, ElementsOf

LEMMA AttachmentsTyped ==
  ASSUME NEW m \in Seq(Message)
  PROVE  AttachmentIds(m) \subseteq Attachments
BY AttachmentsOf, MessageTyped

LEMMA FilterTyped ==
  ASSUME NEW kind, NEW m \in Seq(Message)
  PROVE  /\ Without(kind, m) \in Seq(Message) /\ Len(Without(kind, m)) <= Len(m)
         /\ \A i \in DOMAIN Without(kind, m) : /\ Without(kind, m)[i].kind # kind
                                              /\ \E j \in DOMAIN m : Without(kind, m)[i] = m[j]
<1> DEFINE t == Without(kind, m)
<1>1. PICK h : Selects(t, h, kind, m, Len(m))
  BY Filtered
<1> HIDE DEF t
<1>2. t \in Seq(Message) /\ Len(t) <= Len(m)
  BY <1>1 DEF Selects
<1>3. ASSUME NEW i \in DOMAIN t PROVE t[i].kind # kind /\ \E j \in DOMAIN m : t[i] = m[j]
  <2>1. i \in 1..Len(t) /\ h[i] \in DOMAIN m
    BY <1>1, <1>2, MessageTyped DEF Selects
  <2> QED
    BY <1>1, <2>1 DEF Selects
<1> QED
  BY <1>2, <1>3 DEF t

LEMMA FilterAttachments ==
  ASSUME NEW kind, NEW m \in Seq(Message)
  PROVE  AttachmentIds(Without(kind, m)) \subseteq AttachmentIds(m)
BY FilterTyped, AttachmentsOf

LEMMA FilterErrorsLast ==
  ASSUME NEW kind, NEW m \in Seq(Message), ErrorsLast(m)
  PROVE  ErrorsLast(Without(kind, m))
<1> DEFINE t == Without(kind, m)
<1>1. PICK h : Selects(t, h, kind, m, Len(m))
  BY Filtered
<1>2. t \in Seq(Message)
  BY FilterTyped
<1> HIDE DEF t
<1>3. ASSUME NEW i \in DOMAIN t, NEW j \in DOMAIN t, t[i].kind = "error", IsPrompt(t[j])
      PROVE  j < i
  <2>1. DOMAIN t = 1..Len(t) /\ Len(t) \in Nat
    BY <1>2, MessageTyped
  <2>2. h[i] \in DOMAIN m /\ h[j] \in DOMAIN m /\ t[i] = m[h[i]] /\ t[j] = m[h[j]]
    BY <1>1, <2>1, MessageTyped DEF Selects
  <2>3. h[j] < h[i]
    BY <1>3, <2>2 DEF ErrorsLast
  <2>4. i # j /\ ~(i < j)
    BY <1>1, <2>1, <2>2, <2>3, MessageTyped DEF Selects
  <2> QED
    BY <2>1, <2>4
<1> QED
  BY <1>3 DEF ErrorsLast, t

\* A filter that drops nothing of what a summary replaces leaves it in place.
LEMMA FilterStands ==
  ASSUME NEW kind, kind # "user", NEW m \in Seq(Message), NEW s \in Summary, Stands(m, s),
         s.from > 0 => \A i \in 1..s.from : m[i].kind # kind
  PROVE  /\ Stands(Without(kind, m), s)
         /\ \A i \in 1..s.from : Without(kind, m)[i] = m[i]
<1> DEFINE t == Without(kind, m)
           k == s.from + 1
<1>1. PICK h : Selects(t, h, kind, m, Len(m))
  BY Filtered
<1>2. t \in Seq(Message) /\ Len(m) \in Nat /\ s.from \in Nat
  BY FilterTyped, MessageTyped DEF Summary
<1> HIDE DEF t
<1>3. CASE s.from # 0
  <2>1. s.from < Len(m) /\ IsPrompt(m[k])
    BY <1>3 DEF Stands
  <2>2. k \in 0..Len(m) /\ \A i \in 1..k : m[i].kind # kind
    BY <1>2, <1>3, <2>1 DEF IsPrompt
  <2>3. k <= Len(t) /\ \A i \in 1..k : h[i] = i
    BY <1>1, <2>2 DEF Selects
  <2>4. \A i \in 1..k : t[i] = m[i]
    BY <1>1, <1>2, <2>3 DEF Selects
  <2>5. Len(t) \in Nat /\ s.from < Len(t) /\ s.from + 1 \in 1..k /\ \A i \in 1..s.from : i \in 1..k
    BY <1>2, <2>3
  <2>6. IsPrompt(t[s.from + 1])
    BY <2>1, <2>4, <2>5
  <2>7. \A i \in 1..s.from : t[i] = m[i]
    BY <2>4, <2>5
  <2> HIDE DEF k
  <2>8. Stands(t, s)
    BY <1>3, <2>5, <2>6, <2>7 DEF Stands
  <2> QED
    BY <2>7, <2>8 DEF t
<1>4. CASE s.from = 0
  <2>1. \A i \in 1..s.from : FALSE
    BY <1>4
  <2> QED
    BY <1>4, <2>1 DEF Stands
<1> QED
  BY <1>3, <1>4

LEMMA AppendFacts ==
  ASSUME NEW m \in Seq(Message), NEW e \in Message
  PROVE  /\ Append(m, e) \in Seq(Message) /\ Len(Append(m, e)) = Len(m) + 1 /\ Len(m) \in Nat
         /\ DOMAIN Append(m, e) = 1..(Len(m) + 1) /\ DOMAIN m = 1..Len(m)
         /\ \A i \in 1..(Len(m) + 1) : i \in 1..Len(m) \/ i = Len(m) + 1
         /\ \A i \in 1..Len(m) : Append(m, e)[i] = m[i] /\ i # Len(m) + 1
         /\ Append(m, e)[Len(m) + 1] = e
OBVIOUS

LEMMA AppendAttachments ==
  ASSUME NEW m \in Seq(Message), NEW e \in Message
  PROVE  /\ ~IsPrompt(e) => AttachmentIds(Append(m, e)) = AttachmentIds(m)
         /\ IsPrompt(e) => AttachmentIds(Append(m, e)) = AttachmentIds(m) \cup e.atts
<1> DEFINE u == Append(m, e)
           l == Len(m)
<1>1. /\ u \in Seq(Message) /\ DOMAIN u = 1..(l + 1) /\ DOMAIN m = 1..l /\ l \in Nat
      /\ \A i \in 1..(l + 1) : i \in 1..l \/ i = l + 1
      /\ \A i \in 1..l : u[i] = m[i]
      /\ u[l + 1] = e /\ l + 1 \in 1..(l + 1) /\ \A i \in 1..l : i \in 1..(l + 1)
  BY AppendFacts
<1> HIDE DEF u, l
<1>2. \A a : a \in AttachmentIds(u) <=>
        a \in AttachmentIds(m) \/ (IsPrompt(e) /\ a \in e.atts)
  BY <1>1, AttachmentsOf
<1> QED
  BY <1>2 DEF u

LEMMA AppendErrorsLast ==
  ASSUME NEW m \in Seq(Message), NEW e \in Message, ErrorsLast(m),
         IsPrompt(e) => \A i \in DOMAIN m : m[i].kind # "error"
  PROVE  ErrorsLast(Append(m, e))
<1> DEFINE u == Append(m, e)
           l == Len(m)
<1>1. /\ DOMAIN u = 1..(l + 1) /\ DOMAIN m = 1..l /\ l \in Nat
      /\ \A i \in 1..(l + 1) : i \in 1..l \/ i = l + 1
      /\ \A i \in 1..l : u[i] = m[i]
      /\ u[l + 1] = e
  BY AppendFacts
<1> HIDE DEF u, l
<1>2. ASSUME NEW i \in 1..(l + 1), NEW j \in 1..(l + 1), u[i].kind = "error", IsPrompt(u[j])
      PROVE  j < i
  <2>1. CASE j = l + 1
    BY <1>1, <1>2, <2>1 DEF IsPrompt
  <2>2. CASE j \in 1..l /\ i = l + 1
    BY <1>1, <2>2
  <2>3. CASE j \in 1..l /\ i \in 1..l
    BY <1>1, <1>2, <2>3 DEF ErrorsLast
  <2> QED
    BY <1>1, <2>1, <2>2, <2>3
<1> QED
  BY <1>1, <1>2 DEF ErrorsLast, u

LEMMA AppendStands ==
  ASSUME NEW m \in Seq(Message), NEW e \in Message, NEW s \in Summary, Stands(m, s)
  PROVE  Stands(Append(m, e), s)
<1> DEFINE u == Append(m, e)
           l == Len(m)
<1>1. /\ l \in Nat /\ \A i \in 1..l : u[i] = m[i]
      /\ Len(u) = l + 1 /\ s.from \in Nat
  BY AppendFacts DEF Summary
<1> HIDE DEF u, l
<1>2. CASE s.from # 0
  <2>1. s.from < l /\ IsPrompt(m[s.from + 1])
    BY <1>2 DEF Stands, l
  <2>2. s.from + 1 \in 1..l /\ \A i \in 1..s.from : i \in 1..l
    BY <1>1, <2>1
  <2> QED
    BY <1>1, <1>2, <2>1, <2>2 DEF Stands, u
<1> QED
  BY <1>2 DEF Stands

LEMMA PrefixFacts ==
  ASSUME NEW m \in Seq(Message), NEW k \in 0..Len(m)
  PROVE  /\ SubSeq(m, 1, k) \in Seq(Message) /\ Len(SubSeq(m, 1, k)) = k
         /\ DOMAIN SubSeq(m, 1, k) = 1..k
         /\ \A i \in 1..k : i \in DOMAIN m /\ SubSeq(m, 1, k)[i] = m[i]
OBVIOUS

LEMMA PrefixKeeps ==
  ASSUME NEW m \in Seq(Message), NEW k \in 0..Len(m)
  PROVE  /\ AttachmentIds(SubSeq(m, 1, k)) \subseteq AttachmentIds(m)
         /\ ErrorsLast(m) => ErrorsLast(SubSeq(m, 1, k))
         /\ \A s \in Summary : Stands(m, s) /\ (s.from > 0 => s.from < k) =>
              Stands(SubSeq(m, 1, k), s)
<1> DEFINE u == SubSeq(m, 1, k)
<1>1. /\ u \in Seq(Message) /\ Len(u) = k /\ DOMAIN u = 1..k /\ k \in Nat
      /\ \A i \in 1..k : i \in DOMAIN m /\ u[i] = m[i]
  BY PrefixFacts
<1> HIDE DEF u
<1>2. AttachmentIds(u) \subseteq AttachmentIds(m)
  BY <1>1, AttachmentsOf
<1>3. ErrorsLast(m) => ErrorsLast(u)
  BY <1>1 DEF ErrorsLast
<1>4. ASSUME NEW s \in Summary, Stands(m, s), s.from > 0 => s.from < k PROVE Stands(u, s)
  <2>1. s.from \in Nat
    BY DEF Summary
  <2>2. CASE s.from # 0
    <3>1. s.from < k
      BY <1>4, <2>1, <2>2
    <3>2. s.from + 1 \in 1..k /\ \A i \in 1..s.from : i \in 1..k
      BY <1>1, <2>1, <3>1
    <3> QED
      BY <1>1, <1>4, <2>2, <3>1, <3>2 DEF Stands
  <2> QED
    BY <2>2 DEF Stands
<1> QED
  BY <1>2, <1>3, <1>4 DEF u

LEMMA GroupEnds ==
  ASSUME NEW m \in Seq(Message), NEW p \in Nat \ {0}
  PROVE  /\ GroupEnd(m, p) \in 0..Len(m)
         /\ p <= Len(m) => GroupEnd(m, p) >= p - 1
         /\ \A i \in p..GroupEnd(m, p) : p <= Len(m) => ~IsPrompt(m[i])
<1> DEFINE S == {j \in (p - 1)..Len(m) : j = Len(m) \/ IsPrompt(m[j + 1])}
           End(j) == /\ \A i \in p..j : ~IsPrompt(m[i])
                     /\ j = Len(m) \/ IsPrompt(m[j + 1])
<1>1. Len(m) \in Nat
  OBVIOUS
<1>2. CASE p > Len(m)
  BY <1>1, <1>2 DEF GroupEnd
<1>3. CASE p <= Len(m)
  <2>1. S \in SUBSET Nat /\ Len(m) \in S
    BY <1>1, <1>3
  <2>2. PICK j \in S : \A k \in S : j <= k
    BY <2>1, Smallest
  <2>3. j \in (p - 1)..Len(m) /\ (j = Len(m) \/ IsPrompt(m[j + 1]))
    BY <2>2
  <2>4. ASSUME NEW i \in p..j PROVE ~IsPrompt(m[i])
    <3>1. i - 1 \in (p - 1)..Len(m) /\ (i - 1) + 1 = i /\ ~(j <= i - 1)
      BY <1>1, <2>3
    <3> QED
      BY <2>2, <3>1
  <2>5. End(j)
    BY <2>3, <2>4
  <2>6. GroupEnd(m, p) = CHOOSE k \in (p - 1)..Len(m) : End(k)
    BY <1>1, <1>3 DEF GroupEnd
  <2>7. GroupEnd(m, p) \in (p - 1)..Len(m) /\ End(GroupEnd(m, p))
    BY <2>3, <2>5, <2>6
  <2> QED
    BY <1>1, <1>3, <2>7
<1> QED
  BY <1>1, <1>2, <1>3

LEMMA SliceFacts ==
  ASSUME NEW m \in Seq(Message), NEW a \in 1..Len(m), NEW b \in a..Len(m)
  PROVE  /\ DOMAIN SubSeq(m, a, b) = 1..(b - a + 1)
         /\ \A i \in 1..(b - a + 1) : SubSeq(m, a, b)[i] = m[a + i - 1]
OBVIOUS

\* A summary that is written now ends right before the last prompt and covers
\* what an older one does, and the prompts between.
LEMMA CompressedIs ==
  ASSUME NEW conv \in Conversation, Len(conv.messages) <= MaxMessages,
         Cardinality(PromptsIn(conv.messages)) >= 2
  PROVE  /\ Compressed(conv) \in Summary
         /\ \E last \in DOMAIN conv.messages :
              /\ IsPrompt(conv.messages[last]) /\ Compressed(conv).from = last - 1
              /\ conv.summary.covered \subseteq Compressed(conv).covered
              /\ \A i \in (conv.summary.from + 1)..(last - 1) : IsPrompt(conv.messages[i]) =>
                   conv.messages[i].prompt \in Compressed(conv).covered
<1> DEFINE m == conv.messages
           s == conv.summary
           places == {i \in DOMAIN m : IsPrompt(m[i])}
           last == CHOOSE i \in places : \A j \in places : j <= i
           older == SubSeq(m, s.from + 1, last - 1)
           new == [from |-> last - 1, covered |-> s.covered \cup PromptsIn(older)]
<1>1. m \in Seq(Message) /\ s \in Summary
  BY DEF Conversation
<1>2. Len(m) <= MaxMessages /\ MaxMessages \in Nat
  BY ConversationAssumption
<1>3. Compressed(conv) = new
  BY DEF Compressed
<1> HIDE DEF m, s
<1>4. /\ DOMAIN m = 1..Len(m) /\ Len(m) \in Nat /\ s.from \in Nat /\ s.covered \subseteq Prompts
      /\ \A i \in DOMAIN m : m[i] \in Message /\ (IsPrompt(m[i]) => m[i].prompt \in Prompts)
  BY <1>1, MessageTyped DEF Summary
<1>5. places # {}
  <2>1. CASE PromptsIn(m) = {}
    BY <2>1, FS_EmptySet DEF m
  <2>2. CASE PromptsIn(m) # {}
    BY <2>2 DEF PromptsIn, ElementsOf
  <2> QED
    BY <2>1, <2>2
<1>6. \E i \in places : \A j \in places : j <= i
  BY <1>4, <1>5, Largest
<1>7. last \in places /\ \A j \in places : j <= last
  BY <1>6
<1> HIDE DEF last
<1>8. last \in 1..Len(m) /\ IsPrompt(m[last]) /\ last - 1 \in Nat /\ last - 1 < Len(m)
      /\ (last - 1) + 1 = last /\ last - 1 \in 0..MaxMessages
  BY <1>2, <1>4, <1>7
<1>9. /\ \A i \in DOMAIN older : s.from + i \in DOMAIN m /\ older[i] = m[s.from + i]
      /\ \A i \in (s.from + 1)..(last - 1) :
           i - s.from \in DOMAIN older /\ older[i - s.from] = m[i]
  <2>1. CASE s.from + 1 <= last - 1
    <3>1. /\ s.from + 1 \in 1..Len(m) /\ last - 1 \in 1..Len(m)
      BY <1>4, <1>8, <2>1
    <3>2. DOMAIN older = 1..(last - 1 - s.from)
          /\ \A i \in 1..(last - 1 - s.from) : older[i] = m[s.from + i]
      <4> DEFINE a == s.from + 1
                 b == last - 1
      <4>1. a \in 1..Len(m) /\ b \in a..Len(m)
        BY <1>4, <1>8, <2>1, <3>1
      <4>2. b - a + 1 = last - 1 - s.from /\ \A i \in 1..(b - a + 1) : a + i - 1 = s.from + i
        BY <1>4, <1>8
      <4> HIDE DEF a, b
      <4>3. DOMAIN SubSeq(m, a, b) = 1..(b - a + 1)
            /\ \A i \in 1..(b - a + 1) : SubSeq(m, a, b)[i] = m[a + i - 1]
        BY <1>1, <4>1, SliceFacts
      <4> QED
        BY <4>2, <4>3 DEF a, b
    <3> HIDE DEF older
    <3>3. \A i \in 1..(last - 1 - s.from) : s.from + i \in DOMAIN m
      BY <1>4, <1>8, <3>1
    <3>4. ASSUME NEW i \in (s.from + 1)..(last - 1)
          PROVE  i - s.from \in 1..(last - 1 - s.from) /\ s.from + (i - s.from) = i
      BY <1>4, <1>8
    <3> QED
      BY <3>2, <3>3, <3>4
  <2>2. CASE ~(s.from + 1 <= last - 1)
    <3>1. DOMAIN older = {}
      BY <1>1, <1>4, <1>8, <2>2
    <3>2. (s.from + 1)..(last - 1) = {}
      BY <1>4, <1>8, <2>2
    <3> QED
      BY <3>1, <3>2
  <2> QED
    BY <2>1, <2>2
<1> HIDE DEF older
<1>10. PromptsIn(older) \subseteq Prompts
  <2>1. ASSUME NEW i \in DOMAIN older, IsPrompt(older[i]) PROVE older[i].prompt \in Prompts
    BY <1>4, <1>9, <2>1
  <2> QED
    BY <2>1 DEF PromptsIn, ElementsOf
<1>11. new \in Summary
  BY <1>4, <1>8, <1>10 DEF Summary
<1>12. ASSUME NEW i \in (s.from + 1)..(last - 1), IsPrompt(m[i])
       PROVE  m[i].prompt \in PromptsIn(older)
  <2>1. i - s.from \in DOMAIN older /\ older[i - s.from] = m[i]
    BY <1>9
  <2> QED
    BY <1>12, <2>1 DEF PromptsIn, ElementsOf
<1>13. /\ last \in DOMAIN m /\ IsPrompt(m[last]) /\ new.from = last - 1
       /\ s.covered \subseteq new.covered
       /\ \A i \in (s.from + 1)..(last - 1) : IsPrompt(m[i]) => m[i].prompt \in new.covered
  BY <1>4, <1>8, <1>12
<1> HIDE DEF new
<1> QED
  BY <1>3, <1>11, <1>13 DEF m, s

LEMMA CompressedSound ==
  ASSUME NEW conv \in Conversation, ConvSound(conv), Len(conv.messages) <= MaxMessages,
         Cardinality(PromptsIn(conv.messages)) >= 2,
         \A i \in DOMAIN conv.messages : conv.messages[i].kind # "memory"
  PROVE  Stands(conv.messages, Compressed(conv))
<1> DEFINE m == conv.messages
           s == conv.summary
           new == Compressed(conv)
<1>1. m \in Seq(Message) /\ s \in Summary /\ ErrorsLast(m) /\ Stands(m, s)
  BY DEF Conversation, ConvSound
<1>2. PICK last \in DOMAIN m :
        /\ IsPrompt(m[last]) /\ new.from = last - 1 /\ s.covered \subseteq new.covered
        /\ \A i \in (s.from + 1)..(last - 1) : IsPrompt(m[i]) => m[i].prompt \in new.covered
  BY CompressedIs
<1>3. \A i \in DOMAIN m : m[i].kind # "memory"
  OBVIOUS
<1> HIDE DEF m, s, new
<1>4. /\ DOMAIN m = 1..Len(m) /\ Len(m) \in Nat /\ s.from \in Nat
      /\ last \in 1..Len(m) /\ last - 1 \in Nat /\ last - 1 < Len(m) /\ (last - 1) + 1 = last
  BY <1>1, MessageTyped DEF Summary
<1>5. ASSUME NEW i \in 1..(last - 1)
      PROVE  /\ m[i].kind \notin {"error", "memory"}
             /\ IsPrompt(m[i]) => m[i].prompt \in new.covered
  <2>1. i \in DOMAIN m /\ i \in Nat /\ ~(last < i)
    BY <1>4
  <2>2. m[i].kind \notin {"error", "memory"}
    BY <1>1, <1>2, <1>3, <2>1 DEF ErrorsLast
  <2>3. ASSUME IsPrompt(m[i]), i <= s.from PROVE m[i].prompt \in new.covered
    <3>1. i \in 1..s.from /\ s.from # 0
      BY <1>4, <2>1, <2>3
    <3> QED
      BY <1>1, <1>2, <2>3, <3>1 DEF Stands
  <2>4. ASSUME IsPrompt(m[i]), ~(i <= s.from) PROVE m[i].prompt \in new.covered
    <3>1. i \in (s.from + 1)..(last - 1)
      BY <1>4, <2>1, <2>4
    <3> QED
      BY <1>2, <2>4, <3>1
  <2> QED
    BY <2>2, <2>3, <2>4
<1>6. new.from < Len(m) /\ IsPrompt(m[new.from + 1])
  BY <1>2, <1>4
<1>7. \A i \in 1..new.from : /\ m[i].kind \notin {"error", "memory"}
                             /\ IsPrompt(m[i]) => m[i].prompt \in new.covered
  BY <1>2, <1>5
<1>8. Stands(m, new)
  BY <1>6, <1>7 DEF Stands
<1> QED
  BY <1>8 DEF m, new

-----------------------------------------------------------------------------
(* Maps from ids to conversations, in memory and on disk.                   *)

Live(convs) == {c \in Ids : convs[c] # None}
Typed(convs) ==
  /\ convs \in [Ids -> Conversation \cup {None}]
  /\ \A c \in Live(convs) : Len(convs[c].messages) <= MaxMessages
UsedIn(convs) == UNION {AttachmentIds(convs[c].messages) : c \in Live(convs)}
AllSound(convs) == \A c \in Live(convs) : ConvSound(convs[c])

LEMMA LiveTyped ==
  ASSUME NEW convs, Typed(convs), NEW c \in Live(convs)
  PROVE  /\ c \in Ids /\ convs[c] \in Conversation
         /\ convs[c].messages \in Seq(Message) /\ convs[c].summary \in Summary
         /\ Len(convs[c].messages) \in Nat /\ Len(convs[c].messages) <= MaxMessages
         /\ AttachmentIds(convs[c].messages) \subseteq UsedIn(convs)
<1>1. c \in Ids /\ convs[c] \in Conversation /\ Len(convs[c].messages) <= MaxMessages
  BY DEF Typed, Live
<1>2. convs[c].messages \in Seq(Message) /\ convs[c].summary \in Summary
  BY <1>1 DEF Conversation
<1>3. AttachmentIds(convs[c].messages) \subseteq UsedIn(convs)
  BY DEF UsedIn
<1> QED
  BY <1>1, <1>2, <1>3

LEMMA UsedTyped ==
  ASSUME NEW convs, Typed(convs)
  PROVE  UsedIn(convs) \subseteq Attachments
<1>1. \A c \in Live(convs) : AttachmentIds(convs[c].messages) \subseteq Attachments
  BY LiveTyped, AttachmentsTyped
<1> QED
  BY <1>1 DEF UsedIn

LEMMA NoneUsed ==
  ASSUME NEW convs, convs = [c \in Ids |-> None]
  PROVE  /\ Typed(convs) /\ Live(convs) = {} /\ UsedIn(convs) = {} /\ AllSound(convs)
<1>1. Live(convs) = {}
  BY DEF Live
<1> QED
  BY <1>1 DEF Typed, UsedIn, AllSound

Puts(new, convs, c, v) == new = [convs EXCEPT ![c] = v]
PutsMessages(new, convs, c, m) == new = [convs EXCEPT ![c].messages = m]
PutsSummary(new, convs, c, s) == new = [convs EXCEPT ![c].summary = s]

LEMMA OneRemoved ==
  ASSUME NEW convs, Typed(convs), NEW c \in Ids,
         NEW new, Puts(new, convs, c, None)
  PROVE  /\ Typed(new)
         /\ Live(new) = Live(convs) \ {c}
         /\ UsedIn(new) \subseteq UsedIn(convs)
         /\ \A d \in Ids \ {c} : new[d] = convs[d]
<1>1. /\ convs \in [Ids -> Conversation \cup {None}]
      /\ new \in [Ids -> Conversation \cup {None}]
      /\ new[c] = None /\ \A d \in Ids \ {c} : new[d] = convs[d]
  BY DEF Typed, Puts
<1>2. Live(new) = Live(convs) \ {c}
  BY <1>1 DEF Live
<1>3. \A d \in Live(new) : d \in Live(convs) /\ new[d] = convs[d]
  BY <1>1, <1>2 DEF Live
<1>4. Typed(new)
  BY <1>1, <1>3 DEF Typed
<1>5. UsedIn(new) \subseteq UsedIn(convs)
  BY <1>3 DEF UsedIn
<1> QED
  BY <1>1, <1>2, <1>4, <1>5

LEMMA RestSound ==
  ASSUME NEW convs, Typed(convs), AllSound(convs), NEW c \in Ids,
         NEW new, Puts(new, convs, c, None)
  PROVE  AllSound(new)
<1>1. Live(new) = Live(convs) \ {c} /\ \A d \in Ids \ {c} : new[d] = convs[d]
  BY OneRemoved
<1> QED
  BY <1>1 DEF AllSound, Live

LEMMA OneSet ==
  ASSUME NEW convs, Typed(convs), NEW c \in Ids,
         NEW v \in Conversation, Len(v.messages) <= MaxMessages,
         NEW new, Puts(new, convs, c, v)
  PROVE  /\ Typed(new)
         /\ Live(new) = Live(convs) \cup {c}
         /\ UsedIn(new) \subseteq UsedIn(convs) \cup AttachmentIds(v.messages)
         /\ new[c] = v
         /\ \A d \in Ids \ {c} : new[d] = convs[d]
<1>1. /\ convs \in [Ids -> Conversation \cup {None}]
      /\ new \in [Ids -> Conversation \cup {None}]
      /\ new[c] = v /\ \A d \in Ids \ {c} : new[d] = convs[d]
  BY DEF Typed, Puts
<1>2. v # None
  BY NoneAssumption
<1>3. Live(new) = Live(convs) \cup {c}
  BY <1>1, <1>2 DEF Live
<1>4. \A d \in Live(new) : d = c \/ (d \in Live(convs) /\ new[d] = convs[d])
  BY <1>1, <1>3 DEF Live
<1>5. Typed(new)
  BY <1>1, <1>4 DEF Typed
<1>6. UsedIn(new) \subseteq UsedIn(convs) \cup AttachmentIds(v.messages)
  BY <1>1, <1>4 DEF UsedIn
<1> QED
  BY <1>1, <1>3, <1>5, <1>6

LEMMA OneSound ==
  ASSUME NEW convs, Typed(convs), AllSound(convs), NEW c \in Ids,
         NEW v \in Conversation, Len(v.messages) <= MaxMessages, ConvSound(v),
         NEW new, Puts(new, convs, c, v)
  PROVE  AllSound(new)
<1>1. /\ Live(new) = Live(convs) \cup {c} /\ new[c] = v
      /\ \A d \in Ids \ {c} : new[d] = convs[d]
  BY OneSet
<1> QED
  BY <1>1 DEF AllSound, Live

\* A change of the messages of one conversation.
LEMMA MessagesSet ==
  ASSUME NEW convs, Typed(convs), NEW c \in Live(convs),
         NEW m \in Seq(Message), Len(m) <= MaxMessages,
         NEW new, PutsMessages(new, convs, c, m)
  PROVE  /\ Typed(new) /\ Live(new) = Live(convs)
         /\ UsedIn(new) \subseteq UsedIn(convs) \cup AttachmentIds(m)
         /\ new[c].messages = m /\ new[c].summary = convs[c].summary
         /\ \A d \in Ids \ {c} : new[d] = convs[d]
         /\ \E v \in Conversation :
              /\ Puts(new, convs, c, v)
              /\ v.messages = m /\ v.summary = convs[c].summary
<1> DEFINE v == [convs[c] EXCEPT !.messages = m]
<1>1. c \in Ids /\ convs[c] \in Conversation
  BY LiveTyped
<1>2. v \in Conversation /\ v.messages = m /\ v.summary = convs[c].summary
  BY <1>1 DEF Conversation
<1>3. Puts(new, convs, c, v)
  BY DEF Puts, PutsMessages
<1> HIDE DEF v
<1>4. Len(v.messages) <= MaxMessages
  BY <1>1, <1>2
<1>5. /\ Typed(new)
      /\ Live(new) = Live(convs) \cup {c}
      /\ UsedIn(new) \subseteq UsedIn(convs) \cup AttachmentIds(v.messages)
      /\ new[c] = v
      /\ \A d \in Ids \ {c} : new[d] = convs[d]
  BY <1>1, <1>2, <1>3, <1>4, OneSet
<1> QED
  BY <1>2, <1>3, <1>5

LEMMA MessagesSound ==
  ASSUME NEW convs, Typed(convs), AllSound(convs), NEW c \in Live(convs),
         NEW m \in Seq(Message), Len(m) <= MaxMessages,
         ErrorsLast(m), Stands(m, convs[c].summary),
         NEW new, PutsMessages(new, convs, c, m)
  PROVE  AllSound(new)
<1>1. PICK v \in Conversation : /\ Puts(new, convs, c, v)
                               /\ v.messages = m /\ v.summary = convs[c].summary
  BY MessagesSet
<1>2. ConvSound(v) /\ Len(v.messages) <= MaxMessages /\ c \in Ids
  BY <1>1, LiveTyped DEF ConvSound
<1> QED
  BY <1>1, <1>2, OneSound

\* A change of the summary of one conversation.
LEMMA SummarySet ==
  ASSUME NEW convs, Typed(convs), NEW c \in Live(convs), NEW s \in Summary,
         NEW new, PutsSummary(new, convs, c, s)
  PROVE  /\ Typed(new) /\ Live(new) = Live(convs)
         /\ UsedIn(new) \subseteq UsedIn(convs)
         /\ new[c].messages = convs[c].messages
         /\ \A d \in Ids \ {c} : new[d] = convs[d]
         /\ \E v \in Conversation :
              /\ Puts(new, convs, c, v)
              /\ v.messages = convs[c].messages /\ v.summary = s
<1> DEFINE v == [convs[c] EXCEPT !.summary = s]
<1>1. /\ c \in Ids /\ convs[c] \in Conversation /\ Len(convs[c].messages) <= MaxMessages
      /\ AttachmentIds(convs[c].messages) \subseteq UsedIn(convs)
  BY LiveTyped
<1>2. v \in Conversation /\ v.messages = convs[c].messages /\ v.summary = s
  BY <1>1 DEF Conversation
<1>3. Puts(new, convs, c, v)
  BY DEF Puts, PutsSummary
<1> HIDE DEF v
<1>4. Len(v.messages) <= MaxMessages
  BY <1>1, <1>2
<1>5. /\ Typed(new)
      /\ Live(new) = Live(convs) \cup {c}
      /\ UsedIn(new) \subseteq UsedIn(convs) \cup AttachmentIds(v.messages)
      /\ new[c] = v
      /\ \A d \in Ids \ {c} : new[d] = convs[d]
  BY <1>1, <1>2, <1>3, <1>4, OneSet
<1> QED
  BY <1>1, <1>2, <1>3, <1>5

LEMMA SummarySound ==
  ASSUME NEW convs, Typed(convs), AllSound(convs), NEW c \in Live(convs), NEW s \in Summary,
         Stands(convs[c].messages, s),
         NEW new, PutsSummary(new, convs, c, s)
  PROVE  AllSound(new)
<1>1. PICK v \in Conversation : /\ Puts(new, convs, c, v)
                               /\ v.messages = convs[c].messages /\ v.summary = s
  BY SummarySet
<1>2. ConvSound(v) /\ Len(v.messages) <= MaxMessages /\ c \in Ids
  BY <1>1, LiveTyped DEF ConvSound, AllSound
<1> QED
  BY <1>1, <1>2, OneSound

LEMMA NewConversationIs ==
  /\ NewConversation \in Conversation /\ Len(NewConversation.messages) = 0
  /\ AttachmentIds(NewConversation.messages) = {}
  /\ ConvSound(NewConversation)
<1>1. <<>> \in Seq(Message) /\ Len(<<>>) = 0 /\ DOMAIN <<>> = {}
  OBVIOUS
<1>2. NoSummary \in Summary
  <2>1. 0 \in 0..MaxMessages
    BY ConversationAssumption
  <2> QED
    BY <2>1 DEF NoSummary, Summary
<1>3. NewConversation.messages = <<>> /\ NewConversation.summary = NoSummary
      /\ NewConversation \in Conversation
  BY <1>1, <1>2 DEF NewConversation, Conversation
<1>4. AttachmentIds(<<>>) = {}
  BY <1>1 DEF AttachmentIds, ElementsOf
<1>5. ErrorsLast(<<>>) /\ Stands(<<>>, NoSummary)
  BY <1>1 DEF ErrorsLast, Stands, NoSummary
<1> QED
  BY <1>1, <1>3, <1>4, <1>5 DEF ConvSound

-----------------------------------------------------------------------------
(* What the commands make of the messages of a conversation.                *)

PromptPut(m, prompt, atts) ==
  Append(WithoutErrors(m), [kind |-> "user", prompt |-> prompt, atts |-> atts])
Told(m, kind) == Append(m, [kind |-> kind])
Ended(m, kind) == WithoutMemories(Told(IF kind = "error" THEN WithoutErrors(m) ELSE m, kind))
Retried(m) == Without("partial", WithoutErrors(m))
RolledBack(m, p) == SubSeq(m, 1, GroupEnd(m, p))

LEMMA PromptPutTyped ==
  ASSUME NEW m \in Seq(Message), Len(m) < MaxMessages,
         NEW prompt \in Prompts, NEW atts \in SUBSET Attachments
  PROVE  /\ PromptPut(m, prompt, atts) \in Seq(Message)
         /\ Len(PromptPut(m, prompt, atts)) <= MaxMessages
         /\ AttachmentIds(PromptPut(m, prompt, atts)) \subseteq AttachmentIds(m) \cup atts
         /\ atts \subseteq AttachmentIds(PromptPut(m, prompt, atts))
         /\ ErrorsLast(PromptPut(m, prompt, atts))
<1> DEFINE e == [kind |-> "user", prompt |-> prompt, atts |-> atts]
           t == WithoutErrors(m)
<1>1. e \in Message /\ IsPrompt(e) /\ e.atts = atts
  BY DEF Message, IsPrompt
<1>2. /\ t \in Seq(Message) /\ Len(t) <= Len(m) /\ Len(t) \in Nat /\ Len(m) \in Nat
      /\ \A i \in DOMAIN t : t[i].kind # "error"
  BY FilterTyped, MessageTyped DEF WithoutErrors
<1>3. AttachmentIds(t) \subseteq AttachmentIds(m)
  BY FilterAttachments DEF WithoutErrors
<1>4. PromptPut(m, prompt, atts) = Append(t, e)
  BY DEF PromptPut
<1> HIDE DEF t, e
<1>5. Append(t, e) \in Seq(Message) /\ Len(Append(t, e)) = Len(t) + 1
  BY <1>1, <1>2, AppendFacts
<1>6. AttachmentIds(Append(t, e)) = AttachmentIds(t) \cup e.atts
  BY <1>1, <1>2, AppendAttachments
<1>7. ErrorsLast(t)
  BY <1>2 DEF ErrorsLast
<1>8. ErrorsLast(Append(t, e))
  BY <1>1, <1>2, <1>7, AppendErrorsLast
<1>9. Len(t) + 1 <= MaxMessages
  BY <1>2, ConversationAssumption
<1> QED
  BY <1>1, <1>3, <1>4, <1>5, <1>6, <1>8, <1>9

LEMMA ErrorsFiltered ==
  ASSUME NEW m \in Seq(Message), NEW s \in Summary, Stands(m, s)
  PROVE  /\ Stands(WithoutErrors(m), s)
         /\ \A i \in 1..s.from : WithoutErrors(m)[i] = m[i]
<1>1. s.from > 0 => \A i \in 1..s.from : m[i].kind # "error"
  BY DEF Stands, Summary
<1> QED
  BY <1>1, FilterStands DEF WithoutErrors

LEMMA PromptPutStands ==
  ASSUME NEW m \in Seq(Message), NEW prompt \in Prompts, NEW atts \in SUBSET Attachments,
         NEW s \in Summary, Stands(m, s)
  PROVE  Stands(PromptPut(m, prompt, atts), s)
<1> DEFINE e == [kind |-> "user", prompt |-> prompt, atts |-> atts]
           t == WithoutErrors(m)
<1>1. e \in Message
  BY DEF Message
<1>2. t \in Seq(Message)
  BY FilterTyped DEF WithoutErrors
<1>3. Stands(t, s)
  BY ErrorsFiltered
<1>4. PromptPut(m, prompt, atts) = Append(t, e)
  BY DEF PromptPut
<1> HIDE DEF t, e
<1> QED
  BY <1>1, <1>2, <1>3, <1>4, AppendStands

LEMMA ToldTyped ==
  ASSUME NEW m \in Seq(Message), NEW kind \in Kinds
  PROVE  /\ Told(m, kind) \in Seq(Message) /\ Len(Told(m, kind)) = Len(m) + 1 /\ Len(m) \in Nat
         /\ AttachmentIds(Told(m, kind)) = AttachmentIds(m)
<1> DEFINE e == [kind |-> kind]
<1>1. e \in Message /\ ~IsPrompt(e)
  BY DEF Message, IsPrompt, Kinds
<1>2. Told(m, kind) = Append(m, e)
  BY DEF Told
<1> HIDE DEF e
<1>3. Append(m, e) \in Seq(Message) /\ Len(Append(m, e)) = Len(m) + 1 /\ Len(m) \in Nat
  BY <1>1, AppendFacts
<1>4. AttachmentIds(Append(m, e)) = AttachmentIds(m)
  BY <1>1, AppendAttachments
<1> QED
  BY <1>2, <1>3, <1>4

LEMMA ToldErrorsLast ==
  ASSUME NEW m \in Seq(Message), NEW kind \in Kinds, ErrorsLast(m)
  PROVE  ErrorsLast(Told(m, kind))
<1> DEFINE e == [kind |-> kind]
<1>1. e \in Message /\ ~IsPrompt(e)
  BY DEF Message, IsPrompt, Kinds
<1>2. Told(m, kind) = Append(m, e)
  BY DEF Told
<1> HIDE DEF e
<1> QED
  BY <1>1, <1>2, AppendErrorsLast

LEMMA ToldStands ==
  ASSUME NEW m \in Seq(Message), NEW kind \in Kinds, NEW s \in Summary, Stands(m, s)
  PROVE  Stands(Told(m, kind), s)
<1> DEFINE e == [kind |-> kind]
<1>1. e \in Message
  BY DEF Message, Kinds
<1>2. Told(m, kind) = Append(m, e)
  BY DEF Told
<1> HIDE DEF e
<1> QED
  BY <1>1, <1>2, AppendStands

LEMMA EndedTyped ==
  ASSUME NEW m \in Seq(Message), Len(m) < MaxMessages, NEW kind \in Kinds
  PROVE  /\ Ended(m, kind) \in Seq(Message) /\ Len(Ended(m, kind)) <= MaxMessages
         /\ AttachmentIds(Ended(m, kind)) \subseteq AttachmentIds(m)
<1> DEFINE t == IF kind = "error" THEN WithoutErrors(m) ELSE m
           u == Told(t, kind)
<1>1. /\ t \in Seq(Message) /\ Len(t) <= Len(m) /\ Len(m) \in Nat
      /\ AttachmentIds(t) \subseteq AttachmentIds(m)
  BY FilterTyped, FilterAttachments, MessageTyped DEF WithoutErrors
<1> HIDE DEF t
<1>2. u \in Seq(Message) /\ Len(u) = Len(t) + 1 /\ Len(t) \in Nat
      /\ AttachmentIds(u) = AttachmentIds(t)
  BY <1>1, ToldTyped
<1>3. Len(u) <= MaxMessages /\ Len(u) \in Nat /\ MaxMessages \in Nat
  BY <1>1, <1>2, ConversationAssumption
<1>4. Ended(m, kind) = WithoutMemories(u)
  BY DEF Ended, t
<1> HIDE DEF u
<1>5. /\ WithoutMemories(u) \in Seq(Message) /\ Len(WithoutMemories(u)) <= Len(u)
      /\ Len(WithoutMemories(u)) \in Nat
      /\ AttachmentIds(WithoutMemories(u)) \subseteq AttachmentIds(u)
  BY <1>2, FilterTyped, FilterAttachments, MessageTyped DEF WithoutMemories
<1> QED
  BY <1>1, <1>2, <1>3, <1>4, <1>5

LEMMA EndedErrorsLast ==
  ASSUME NEW m \in Seq(Message), NEW kind \in Kinds, ErrorsLast(m)
  PROVE  ErrorsLast(Ended(m, kind))
<1> DEFINE t == IF kind = "error" THEN WithoutErrors(m) ELSE m
           u == Told(t, kind)
<1>1. t \in Seq(Message) /\ ErrorsLast(t)
  BY FilterTyped, FilterErrorsLast DEF WithoutErrors
<1> HIDE DEF t
<1>2. u \in Seq(Message) /\ ErrorsLast(u)
  BY <1>1, ToldTyped, ToldErrorsLast
<1>3. Ended(m, kind) = WithoutMemories(u)
  BY DEF Ended, t
<1> HIDE DEF u
<1> QED
  BY <1>2, <1>3, FilterErrorsLast DEF WithoutMemories

LEMMA EndedStands ==
  ASSUME NEW m \in Seq(Message), NEW kind \in Kinds, NEW s \in Summary, Stands(m, s)
  PROVE  Stands(Ended(m, kind), s)
<1> DEFINE t == IF kind = "error" THEN WithoutErrors(m) ELSE m
           u == Told(t, kind)
<1>1. t \in Seq(Message)
  BY FilterTyped DEF WithoutErrors
<1>2. Stands(t, s)
  BY ErrorsFiltered
<1> HIDE DEF t
<1>3. u \in Seq(Message) /\ Stands(u, s)
  BY <1>1, <1>2, ToldTyped, ToldStands
<1>4. Ended(m, kind) = WithoutMemories(u)
  BY DEF Ended, t
<1> HIDE DEF u
<1>5. s.from > 0 => \A i \in 1..s.from : u[i].kind # "memory"
  BY <1>3 DEF Stands, Summary
<1>6. "memory" # "user"
  OBVIOUS
<1>7. Stands(Without("memory", u), s)
  BY <1>3, <1>5, <1>6, FilterStands
<1> QED
  BY <1>4, <1>7 DEF WithoutMemories

LEMMA RetriedTyped ==
  ASSUME NEW m \in Seq(Message)
  PROVE  /\ Retried(m) \in Seq(Message) /\ Len(Retried(m)) <= Len(m)
         /\ Len(Retried(m)) \in Nat /\ Len(m) \in Nat
         /\ AttachmentIds(Retried(m)) \subseteq AttachmentIds(m)
<1> DEFINE t == WithoutErrors(m)
<1>1. /\ t \in Seq(Message) /\ Len(t) <= Len(m) /\ Len(m) \in Nat /\ Len(t) \in Nat
      /\ AttachmentIds(t) \subseteq AttachmentIds(m)
  BY FilterTyped, FilterAttachments, MessageTyped DEF WithoutErrors
<1>2. Retried(m) = Without("partial", t)
  BY DEF Retried
<1> HIDE DEF t
<1>3. /\ Without("partial", t) \in Seq(Message) /\ Len(Without("partial", t)) <= Len(t)
      /\ Len(Without("partial", t)) \in Nat
      /\ AttachmentIds(Without("partial", t)) \subseteq AttachmentIds(t)
  BY <1>1, FilterTyped, FilterAttachments, MessageTyped
<1> QED
  BY <1>1, <1>2, <1>3

LEMMA RetriedErrorsLast ==
  ASSUME NEW m \in Seq(Message), ErrorsLast(m)
  PROVE  ErrorsLast(Retried(m))
BY FilterTyped, FilterErrorsLast DEF Retried, WithoutErrors

LEMMA RetriedStands ==
  ASSUME NEW m \in Seq(Message), NEW s \in Summary, Stands(m, s),
         \A i \in 1..s.from : m[i].kind # "partial"
  PROVE  Stands(Retried(m), s)
<1> DEFINE t == WithoutErrors(m)
<1>1. t \in Seq(Message)
  BY FilterTyped DEF WithoutErrors
<1>2. Stands(t, s) /\ \A i \in 1..s.from : t[i] = m[i]
  BY ErrorsFiltered
<1>3. Retried(m) = Without("partial", t)
  BY DEF Retried
<1> HIDE DEF t
<1>4. s.from > 0 => \A i \in 1..s.from : t[i].kind # "partial"
  BY <1>2
<1>5. "partial" # "user"
  OBVIOUS
<1> QED
  BY <1>1, <1>2, <1>3, <1>4, <1>5, FilterStands

LEMMA RolledBackTyped ==
  ASSUME NEW m \in Seq(Message), NEW p \in Nat \ {0}
  PROVE  /\ RolledBack(m, p) \in Seq(Message) /\ Len(RolledBack(m, p)) <= Len(m)
         /\ Len(RolledBack(m, p)) \in Nat /\ Len(m) \in Nat
         /\ AttachmentIds(RolledBack(m, p)) \subseteq AttachmentIds(m)
         /\ ErrorsLast(m) => ErrorsLast(RolledBack(m, p))
<1> DEFINE k == GroupEnd(m, p)
<1>1. k \in 0..Len(m) /\ Len(m) \in Nat
  BY GroupEnds, MessageTyped
<1>2. RolledBack(m, p) = SubSeq(m, 1, k)
  BY DEF RolledBack
<1> HIDE DEF k
<1>3. SubSeq(m, 1, k) \in Seq(Message) /\ Len(SubSeq(m, 1, k)) = k
  BY <1>1, PrefixFacts
<1>4. /\ AttachmentIds(SubSeq(m, 1, k)) \subseteq AttachmentIds(m)
      /\ ErrorsLast(m) => ErrorsLast(SubSeq(m, 1, k))
  BY <1>1, PrefixKeeps
<1> QED
  BY <1>1, <1>2, <1>3, <1>4

LEMMA RolledBackStands ==
  ASSUME NEW m \in Seq(Message), NEW p \in Nat \ {0}, NEW s \in Summary, Stands(m, s),
         s.from > 0 => p > s.from + 1
  PROVE  Stands(RolledBack(m, p), s)
<1> DEFINE k == GroupEnd(m, p)
<1>1. /\ k \in 0..Len(m) /\ Len(m) \in Nat /\ s.from \in Nat
      /\ p <= Len(m) => k >= p - 1
  BY GroupEnds, MessageTyped DEF Summary
<1>2. RolledBack(m, p) = SubSeq(m, 1, k)
  BY DEF RolledBack
<1>3. p > Len(m) => k = Len(m)
  BY DEF GroupEnd
<1> HIDE DEF k
<1>4. s.from > 0 => s.from < k
  <2>1. s.from > 0 => s.from < Len(m)
    BY DEF Stands
  <2> QED
    BY <1>1, <1>3, <2>1
<1>5. Stands(SubSeq(m, 1, k), s)
  BY <1>1, <1>4, PrefixKeeps
<1> QED
  BY <1>2, <1>5

-----------------------------------------------------------------------------
(* The types, with what the store and a run always agree on.                *)

StoreTyped ==
  /\ Typed(conversations)
  /\ Live(conversations) \subseteq ids /\ ids \subseteq Ids
  /\ activeId \in Live(conversations) \cup {None}

DiskTyped ==
  /\ Typed(disk.conversations)
  /\ Live(disk.conversations) \subseteq ids
  /\ disk.activeId \in Live(disk.conversations) \cup {None}

PanelTyped ==
  /\ blobs \subseteq Attachments /\ releasing \subseteq Attachments
  /\ unwanted \subseteq Attachments /\ draft \subseteq Attachments
  /\ upload \in Upload \cup {None}
  /\ rollbackInfo \in 0..MaxMessages
  /\ clearing = None \/ clearing \in SUBSET Attachments
  /\ wiping \in BOOLEAN

WorkTyped ==
  /\ run = None \/ (run \in Work /\ run.conv = activeId /\ runs > 0)
  /\ compression = None \/ (compression \in Compression /\ compression.conv \in ids)
  /\ runs \in 0..MaxRuns

Base == StoreTyped /\ DiskTyped /\ PanelTyped /\ WorkTyped

LEMMA ActiveFacts ==
  ASSUME Base, activeId # None
  PROVE  /\ activeId \in Live(conversations) /\ activeId \in Ids
         /\ Messages \in Seq(Message) /\ Len(Messages) <= MaxMessages /\ Len(Messages) \in Nat
         /\ AttachmentIds(Messages) \subseteq UsedIn(conversations)
         /\ conversations[activeId] \in Conversation
         /\ conversations[activeId].summary \in Summary
<1>1. activeId \in Live(conversations) /\ Typed(conversations)
  BY DEF Base, StoreTyped
<1> QED
  BY <1>1, LiveTyped DEF Messages

LEMMA RunFacts ==
  ASSUME Base, run # None
  PROVE  /\ run \in Work /\ run.conv = activeId /\ activeId # None /\ run.conv \in Ids
         /\ run.atts \in SUBSET Attachments /\ run.added \in BOOLEAN
         /\ runs \in Prompts
<1>1. run \in Work /\ run.conv = activeId /\ runs > 0 /\ runs \in 0..MaxRuns /\ MaxRuns \in Nat
  BY ConversationAssumption DEF Base, WorkTyped
<1>2. run.conv \in Ids /\ run.atts \in SUBSET Attachments /\ run.added \in BOOLEAN
  BY <1>1 DEF Work
<1>3. runs \in Prompts
  BY <1>1 DEF Prompts
<1> QED
  BY <1>1, <1>2, <1>3, ConversationAssumption

\* A run goes on only when the conversation it is for stays the active one.
LEMMA Left ==
  ASSUME Base, NEW c, SetActive(c)
  PROVE  activeId' = c /\ (run' = None \/ (run' = run /\ run # None /\ activeId' = activeId))
BY RunFacts DEF SetActive

LEMMA ExistingIs == Existing = Live(conversations) /\ Existing' = Live(conversations')
BY DEF Existing, Live

LEMMA UsedByIs ==
  /\ UsedBy(Existing) = UsedIn(conversations)
  /\ \A c \in Live(conversations), S \in SUBSET Ids :
       c \in S => AttachmentIds(conversations[c].messages) \subseteq UsedBy(S)
  /\ \A S \in SUBSET Live(conversations) : UsedBy(S) \subseteq UsedIn(conversations)
BY DEF UsedBy, UsedIn, Existing, Live

LEMMA BaseIsTyped == Base => TypeOK
<1> SUFFICES ASSUME Base PROVE TypeOK
  OBVIOUS
<1>1. run # None => run.conv \in ids
  BY RunFacts, ActiveFacts DEF Base, StoreTyped
<1> QED
  BY <1>1 DEF Base, StoreTyped, DiskTyped, PanelTyped, WorkTyped, TypeOK, Typed, Live, Existing

LEMMA BaseInit == Init => Base
<1> SUFFICES ASSUME Init PROVE Base
  OBVIOUS
<1>1. /\ conversations = [c \in Ids |-> None] /\ disk.conversations = conversations
      /\ disk.activeId = None
  BY DEF Init
<1>2. StoreTyped /\ DiskTyped
  BY <1>1, NoneUsed DEF StoreTyped, DiskTyped, Init
<1>3. 0 \in 0..MaxMessages /\ 0 \in 0..MaxRuns
  BY ConversationAssumption
<1>4. PanelTyped /\ WorkTyped
  BY <1>3 DEF PanelTyped, WorkTyped, Init
<1> QED
  BY <1>2, <1>4 DEF Base

\* Typed stays when the active conversation's messages change.
LEMMA MessagesTyped ==
  ASSUME Base, activeId # None, NEW m \in Seq(Message), Len(m) <= MaxMessages,
         SetMessages(m), activeId' = activeId, ids' = ids
  PROVE  StoreTyped' /\ Live(conversations') = Live(conversations)
<1>1. PutsMessages(conversations', conversations, activeId, m)
  BY DEF SetMessages, PutsMessages
<1>2. Typed(conversations) /\ activeId \in Live(conversations)
  BY ActiveFacts DEF Base, StoreTyped
<1> DEFINE new == conversations'
<1>3. PutsMessages(new, conversations, activeId, m)
  BY <1>1
<1> HIDE DEF new
<1>4. Typed(new) /\ Live(new) = Live(conversations)
  BY <1>2, <1>3, MessagesSet
<1> QED
  BY <1>4 DEF new, StoreTyped, Base

LEMMA BaseStays ==
  ASSUME Base, UNCHANGED <<store, disk, work>>, PanelTyped'
  PROVE  Base'
BY DEF Base, StoreTyped, DiskTyped, WorkTyped, store, work

LEMMA DiskStays ==
  ASSUME Base, UNCHANGED disk, ids \subseteq ids'
  PROVE  DiskTyped'
BY DEF Base, DiskTyped

LEMMA PanelStays ==
  ASSUME Base, UNCHANGED <<storage, panel, wiping>>
  PROVE  PanelTyped'
BY DEF Base, PanelTyped, storage, panel

\* Work on a conversation is left, or goes on.
LEMMA WorkStays ==
  ASSUME Base, run' = None \/ (run' = run /\ activeId' = activeId),
         UNCHANGED <<compression, runs>>, ids \subseteq ids'
  PROVE  WorkTyped'
BY DEF Base, WorkTyped

LEMMA BaseCreate ==
  ASSUME Base, NEW c \in Ids, CreateConversation(c) \/ ForkConversation(c)
  PROVE  Base'
<1> DEFINE v == IF CreateConversation(c) THEN NewConversation ELSE conversations[activeId]
           new == conversations'
<1>1. /\ c \notin ids /\ ids' = ids \cup {c} /\ SetActive(c)
      /\ UNCHANGED <<storage, panel, compression, runs, wiping, disk>>
      /\ CreateConversation(c) \/ activeId # None
      /\ Puts(new, conversations, c, v)
  BY DEF CreateConversation, ForkConversation, Puts
<1>2. v \in Conversation /\ Len(v.messages) <= MaxMessages
  BY <1>1, NewConversationIs, ActiveFacts, ConversationAssumption DEF Messages
<1>3. Typed(conversations)
  BY DEF Base, StoreTyped
<1> HIDE DEF v, new
<1>4. Typed(new) /\ Live(new) = Live(conversations) \cup {c}
  BY <1>1, <1>2, <1>3, OneSet
<1>5. StoreTyped'
  BY <1>1, <1>4, Left DEF new, StoreTyped, Base
<1>6. DiskTyped' /\ PanelTyped'
  BY <1>1, DiskStays, PanelStays
<1>7. WorkTyped'
  BY <1>1, Left, WorkStays
<1> QED
  BY <1>5, <1>6, <1>7 DEF Base

LEMMA BaseSwitch ==
  ASSUME Base, NEW c \in Ids, SwitchConversation(c)
  PROVE  Base'
<1>1. /\ c \in Live(conversations) /\ SetActive(c)
      /\ UNCHANGED <<conversations, ids, storage, panel, compression, runs, wiping, disk>>
  BY ExistingIs DEF SwitchConversation
<1>2. StoreTyped'
  BY <1>1, Left DEF StoreTyped, Base
<1>3. DiskTyped' /\ PanelTyped'
  BY <1>1, DiskStays, PanelStays
<1>4. WorkTyped'
  BY <1>1, Left, WorkStays
<1> QED
  BY <1>2, <1>3, <1>4 DEF Base

LEMMA BaseDelete ==
  ASSUME Base, NEW c \in Ids, NEW next \in Ids \cup {None}, DeleteConversation(c, next)
  PROVE  Base'
<1> DEFINE new == conversations'
<1>1. /\ c \in Live(conversations) /\ ActiveWithout(c, next) /\ SetActive(next)
      /\ releasing' = releasing \cup Unreferenced(c)
      /\ Discard(AttachmentIds(conversations[c].messages), Existing \ {c}, draft \cup InRun(c))
      /\ UNCHANGED <<ids, blobs, panel, compression, runs, wiping, disk>>
      /\ Puts(new, conversations, c, None)
  BY ExistingIs DEF DeleteConversation, Puts
<1>2. Typed(conversations)
  BY DEF Base, StoreTyped
<1> HIDE DEF new
<1>3. Typed(new) /\ Live(new) = Live(conversations) \ {c}
  BY <1>1, <1>2, OneRemoved
<1>4. next \in Live(new) \cup {None}
  BY <1>1, <1>3, ExistingIs DEF ActiveWithout, Base, StoreTyped
<1>5. StoreTyped'
  BY <1>1, <1>3, <1>4, Left DEF new, StoreTyped, Base
<1>6. DiskTyped'
  BY <1>1, DiskStays
<1>7. AttachmentIds(conversations[c].messages) \subseteq Attachments
  BY <1>1, <1>2, LiveTyped, AttachmentsTyped
<1>8. PanelTyped'
  BY <1>1, <1>7 DEF PanelTyped, Base, Unreferenced, Discard, panel
<1>9. WorkTyped'
  BY <1>1, Left, WorkStays
<1> QED
  BY <1>5, <1>6, <1>8, <1>9 DEF Base

LEMMA BasePersist ==
  ASSUME Base, Persist \/ Reload
  PROVE  Base'
<1>1. CASE Persist
  <2>1. disk'.conversations = conversations /\ disk'.activeId = activeId
        /\ UNCHANGED <<store, storage, panel, work, wiping>>
    BY <1>1 DEF Persist, Stored
  <2>2. DiskTyped'
    BY <2>1 DEF DiskTyped, Base, StoreTyped, store
  <2>3. StoreTyped' /\ WorkTyped' /\ PanelTyped'
    BY <2>1 DEF Base, StoreTyped, WorkTyped, PanelTyped, store, work, storage, panel
  <2> QED
    BY <2>2, <2>3 DEF Base
<1>2. CASE Reload
  <2>1. /\ conversations' = disk.conversations /\ activeId' = disk.activeId
        /\ draft' = {} /\ upload' = None /\ rollbackInfo' = 0 /\ clearing' = None
        /\ run' = None /\ compression' = None /\ releasing' = {} /\ wiping' = FALSE
        /\ UNCHANGED <<ids, blobs, unwanted, runs, disk>>
    BY <1>2 DEF Reload
  <2>2. StoreTyped' /\ DiskTyped'
    BY <2>1 DEF Base, StoreTyped, DiskTyped
  <2>3. 0 \in 0..MaxMessages
    BY ConversationAssumption
  <2>4. WorkTyped' /\ PanelTyped'
    BY <2>1, <2>3 DEF Base, WorkTyped, PanelTyped
  <2> QED
    BY <2>2, <2>4 DEF Base
<1> QED
  BY <1>1, <1>2

LEMMA BasePanel ==
  ASSUME Base,
         \/ \E a \in Attachments : UploadStarts(a) \/ RemoveAttachment(a) \/ RemoveBlob(a)
         \/ Uploaded \/ DismissRollback \/ \E p \in 1..MaxMessages : Rollback(p)
         \/ ClearStarts
  PROVE  Base'
<1>1. UNCHANGED <<store, disk, work>>
  BY DEF UploadStarts, Uploaded, RemoveAttachment, RemoveBlob, DismissRollback, Rollback,
         ClearStarts
<1>2. ASSUME NEW a \in Attachments, UploadStarts(a) PROVE Base'
  <2>1. draft \in SUBSET Attachments
    BY DEF Base, PanelTyped
  <2>2. [att |-> a, draft |-> draft] \in Upload
    BY <2>1 DEF Upload
  <2>3. PanelTyped'
    BY <1>2, <2>2 DEF UploadStarts, PanelTyped, Base, storage
  <2> QED
    BY <1>1, <2>3, BaseStays
<1>3. CASE Uploaded
  <2>1. upload.att \in Attachments /\ upload.draft \in SUBSET Attachments
    BY <1>3 DEF Uploaded, Base, PanelTyped, Upload
  <2>2. PanelTyped'
    BY <1>3, <2>1 DEF Uploaded, PanelTyped, Base
  <2> QED
    BY <1>1, <2>2, BaseStays
<1>4. ASSUME NEW a \in Attachments, RemoveAttachment(a) PROVE Base'
  <2>1. PanelTyped'
    BY <1>4 DEF RemoveAttachment, Discard, PanelTyped, Base
  <2> QED
    BY <1>1, <2>1, BaseStays
<1>5. ASSUME NEW a \in Attachments, RemoveBlob(a) PROVE Base'
  <2>1. PanelTyped'
    BY <1>5 DEF RemoveBlob, PanelTyped, Base, panel
  <2> QED
    BY <1>1, <2>1, BaseStays
<1>6. CASE DismissRollback
  <2>1. 0 \in 0..MaxMessages
    BY ConversationAssumption
  <2>2. PanelTyped'
    BY <1>6, <2>1 DEF DismissRollback, PanelTyped, Base, storage
  <2> QED
    BY <1>1, <2>2, BaseStays
<1>7. ASSUME NEW p \in 1..MaxMessages, Rollback(p) PROVE Base'
  <2>1. p \in 0..MaxMessages
    BY ConversationAssumption
  <2>2. PanelTyped'
    BY <1>7, <2>1 DEF Rollback, PanelTyped, Base, storage
  <2> QED
    BY <1>1, <2>2, BaseStays
<1>8. CASE ClearStarts
  <2>1. activeId # None
    BY <1>8 DEF ClearStarts
  <2>2. AttachmentIds(Messages) \subseteq Attachments
    BY <2>1, ActiveFacts, AttachmentsTyped
  <2>3. Unreferenced(activeId) \subseteq Attachments
    BY <2>2 DEF Unreferenced, Messages
  <2>4. PanelTyped'
    BY <1>8, <2>2, <2>3 DEF ClearStarts, Discard, PanelTyped, Base
  <2> QED
    BY <1>1, <2>4, BaseStays
<1> QED
  BY <1>2, <1>3, <1>4, <1>5, <1>6, <1>7, <1>8

LEMMA SetMessagesIs ==
  ASSUME Base, activeId # None, NEW m \in Seq(Message), Len(m) <= MaxMessages, SetMessages(m)
  PROVE  /\ Typed(conversations') /\ Live(conversations') = Live(conversations)
         /\ UsedIn(conversations') \subseteq UsedIn(conversations) \cup AttachmentIds(m)
         /\ conversations'[activeId].messages = m
         /\ conversations'[activeId].summary = conversations[activeId].summary
         /\ \A c \in Ids \ {activeId} : conversations'[c] = conversations[c]
<1> DEFINE new == conversations'
<1>1. PutsMessages(new, conversations, activeId, m)
  BY DEF SetMessages, PutsMessages
<1>2. Typed(conversations) /\ activeId \in Live(conversations)
  BY ActiveFacts DEF Base, StoreTyped
<1> HIDE DEF new
<1>3. /\ Typed(new) /\ Live(new) = Live(conversations)
      /\ UsedIn(new) \subseteq UsedIn(conversations) \cup AttachmentIds(m)
      /\ new[activeId].messages = m
      /\ new[activeId].summary = conversations[activeId].summary
      /\ \A c \in Ids \ {activeId} : new[c] = conversations[c]
  BY <1>1, <1>2, MessagesSet
<1> QED
  BY <1>3 DEF new

LEMMA PromptAddedIs ==
  ASSUME Base, PromptAdded
  PROVE  /\ SetMessages(PromptPut(Messages, runs, run.atts))
         /\ run # None /\ ~run.added /\ run' = [run EXCEPT !.added = TRUE]
         /\ activeId # None /\ Len(Messages) < MaxMessages
         /\ UNCHANGED <<ids, activeId, storage, panel, compression, runs, wiping, disk>>
BY RunFacts DEF PromptAdded, PromptPut

LEMMA RunEndsIs ==
  ASSUME Base, NEW kind, RunEnds(kind)
  PROVE  /\ SetMessages(Ended(Messages, kind))
         /\ run # None /\ run' = None /\ activeId # None /\ Len(Messages) < MaxMessages
         /\ UNCHANGED <<ids, activeId, storage, panel, compression, runs, wiping, disk>>
BY RunFacts DEF RunEnds, Ended, Told

LEMMA RunStopsAfterIs ==
  ASSUME Base, NEW kind, RunStopsAfter(kind)
  PROVE  /\ SetMessages(Told(Messages, kind))
         /\ run # None /\ run' = None /\ activeId # None /\ Len(Messages) < MaxMessages
         /\ UNCHANGED <<ids, activeId, storage, panel, compression, runs, wiping, disk>>
BY RunFacts DEF RunStopsAfter, Told

\* A prompt gets a name of its own.
LEMMA RunsGoUp ==
  ASSUME Base, runs < MaxRuns, runs' = runs + 1
  PROVE  runs' \in 0..MaxRuns /\ runs' > 0
BY ConversationAssumption DEF Base, WorkTyped

LEMMA BaseSubmit ==
  ASSUME Base, Submit
  PROVE  Base'
<1>1. /\ activeId # None /\ runs < MaxRuns /\ runs' = runs + 1 /\ draft' = {}
      /\ rollbackInfo # 0 => SetMessages(RolledBack(Messages, rollbackInfo))
      /\ rollbackInfo = 0 => UNCHANGED conversations
      /\ rollbackInfo' = 0 /\ run' = [conv |-> activeId, atts |-> draft, added |-> FALSE]
      /\ UNCHANGED <<ids, activeId, storage, upload, clearing, compression, wiping, disk>>
  BY DEF Submit, RolledBack
<1>2. StoreTyped'
  <2>1. CASE rollbackInfo # 0
    <3>1. rollbackInfo \in Nat \ {0}
      BY <2>1 DEF Base, PanelTyped
    <3>2. /\ RolledBack(Messages, rollbackInfo) \in Seq(Message)
          /\ Len(RolledBack(Messages, rollbackInfo)) <= MaxMessages
      BY <1>1, <3>1, ActiveFacts, RolledBackTyped, ConversationAssumption
    <3> QED
      BY <1>1, <2>1, <3>2, MessagesTyped
  <2>2. CASE rollbackInfo = 0
    BY <1>1, <2>2 DEF Base, StoreTyped
  <2> QED
    BY <2>1, <2>2
<1>3. DiskTyped'
  BY <1>1, DiskStays
<1>4. PanelTyped'
  <2>1. 0 \in 0..MaxMessages
    BY ConversationAssumption
  <2> QED
    BY <1>1, <2>1 DEF Base, PanelTyped, storage
<1>5. WorkTyped'
  <2>1. activeId \in Ids /\ draft \in SUBSET Attachments
    BY <1>1, ActiveFacts DEF Base, PanelTyped
  <2>2. run' \in Work /\ run'.conv = activeId
    BY <1>1, <2>1 DEF Work
  <2>3. runs' \in 0..MaxRuns /\ runs' > 0
    BY <1>1, RunsGoUp
  <2> QED
    BY <1>1, <2>2, <2>3 DEF Base, WorkTyped
<1> QED
  BY <1>2, <1>3, <1>4, <1>5 DEF Base

LEMMA BasePrompt ==
  ASSUME Base, PromptAdded
  PROVE  Base'
<1> DEFINE m == PromptPut(Messages, runs, run.atts)
<1>1. /\ SetMessages(m)
      /\ run # None /\ run' = [run EXCEPT !.added = TRUE]
      /\ activeId # None /\ Len(Messages) < MaxMessages
      /\ UNCHANGED <<ids, activeId, storage, panel, compression, runs, wiping, disk>>
  BY PromptAddedIs
<1>2. m \in Seq(Message) /\ Len(m) <= MaxMessages
  BY <1>1, ActiveFacts, RunFacts, PromptPutTyped
<1> HIDE DEF m
<1>3. StoreTyped'
  BY <1>1, <1>2, MessagesTyped
<1>4. DiskTyped' /\ PanelTyped'
  BY <1>1, DiskStays, PanelStays
<1>5. run \in Work /\ run.conv = activeId /\ runs > 0
  BY <1>1 DEF Base, WorkTyped
<1>6. run' \in Work /\ run'.conv = run.conv
  BY <1>1, <1>5 DEF Work
<1>7. WorkTyped'
  BY <1>1, <1>5, <1>6 DEF Base, WorkTyped
<1> QED
  BY <1>3, <1>4, <1>7 DEF Base

LEMMA BaseRunEnds ==
  ASSUME Base,
         \/ \E kind \in {"answer", "error"} : RunEnds(kind)
         \/ \E kind \in {"partial", "memory"} : RunStopsAfter(kind)
  PROVE  Base'
<1>1. PICK m \in Seq(Message) :
        /\ Len(m) <= MaxMessages /\ SetMessages(m) /\ activeId # None /\ run' = None
        /\ UNCHANGED <<ids, activeId, storage, panel, compression, runs, wiping, disk>>
  <2>1. ASSUME NEW kind \in {"answer", "error"}, RunEnds(kind)
        PROVE  /\ Ended(Messages, kind) \in Seq(Message)
               /\ Len(Ended(Messages, kind)) <= MaxMessages
    <3>1. kind \in Kinds
      BY DEF Kinds
    <3> QED
      BY <2>1, <3>1, RunEndsIs, ActiveFacts, EndedTyped
  <2>2. ASSUME NEW kind \in {"partial", "memory"}, RunStopsAfter(kind)
        PROVE  /\ Told(Messages, kind) \in Seq(Message)
               /\ Len(Told(Messages, kind)) <= MaxMessages
    <3>1. kind \in Kinds
      BY DEF Kinds
    <3> QED
      BY <2>2, <3>1, RunStopsAfterIs, ActiveFacts, ToldTyped, ConversationAssumption
  <2> QED
    BY <2>1, <2>2, RunEndsIs, RunStopsAfterIs
<1>2. StoreTyped'
  BY <1>1, MessagesTyped
<1>3. DiskTyped' /\ PanelTyped' /\ WorkTyped'
  BY <1>1, DiskStays, PanelStays, WorkStays
<1> QED
  BY <1>2, <1>3 DEF Base

LEMMA BaseRetry ==
  ASSUME Base, Retry \/ \E added \in BOOLEAN : RunBesideDraft(added)
  PROVE  Base'
<1>1. PICK added \in BOOLEAN :
        /\ run' = [conv |-> activeId, atts |-> {}, added |-> added]
        /\ activeId # None /\ runs < MaxRuns /\ runs' = runs + 1
        /\ UNCHANGED <<ids, activeId, storage, panel, compression, wiping, disk>>
        /\ SetMessages(Retried(Messages)) \/ UNCHANGED conversations
  BY DEF Retry, RunBesideDraft, Retried, store
<1>2. StoreTyped'
  <2>1. Retried(Messages) \in Seq(Message) /\ Len(Retried(Messages)) <= MaxMessages
    BY <1>1, ActiveFacts, RetriedTyped, ConversationAssumption
  <2> QED
    BY <1>1, <2>1, MessagesTyped DEF Base, StoreTyped
<1>3. DiskTyped' /\ PanelTyped'
  BY <1>1, DiskStays, PanelStays
<1>4. run' \in Work /\ run'.conv = activeId
  BY <1>1, ActiveFacts DEF Work
<1>5. runs' \in 0..MaxRuns /\ runs' > 0
  BY <1>1, RunsGoUp
<1>6. WorkTyped'
  BY <1>1, <1>4, <1>5 DEF Base, WorkTyped
<1> QED
  BY <1>2, <1>3, <1>6 DEF Base

LEMMA BaseStops ==
  ASSUME Base, RunStops
  PROVE  Base'
<1>1. run' = None /\ UNCHANGED <<store, storage, panel, compression, runs, wiping, disk>>
  BY DEF RunStops
<1>2. StoreTyped'
  BY <1>1 DEF Base, StoreTyped, store
<1>3. UNCHANGED ids
  BY <1>1 DEF store
<1>4. DiskTyped' /\ PanelTyped' /\ WorkTyped'
  BY <1>1, <1>3, DiskStays, PanelStays, WorkStays
<1> QED
  BY <1>2, <1>4 DEF Base

LEMMA CompressContextIs ==
  ASSUME Base, CompressContext
  PROVE  /\ activeId # None /\ compression = None
         /\ Careful => /\ rollbackInfo = 0 /\ clearing = None
                       /\ \A i \in DOMAIN Messages : Messages[i].kind # "memory"
         /\ Cardinality(PromptsIn(Messages)) >= 2
         /\ compression'.conv = activeId
         /\ compression'.summary = Compressed(conversations[activeId])
         /\ UNCHANGED <<store, storage, panel, run, runs, wiping, disk>>
BY DEF CompressContext

LEMMA BaseCompress ==
  ASSUME Base, CompressContext
  PROVE  Base'
<1> DEFINE conv == conversations[activeId]
<1>1. /\ activeId # None /\ Cardinality(PromptsIn(Messages)) >= 2
      /\ compression' = [conv |-> activeId, summary |-> Compressed(conv)]
      /\ UNCHANGED <<store, storage, panel, run, runs, wiping, disk>>
  BY DEF CompressContext
<1>2. /\ conv \in Conversation /\ activeId \in Ids /\ activeId \in ids
      /\ Len(conv.messages) <= MaxMessages
  BY <1>1, ActiveFacts DEF Messages, Base, StoreTyped
<1>3. Cardinality(PromptsIn(conv.messages)) >= 2
  BY <1>1 DEF Messages
<1> HIDE DEF conv
<1>4. Compressed(conv) \in Summary
  BY <1>2, <1>3, CompressedIs
<1>5. compression' \in Compression /\ compression'.conv = activeId
  BY <1>1, <1>2, <1>4 DEF Compression
<1>6. WorkTyped'
  BY <1>1, <1>2, <1>5 DEF Base, WorkTyped, store
<1>7. StoreTyped' /\ UNCHANGED ids
  BY <1>1 DEF Base, StoreTyped, store
<1>8. DiskTyped' /\ PanelTyped'
  BY <1>1, <1>7, DiskStays, PanelStays
<1> QED
  BY <1>6, <1>7, <1>8 DEF Base

\* A written summary reaches the conversation it was written for.
LEMMA CompressionEndsIs ==
  ASSUME Base, CompressionEnds
  PROVE  LET c == compression.conv
         IN  /\ c \in Live(conversations) =>
                  /\ PutsSummary(conversations', conversations, c, compression.summary)
                  /\ UsedIn(conversations') \subseteq UsedIn(conversations)
                  /\ conversations'[c].messages = conversations[c].messages
                  /\ \A d \in Ids \ {c} : conversations'[d] = conversations[d]
             /\ c \notin Live(conversations) => conversations' = conversations
             /\ Typed(conversations') /\ Live(conversations') = Live(conversations)
             /\ c \in Ids /\ compression.summary \in Summary
             /\ compression # None /\ compression' = None
             /\ UNCHANGED <<ids, activeId, storage, panel, run, runs, wiping, disk>>
<1> DEFINE c == compression.conv
           s == compression.summary
           new == conversations'
<1>1. /\ compression # None /\ compression' = None
      /\ UNCHANGED <<ids, activeId, storage, panel, run, runs, wiping, disk>>
      /\ c \in Live(conversations) => PutsSummary(new, conversations, c, s)
      /\ c \notin Live(conversations) => new = conversations
  BY ExistingIs DEF CompressionEnds, SetCompressedContext, PutsSummary
<1>2. c \in Ids /\ s \in Summary
  BY <1>1 DEF Base, WorkTyped, Compression
<1>3. Typed(conversations)
  BY DEF Base, StoreTyped
<1> HIDE DEF c, s, new
<1>4. CASE c \in Live(conversations)
  <2>1. /\ Typed(new) /\ Live(new) = Live(conversations)
        /\ UsedIn(new) \subseteq UsedIn(conversations)
        /\ new[c].messages = conversations[c].messages
        /\ \A d \in Ids \ {c} : new[d] = conversations[d]
    BY <1>1, <1>2, <1>3, <1>4, SummarySet
  <2> QED
    BY <1>1, <1>2, <1>4, <2>1 DEF c, s, new
<1>5. CASE c \notin Live(conversations)
  BY <1>1, <1>2, <1>3, <1>5 DEF c, s, new
<1> QED
  BY <1>4, <1>5

LEMMA CompressionFailsIs ==
  ASSUME Base, CompressionFails
  PROVE  /\ compression # None /\ compression' = None
         /\ UNCHANGED <<ids, activeId, storage, panel, run, runs, wiping, disk>>
         /\ \/ conversations' = conversations
            \/ /\ activeId # None /\ activeId = compression.conv
               /\ Len(Messages) < MaxMessages /\ SetMessages(Told(Messages, "answer"))
<1>1. activeId \in Existing => activeId # None
  BY ConversationAssumption DEF Existing
<1> QED
  BY <1>1 DEF CompressionFails, Told

LEMMA BaseCompressed ==
  ASSUME Base, CompressionEnds \/ CompressionFails
  PROVE  Base'
<1>1. compression' = None /\ UNCHANGED <<ids, activeId, storage, panel, run, runs, wiping, disk>>
  BY CompressionEndsIs, CompressionFailsIs
<1>2. StoreTyped'
  <2>1. CASE CompressionEnds
    <3>1. Typed(conversations') /\ Live(conversations') = Live(conversations)
      BY <2>1, CompressionEndsIs
    <3> QED
      BY <1>1, <3>1 DEF Base, StoreTyped
  <2>2. CASE CompressionFails
    <3>1. "answer" \in Kinds
      BY DEF Kinds
    <3>2. CASE activeId # None /\ Len(Messages) < MaxMessages
               /\ SetMessages(Told(Messages, "answer"))
      <4>1. /\ Told(Messages, "answer") \in Seq(Message)
            /\ Len(Told(Messages, "answer")) <= MaxMessages
        BY <3>1, <3>2, ActiveFacts, ToldTyped, ConversationAssumption
      <4> QED
        BY <1>1, <3>2, <4>1, MessagesTyped
    <3>3. CASE conversations' = conversations
      BY <1>1, <3>3 DEF Base, StoreTyped
    <3> QED
      BY <2>2, <3>2, <3>3, CompressionFailsIs
  <2> QED
    BY <2>1, <2>2
<1>3. DiskTyped' /\ PanelTyped'
  BY <1>1, DiskStays, PanelStays
<1>4. WorkTyped'
  BY <1>1 DEF Base, WorkTyped
<1> QED
  BY <1>2, <1>3, <1>4 DEF Base

LEMMA ClearEndsIs ==
  ASSUME Base, ClearEnds
  PROVE  /\ Typed(conversations') /\ Live(conversations') = Live(conversations)
         /\ UsedIn(conversations') \subseteq UsedIn(conversations)
         /\ activeId = None => conversations' = conversations
         /\ activeId # None => Puts(conversations', conversations, activeId, NewConversation)
         /\ \A c \in Ids \ {activeId} : conversations'[c] = conversations[c]
<1> DEFINE new == conversations'
<1>1. Typed(conversations)
  BY DEF Base, StoreTyped
<1>2. CASE activeId = None
  BY <1>1, <1>2 DEF ClearEnds, ClearContext
<1>3. CASE activeId # None
  <2>1. Puts(new, conversations, activeId, NewConversation)
    BY <1>3 DEF ClearEnds, ClearContext, Puts
  <2>2. activeId \in Live(conversations) /\ activeId \in Ids
    BY <1>3, ActiveFacts
  <2>3. Len(NewConversation.messages) <= MaxMessages
    BY NewConversationIs, ConversationAssumption
  <2> HIDE DEF new
  <2>4. /\ Typed(new) /\ Live(new) = Live(conversations) \cup {activeId}
        /\ UsedIn(new) \subseteq UsedIn(conversations) \cup AttachmentIds(NewConversation.messages)
        /\ \A c \in Ids \ {activeId} : new[c] = conversations[c]
    BY <1>1, <2>1, <2>2, <2>3, NewConversationIs, OneSet
  <2> QED
    BY <1>3, <2>1, <2>2, <2>4, NewConversationIs DEF new
<1> QED
  BY <1>2, <1>3

LEMMA BaseClear ==
  ASSUME Base, ClearEnds
  PROVE  Base'
<1>1. /\ draft' = {} /\ rollbackInfo' = 0 /\ clearing' = None
      /\ UNCHANGED <<ids, activeId, storage, upload, work, wiping, disk>>
  BY DEF ClearEnds
<1>2. StoreTyped'
  BY <1>1, ClearEndsIs DEF Base, StoreTyped
<1>3. DiskTyped' /\ WorkTyped'
  BY <1>1 DEF Base, DiskTyped, WorkTyped, work
<1>4. 0 \in 0..MaxMessages
  BY ConversationAssumption
<1>5. PanelTyped'
  BY <1>1, <1>4 DEF Base, PanelTyped, storage
<1> QED
  BY <1>2, <1>3, <1>5 DEF Base

LEMMA BaseWipe ==
  ASSUME Base, WipeConversations \/ WipeAttachments
  PROVE  Base'
<1>1. CASE WipeConversations
  <2>1. /\ conversations' = [c \in Ids |-> None] /\ disk'.conversations = conversations'
        /\ disk'.activeId = None /\ SetActive(None)
        /\ wiping' = TRUE
        /\ unwanted' = unwanted \cup blobs \cup draft \cup UsedBy(Existing)
        /\ UNCHANGED <<ids, blobs, releasing, panel, compression, runs>>
    BY <1>1 DEF WipeConversations
  <2>2. /\ Typed(conversations') /\ Live(conversations') = {}
        /\ Typed(disk'.conversations) /\ Live(disk'.conversations) = {}
    BY <2>1, NoneUsed
  <2>3. StoreTyped' /\ DiskTyped'
    BY <2>1, <2>2, Left DEF Base, StoreTyped, DiskTyped
  <2>4. UsedBy(Existing) \subseteq Attachments
    BY UsedByIs, UsedTyped DEF Base, StoreTyped
  <2>5. PanelTyped'
    BY <2>1, <2>4 DEF Base, PanelTyped, panel
  <2>6. WorkTyped'
    BY <2>1, Left, WorkStays
  <2> QED
    BY <2>3, <2>5, <2>6 DEF Base
<1>2. CASE WipeAttachments
  <2>1. UNCHANGED <<store, disk, work>>
    BY <1>2 DEF WipeAttachments
  <2>2. PanelTyped'
    BY <1>2 DEF WipeAttachments, Base, PanelTyped, panel
  <2> QED
    BY <2>1, <2>2, BaseStays
<1> QED
  BY <1>1, <1>2

LEMMA BaseKept == Base /\ [Next]_vars => Base'
<1> SUFFICES ASSUME Base, [Next]_vars PROVE Base'
  OBVIOUS
<1>1. CASE StoreStep
  BY <1>1, BaseCreate, BaseSwitch, BaseDelete, BaseSubmit, BasePrompt, BaseRetry, BaseRunEnds,
     BaseCompressed, BaseClear, BaseWipe DEF StoreStep
<1>2. CASE Persist \/ Reload
  BY <1>2, BasePersist
<1>3. CASE \/ \E a \in Attachments : UploadStarts(a) \/ RemoveAttachment(a) \/ RemoveBlob(a)
           \/ Uploaded \/ DismissRollback \/ \E p \in 1..MaxMessages : Rollback(p)
           \/ ClearStarts
  BY <1>3, BasePanel
<1>4. CASE RunStops \/ CompressContext \/ WipeAttachments
  BY <1>4, BaseStops, BaseCompress, BaseWipe
<1>5. ASSUME NEW added \in BOOLEAN, RunBesideDraft(added) PROVE Base'
  BY <1>5, BaseRetry
<1>6. CASE UNCHANGED vars
  <2>1. UNCHANGED <<store, storage, panel, work, wiping, disk>>
    BY <1>6 DEF vars
  <2> QED
    BY <2>1 DEF Base, StoreTyped, DiskTyped, PanelTyped, WorkTyped, store, storage, panel, work
<1> QED
  BY <1>1, <1>2, <1>3, <1>4, <1>5, <1>6 DEF Next, OtherStep

-----------------------------------------------------------------------------
(* The blobs that messages and the input field refer to.                    *)

\* What a reload may bring back counts as used.
Used == UsedIn(conversations) \cup UsedIn(disk.conversations)
InHand == IF run # None THEN run.atts ELSE {}

Kept == Used \cup draft \cup InHand \subseteq blobs \cup unwanted
ReleasedUnwanted == releasing \subseteq unwanted
DraftAlone == draft \cap (Used \cup InHand) = {}
RunSound == run # None =>
  /\ run.added => run.atts \subseteq AttachmentIds(conversations[activeId].messages)
  /\ ~run.added => run.atts \cap Used = {}
UploadSound == upload # None =>
  upload.draft = draft /\ upload.att \notin Used \cup draft \cup InHand \cup releasing
WipeSound == wiping =>
  /\ Live(conversations) = {} /\ Live(disk.conversations) = {}
  /\ run = None /\ upload = None /\ draft \subseteq unwanted
ClearSound == clearing # None => run = None /\ upload = None

BlobsSound == /\ Kept /\ ReleasedUnwanted /\ DraftAlone
              /\ RunSound /\ UploadSound /\ WipeSound /\ ClearSound

LEMMA InRunIs == Base => InRun(None) = InHand
BY RunFacts, ConversationAssumption DEF InRun, InHand

LEMMA NothingUsed ==
  ASSUME NEW convs, Live(convs) = {}
  PROVE  UsedIn(convs) = {}
BY DEF UsedIn

\* Fewer uses of the same blobs.
LEMMA LessUsed ==
  ASSUME BlobsSound, UsedIn(conversations') \subseteq UsedIn(conversations), disk' = disk,
         InHand' \subseteq InHand, draft' = draft, UNCHANGED storage
  PROVE  Kept' /\ ReleasedUnwanted' /\ DraftAlone' /\ Used' \subseteq Used
<1>1. Used' \subseteq Used
  BY DEF Used
<1> QED
  BY <1>1 DEF BlobsSound, Kept, ReleasedUnwanted, DraftAlone, storage

LEMMA SettledIs ==
  ASSUME Careful, Settled
  PROVE  clearing = None /\ upload = None /\ ~wiping
BY DEF Settled

LEMMA BlobsInit == Init => BlobsSound
<1> SUFFICES ASSUME Init PROVE BlobsSound
  OBVIOUS
<1>1. /\ conversations = [c \in Ids |-> None] /\ disk.conversations = conversations
      /\ blobs = {} /\ releasing = {} /\ unwanted = {} /\ draft = {} /\ upload = None
      /\ clearing = None /\ run = None /\ wiping = FALSE
  BY DEF Init
<1>2. Used = {}
  BY <1>1, NoneUsed DEF Used
<1> QED
  BY <1>1, <1>2 DEF BlobsSound, Kept, ReleasedUnwanted, DraftAlone, RunSound, UploadSound,
                    WipeSound, ClearSound, InHand

LEMMA BlobsCreate ==
  ASSUME Careful, Base, BlobsSound,
         NEW c \in Ids, CreateConversation(c) \/ ForkConversation(c)
  PROVE  BlobsSound'
<1> DEFINE v == IF CreateConversation(c) THEN NewConversation ELSE conversations[activeId]
           new == conversations'
<1>1. /\ c \notin ids /\ ids' = ids \cup {c} /\ SetActive(c) /\ Settled
      /\ UNCHANGED <<storage, panel, compression, runs, wiping, disk>>
      /\ CreateConversation(c) \/ activeId # None
      /\ Puts(new, conversations, c, v)
  BY DEF CreateConversation, ForkConversation, Puts, MayLeave
<1>2. /\ v \in Conversation /\ Len(v.messages) <= MaxMessages
      /\ AttachmentIds(v.messages) \subseteq UsedIn(conversations)
  BY <1>1, NewConversationIs, ActiveFacts, ConversationAssumption DEF Messages
<1>3. Typed(conversations)
  BY DEF Base, StoreTyped
<1> HIDE DEF v, new
<1>4. UsedIn(new) \subseteq UsedIn(conversations)
  BY <1>1, <1>2, <1>3, OneSet
<1>5. run' = None
  BY <1>1, Left, RunFacts, ActiveFacts DEF Base, StoreTyped
<1>6. Kept' /\ ReleasedUnwanted' /\ DraftAlone'
  BY <1>1, <1>4, <1>5, LessUsed DEF InHand, new, panel
<1>7. RunSound' /\ UploadSound' /\ WipeSound' /\ ClearSound'
  BY <1>1, <1>5, SettledIs DEF RunSound, UploadSound, WipeSound, ClearSound, panel
<1> QED
  BY <1>6, <1>7 DEF BlobsSound

LEMMA BlobsSwitch ==
  ASSUME Careful, Base, BlobsSound, NEW c \in Ids, SwitchConversation(c)
  PROVE  BlobsSound'
<1>1. /\ c # activeId /\ SetActive(c) /\ Settled
      /\ UNCHANGED <<conversations, ids, storage, panel, compression, runs, wiping, disk>>
  BY DEF SwitchConversation, MayLeave
<1>2. run' = None
  BY <1>1, Left
<1>3. Kept' /\ ReleasedUnwanted' /\ DraftAlone'
  BY <1>1, <1>2, LessUsed DEF InHand, panel
<1>4. RunSound' /\ UploadSound' /\ WipeSound' /\ ClearSound'
  BY <1>1, <1>2, SettledIs DEF RunSound, UploadSound, WipeSound, ClearSound, panel
<1> QED
  BY <1>3, <1>4 DEF BlobsSound

\* Only what no other conversation uses is released, and neither the input
\* field nor a prompt on its way uses it.
LEMMA BlobsDelete ==
  ASSUME Careful, Base, BlobsSound,
         NEW c \in Ids, NEW next \in Ids \cup {None}, DeleteConversation(c, next)
  PROVE  BlobsSound'
<1> DEFINE new == conversations'
           atts == AttachmentIds(conversations[c].messages)
           others == UsedBy(Existing \ {c})
<1>1. /\ c \in Live(conversations) /\ ActiveWithout(c, next) /\ SetActive(next) /\ Settled
      /\ releasing' = releasing \cup (atts \ others)
      /\ unwanted' = unwanted \cup (atts \ (others \cup (draft \cup InRun(c))))
      /\ UNCHANGED <<ids, blobs, panel, compression, runs, wiping, disk>>
      /\ Puts(new, conversations, c, None)
  BY ExistingIs DEF DeleteConversation, Puts, MayLeave, Unreferenced, Discard
<1>2. Typed(conversations)
  BY DEF Base, StoreTyped
<1>3. atts \subseteq UsedIn(conversations)
  BY <1>1, <1>2, LiveTyped
<1>4. InRun(c) \cap atts \subseteq others
  <2>1. CASE run # None /\ run.conv # c
    <3>1. activeId \in Live(conversations) /\ activeId # c /\ activeId \in Existing \ {c}
      BY <2>1, RunFacts, ActiveFacts, ExistingIs
    <3>2. AttachmentIds(conversations[activeId].messages) \subseteq others
      BY <3>1, UsedByIs DEF Existing
    <3>3. run.added => run.atts \subseteq AttachmentIds(conversations[activeId].messages)
      BY <2>1 DEF BlobsSound, RunSound
    <3>4. ~run.added => run.atts \cap UsedIn(conversations) = {}
      BY <2>1 DEF BlobsSound, RunSound, Used
    <3> QED
      BY <1>3, <2>1, <3>2, <3>3, <3>4 DEF InRun
  <2>2. CASE ~(run # None /\ run.conv # c)
    BY <2>2 DEF InRun
  <2> QED
    BY <2>1, <2>2
<1>5. draft \cap atts = {}
  BY <1>3 DEF BlobsSound, DraftAlone, Used
<1> HIDE DEF new, others
<1>6. /\ UsedIn(new) \subseteq UsedIn(conversations)
      /\ \A d \in Ids \ {c} : new[d] = conversations[d]
  BY <1>1, <1>2, OneRemoved
<1>7. Used' \subseteq Used
  BY <1>1, <1>6 DEF Used, new
<1>8. run' = None \/ (run' = run /\ run # None /\ activeId' = activeId)
  BY <1>1, Left
<1>9. InHand' \subseteq InHand /\ draft' = draft
  BY <1>1, <1>8 DEF InHand, panel
<1>10. ReleasedUnwanted'
  BY <1>1, <1>4, <1>5 DEF BlobsSound, ReleasedUnwanted
<1>11. Kept' /\ DraftAlone'
  BY <1>1, <1>7, <1>9 DEF BlobsSound, Kept, DraftAlone
<1>12. RunSound'
  <2>1. CASE run' = None
    BY <2>1 DEF RunSound
  <2>2. CASE run' = run /\ run # None /\ activeId' = activeId
    <3>1. activeId \in Ids /\ next = activeId
      BY <1>1, <2>2, RunFacts DEF SetActive
    <3>2. activeId # c
      BY <1>1, <3>1, ConversationAssumption DEF ActiveWithout
    <3>3. new[activeId] = conversations[activeId]
      BY <1>6, <3>1, <3>2
    <3> QED
      BY <1>7, <2>2, <3>3 DEF BlobsSound, RunSound, new
  <2> QED
    BY <1>8, <2>1, <2>2
<1>13. UploadSound' /\ WipeSound' /\ ClearSound'
  BY <1>1, SettledIs DEF UploadSound, WipeSound, ClearSound, panel
<1> QED
  BY <1>10, <1>11, <1>12, <1>13 DEF BlobsSound

LEMMA BlobsPersist ==
  ASSUME Careful, Base, BlobsSound, Persist \/ Reload
  PROVE  BlobsSound'
<1>1. CASE Persist
  <2>1. disk'.conversations = conversations
        /\ UNCHANGED <<conversations, activeId, storage, panel, run, wiping>>
    BY <1>1 DEF Persist, Stored, store, work
  <2>2. Used' \subseteq Used /\ InHand' = InHand
    BY <2>1 DEF Used, InHand
  <2>3. Kept' /\ ReleasedUnwanted' /\ DraftAlone' /\ ClearSound'
    BY <2>1, <2>2 DEF BlobsSound, Kept, ReleasedUnwanted, DraftAlone, ClearSound, storage, panel
  <2>4. RunSound' /\ UploadSound'
    BY <2>1, <2>2 DEF BlobsSound, RunSound, UploadSound, storage, panel
  <2>5. WipeSound'
    BY <2>1 DEF BlobsSound, WipeSound, storage, panel
  <2> QED
    BY <2>3, <2>4, <2>5 DEF BlobsSound
<1>2. CASE Reload
  <2>1. /\ conversations' = disk.conversations
        /\ draft' = {} /\ upload' = None /\ clearing' = None
        /\ run' = None /\ releasing' = {} /\ wiping' = FALSE
        /\ UNCHANGED <<blobs, unwanted, disk>>
    BY <1>2 DEF Reload
  <2>2. Used' \subseteq Used /\ InHand' = {}
    BY <2>1 DEF Used, InHand
  <2> QED
    BY <2>1, <2>2 DEF BlobsSound, Kept, ReleasedUnwanted, DraftAlone, RunSound, UploadSound,
                      WipeSound, ClearSound
<1> QED
  BY <1>1, <1>2

LEMMA BlobsUpload ==
  ASSUME Careful, Base, BlobsSound, NEW a, UploadStarts(a)
  PROVE  BlobsSound'
<1>1. /\ Settled /\ a \notin blobs \cup unwanted \cup draft \cup InHand
      /\ upload'.att = a /\ upload'.draft = draft
      /\ UNCHANGED <<conversations, activeId, blobs, releasing, unwanted, draft, clearing,
                     run, wiping, disk>>
  BY InRunIs DEF UploadStarts, store, storage, work
<1>2. Used' = Used /\ InHand' = InHand
  BY <1>1 DEF Used, InHand
<1>3. a \notin Used \cup releasing
  BY <1>1 DEF BlobsSound, Kept, ReleasedUnwanted
<1>4. Kept' /\ ReleasedUnwanted' /\ DraftAlone' /\ RunSound' /\ UploadSound'
  BY <1>1, <1>2, <1>3 DEF BlobsSound, Kept, ReleasedUnwanted, DraftAlone, RunSound, UploadSound
<1>5. WipeSound' /\ ClearSound'
  BY <1>1, SettledIs DEF WipeSound, ClearSound
<1> QED
  BY <1>4, <1>5 DEF BlobsSound

LEMMA BlobsUploaded ==
  ASSUME Careful, Base, BlobsSound, Uploaded
  PROVE  BlobsSound'
<1>1. /\ upload # None /\ blobs' = blobs \cup {upload.att}
      /\ draft' = upload.draft \cup {upload.att} /\ upload' = None
      /\ UNCHANGED <<conversations, activeId, releasing, unwanted, clearing, run, wiping, disk>>
  BY DEF Uploaded, store, work
<1>2. Used' = Used /\ InHand' = InHand
  BY <1>1 DEF Used, InHand
<1>3. upload.draft = draft /\ upload.att \notin Used \cup draft \cup InHand
  BY <1>1 DEF BlobsSound, UploadSound
<1>4. Kept' /\ ReleasedUnwanted' /\ DraftAlone'
  BY <1>1, <1>2, <1>3 DEF BlobsSound, Kept, ReleasedUnwanted, DraftAlone
<1>5. RunSound' /\ UploadSound' /\ WipeSound' /\ ClearSound'
  BY <1>1, <1>2 DEF BlobsSound, RunSound, UploadSound, WipeSound, ClearSound
<1> QED
  BY <1>4, <1>5 DEF BlobsSound

LEMMA BlobsRemove ==
  ASSUME Careful, Base, BlobsSound, NEW a, RemoveAttachment(a) \/ RemoveBlob(a)
  PROVE  BlobsSound'
<1>1. CASE RemoveAttachment(a)
  <2>1. /\ Settled /\ a \in draft /\ draft' = draft \ {a} /\ releasing' = releasing \cup {a}
        /\ unwanted' = unwanted \cup ({a} \ (UsedIn(conversations) \cup (draft' \cup InHand)))
        /\ UNCHANGED <<conversations, activeId, blobs, upload, clearing, run, wiping, disk>>
    BY <1>1, InRunIs, UsedByIs DEF RemoveAttachment, Discard, store, work
  <2>2. Used' = Used /\ InHand' = InHand
    BY <2>1 DEF Used, InHand
  <2>3. a \notin Used \cup InHand
    BY <2>1 DEF BlobsSound, DraftAlone
  <2>4. Kept' /\ ReleasedUnwanted' /\ DraftAlone'
    BY <2>1, <2>2, <2>3 DEF BlobsSound, Kept, ReleasedUnwanted, DraftAlone, Used
  <2>5. RunSound' /\ UploadSound' /\ WipeSound' /\ ClearSound'
    BY <2>1, <2>2, SettledIs DEF BlobsSound, RunSound, UploadSound, WipeSound, ClearSound
  <2> QED
    BY <2>4, <2>5 DEF BlobsSound
<1>2. CASE RemoveBlob(a)
  <2>1. /\ a \in releasing /\ releasing' = releasing \ {a} /\ blobs' = blobs \ {a}
        /\ UNCHANGED <<conversations, activeId, unwanted, draft, upload, clearing, run,
                       wiping, disk>>
    BY <1>2 DEF RemoveBlob, store, panel, work
  <2>2. Used' = Used /\ InHand' = InHand
    BY <2>1 DEF Used, InHand
  <2>3. Kept' /\ ReleasedUnwanted' /\ DraftAlone'
    BY <2>1, <2>2 DEF BlobsSound, Kept, ReleasedUnwanted, DraftAlone
  <2>4. RunSound' /\ UploadSound' /\ WipeSound' /\ ClearSound'
    BY <2>1, <2>2 DEF BlobsSound, RunSound, UploadSound, WipeSound, ClearSound
  <2> QED
    BY <2>3, <2>4 DEF BlobsSound
<1> QED
  BY <1>1, <1>2

\* What matters to the blobs stays.
LEMMA BlobsStay ==
  ASSUME BlobsSound,
         UNCHANGED <<conversations, activeId, storage, draft, upload, clearing, run, wiping, disk>>
  PROVE  BlobsSound'
<1>1. Used' = Used /\ InHand' = InHand
  BY DEF Used, InHand
<1> QED
  BY <1>1 DEF BlobsSound, Kept, ReleasedUnwanted, DraftAlone, RunSound, UploadSound, WipeSound,
              ClearSound, storage

LEMMA BlobsUnmoved ==
  ASSUME BlobsSound,
         DismissRollback \/ CompressContext \/ (\E p \in 1..MaxMessages : Rollback(p))
           \/ UNCHANGED vars
  PROVE  BlobsSound'
<1>1. UNCHANGED <<conversations, activeId, storage, draft, upload, clearing, run, wiping, disk>>
  BY DEF DismissRollback, CompressContext, Rollback, vars, store, panel, work
<1> QED
  BY <1>1, BlobsStay

\* The attachments of the input field go with the prompt.
LEMMA BlobsSubmit ==
  ASSUME Careful, Base, BlobsSound, Submit
  PROVE  BlobsSound'
<1>1. /\ Settled /\ activeId # None /\ draft' = {}
      /\ rollbackInfo # 0 => SetMessages(RolledBack(Messages, rollbackInfo))
      /\ rollbackInfo = 0 => UNCHANGED conversations
      /\ run'.atts = draft /\ ~run'.added
      /\ UNCHANGED <<activeId, blobs, releasing, unwanted, upload, clearing, wiping, disk>>
  BY DEF Submit, RolledBack, storage
<1>2. UsedIn(conversations') \subseteq UsedIn(conversations)
  <2>1. CASE rollbackInfo # 0
    <3>1. rollbackInfo \in Nat \ {0}
      BY <2>1 DEF Base, PanelTyped
    <3>2. /\ RolledBack(Messages, rollbackInfo) \in Seq(Message)
          /\ Len(RolledBack(Messages, rollbackInfo)) <= MaxMessages
          /\ AttachmentIds(RolledBack(Messages, rollbackInfo)) \subseteq AttachmentIds(Messages)
      BY <1>1, <3>1, ActiveFacts, RolledBackTyped, ConversationAssumption
    <3>3. UsedIn(conversations') \subseteq
            UsedIn(conversations) \cup AttachmentIds(RolledBack(Messages, rollbackInfo))
      BY <1>1, <2>1, <3>2, SetMessagesIs
    <3> QED
      BY <1>1, <3>2, <3>3, ActiveFacts
  <2>2. CASE rollbackInfo = 0
    BY <1>1, <2>2
  <2> QED
    BY <2>1, <2>2
<1>3. Used' \subseteq Used /\ InHand' \subseteq draft
  BY <1>1, <1>2 DEF Used, InHand
<1>4. Kept' /\ ReleasedUnwanted' /\ DraftAlone'
  BY <1>1, <1>3 DEF BlobsSound, Kept, ReleasedUnwanted, DraftAlone
<1>5. RunSound'
  BY <1>1, <1>3 DEF BlobsSound, DraftAlone, RunSound
<1>6. UploadSound' /\ WipeSound' /\ ClearSound'
  BY <1>1, SettledIs DEF UploadSound, WipeSound, ClearSound
<1> QED
  BY <1>4, <1>5, <1>6 DEF BlobsSound

LEMMA BlobsPrompt ==
  ASSUME Careful, Base, BlobsSound, PromptAdded
  PROVE  BlobsSound'
<1> DEFINE m == PromptPut(Messages, runs, run.atts)
<1>1. /\ SetMessages(m)
      /\ run # None /\ ~run.added /\ run' = [run EXCEPT !.added = TRUE]
      /\ activeId # None /\ Len(Messages) < MaxMessages
      /\ UNCHANGED <<activeId, blobs, releasing, unwanted, draft, upload, clearing, wiping, disk>>
  BY PromptAddedIs DEF storage, panel
<1>2. /\ m \in Seq(Message) /\ Len(m) <= MaxMessages
      /\ AttachmentIds(m) \subseteq AttachmentIds(Messages) \cup run.atts
      /\ run.atts \subseteq AttachmentIds(m)
  BY <1>1, ActiveFacts, RunFacts, PromptPutTyped
<1> HIDE DEF m
<1>3. /\ UsedIn(conversations') \subseteq UsedIn(conversations) \cup AttachmentIds(m)
      /\ conversations'[activeId].messages = m
  BY <1>1, <1>2, SetMessagesIs
<1>4. AttachmentIds(Messages) \subseteq UsedIn(conversations)
  BY <1>1, ActiveFacts
<1>5. run \in Work
  BY <1>1, RunFacts
<1>6. run'.atts = run.atts /\ run'.added = TRUE
  BY <1>1, <1>5 DEF Work
<1>7. InHand = run.atts /\ InHand' \subseteq InHand
  BY <1>1, <1>6 DEF InHand
<1>8. Used' \subseteq Used \cup InHand
  BY <1>1, <1>2, <1>3, <1>4, <1>7 DEF Used
<1>9. Kept' /\ ReleasedUnwanted' /\ DraftAlone'
  BY <1>1, <1>7, <1>8 DEF BlobsSound, Kept, ReleasedUnwanted, DraftAlone
<1>10. RunSound'
  BY <1>1, <1>2, <1>3, <1>6 DEF RunSound
<1>11. UploadSound' /\ WipeSound' /\ ClearSound'
  BY <1>1, <1>7, <1>8 DEF BlobsSound, UploadSound, WipeSound, ClearSound
<1> QED
  BY <1>9, <1>10, <1>11 DEF BlobsSound

\* A run that has its end leaves the attachments of the messages alone.
LEMMA BlobsRunOver ==
  ASSUME Careful, Base, BlobsSound, run # None, run' = None,
         UsedIn(conversations') \subseteq UsedIn(conversations),
         UNCHANGED <<activeId, storage, panel, wiping, disk>>
  PROVE  BlobsSound'
<1>1. InHand' \subseteq InHand /\ draft' = draft
  BY DEF InHand, panel
<1>2. Kept' /\ ReleasedUnwanted' /\ DraftAlone' /\ Used' \subseteq Used
  BY <1>1, LessUsed
<1>3. RunSound' /\ UploadSound' /\ WipeSound' /\ ClearSound'
  BY <1>1, <1>2 DEF BlobsSound, RunSound, UploadSound, WipeSound, ClearSound, panel, storage
<1> QED
  BY <1>2, <1>3 DEF BlobsSound

LEMMA BlobsRunEnds ==
  ASSUME Careful, Base, BlobsSound,
         \/ \E kind \in {"answer", "error"} : RunEnds(kind)
         \/ \E kind \in {"partial", "memory"} : RunStopsAfter(kind)
         \/ RunStops
  PROVE  BlobsSound'
<1>1. ASSUME NEW m \in Seq(Message), Len(m) <= MaxMessages, SetMessages(m), activeId # None,
             AttachmentIds(m) \subseteq AttachmentIds(Messages)
      PROVE  UsedIn(conversations') \subseteq UsedIn(conversations)
  BY <1>1, SetMessagesIs, ActiveFacts
<1>2. ASSUME NEW kind \in {"answer", "error"}, RunEnds(kind) PROVE BlobsSound'
  <2>1. kind \in Kinds
    BY DEF Kinds
  <2>2. /\ SetMessages(Ended(Messages, kind)) /\ activeId # None
        /\ Len(Messages) < MaxMessages /\ Messages \in Seq(Message)
    BY <1>2, RunEndsIs, ActiveFacts
  <2>3. /\ Ended(Messages, kind) \in Seq(Message) /\ Len(Ended(Messages, kind)) <= MaxMessages
        /\ AttachmentIds(Ended(Messages, kind)) \subseteq AttachmentIds(Messages)
    BY <2>1, <2>2, EndedTyped
  <2>4. UsedIn(conversations') \subseteq UsedIn(conversations)
    BY <1>1, <2>2, <2>3
  <2> QED
    BY <1>2, <2>4, RunEndsIs, BlobsRunOver
<1>3. ASSUME NEW kind \in {"partial", "memory"}, RunStopsAfter(kind) PROVE BlobsSound'
  <2>1. kind \in Kinds
    BY DEF Kinds
  <2>2. /\ SetMessages(Told(Messages, kind)) /\ activeId # None
        /\ Len(Messages) < MaxMessages /\ Messages \in Seq(Message)
    BY <1>3, RunStopsAfterIs, ActiveFacts
  <2>3. /\ Told(Messages, kind) \in Seq(Message) /\ Len(Told(Messages, kind)) <= MaxMessages
        /\ AttachmentIds(Told(Messages, kind)) \subseteq AttachmentIds(Messages)
    BY <2>1, <2>2, ToldTyped, ConversationAssumption
  <2>4. UsedIn(conversations') \subseteq UsedIn(conversations)
    BY <1>1, <2>2, <2>3
  <2> QED
    BY <1>3, <2>4, RunStopsAfterIs, BlobsRunOver
<1>4. CASE RunStops
  <2>1. /\ run # None /\ run' = None /\ UNCHANGED conversations
        /\ UNCHANGED <<activeId, storage, panel, wiping, disk>>
    BY <1>4 DEF RunStops, store
  <2> QED
    BY <2>1, BlobsRunOver
<1> QED
  BY <1>2, <1>3, <1>4

LEMMA BlobsRetry ==
  ASSUME Careful, Base, BlobsSound, Retry \/ \E added \in BOOLEAN : RunBesideDraft(added)
  PROVE  BlobsSound'
<1>1. PICK added \in BOOLEAN :
        /\ run' = [conv |-> activeId, atts |-> {}, added |-> added]
        /\ Settled /\ activeId # None
        /\ UNCHANGED <<activeId, storage, panel, wiping, disk>>
        /\ SetMessages(Retried(Messages)) \/ UNCHANGED conversations
  BY DEF Retry, RunBesideDraft, Retried, store
<1>2. UsedIn(conversations') \subseteq UsedIn(conversations)
  <2>1. /\ Retried(Messages) \in Seq(Message) /\ Len(Retried(Messages)) <= MaxMessages
        /\ AttachmentIds(Retried(Messages)) \subseteq AttachmentIds(Messages)
    BY <1>1, ActiveFacts, RetriedTyped, ConversationAssumption
  <2> QED
    BY <1>1, <2>1, SetMessagesIs, ActiveFacts
<1>3. InHand' = {} /\ run'.atts = {} /\ draft' = draft
  BY <1>1 DEF InHand, panel
<1>4. Kept' /\ ReleasedUnwanted' /\ DraftAlone'
  BY <1>1, <1>2, <1>3, LessUsed
<1>5. RunSound' /\ UploadSound' /\ WipeSound' /\ ClearSound'
  BY <1>1, <1>3, SettledIs DEF RunSound, UploadSound, WipeSound, ClearSound, panel
<1> QED
  BY <1>4, <1>5 DEF BlobsSound

LEMMA BlobsCompressed ==
  ASSUME Careful, Base, BlobsSound, CompressionEnds \/ CompressionFails
  PROVE  BlobsSound'
<1>1. UNCHANGED <<ids, activeId, storage, panel, run, runs, wiping, disk>>
  BY CompressionEndsIs, CompressionFailsIs
<1>2. /\ UsedIn(conversations') \subseteq UsedIn(conversations)
      /\ Live(conversations') = Live(conversations)
      /\ activeId # None => AttachmentIds(conversations'[activeId].messages)
                              = AttachmentIds(conversations[activeId].messages)
  <2>1. CASE CompressionEnds
    <3>1. activeId # None => activeId \in Ids
      BY ActiveFacts
    <3>2. CASE compression.conv \in Live(conversations)
      BY <2>1, <3>1, <3>2, CompressionEndsIs
    <3>3. CASE compression.conv \notin Live(conversations)
      BY <2>1, <3>3, CompressionEndsIs
    <3> QED
      BY <3>2, <3>3
  <2>2. CASE CompressionFails
    <3>1. CASE conversations' = conversations
      BY <3>1
    <3>2. CASE activeId # None /\ Len(Messages) < MaxMessages
               /\ SetMessages(Told(Messages, "answer"))
      <4>1. "answer" \in Kinds
        BY DEF Kinds
      <4>2. /\ Told(Messages, "answer") \in Seq(Message)
            /\ Len(Told(Messages, "answer")) <= MaxMessages
            /\ AttachmentIds(Told(Messages, "answer")) = AttachmentIds(Messages)
        BY <3>2, <4>1, ActiveFacts, ToldTyped, ConversationAssumption
      <4>3. /\ Live(conversations') = Live(conversations)
            /\ UsedIn(conversations') \subseteq
                 UsedIn(conversations) \cup AttachmentIds(Told(Messages, "answer"))
            /\ conversations'[activeId].messages = Told(Messages, "answer")
        BY <3>2, <4>2, SetMessagesIs
      <4> QED
        BY <3>2, <4>2, <4>3, ActiveFacts DEF Messages
    <3> QED
      BY <2>2, <3>1, <3>2, CompressionFailsIs
  <2> QED
    BY <2>1, <2>2
<1>3. InHand' = InHand /\ draft' = draft
  BY <1>1 DEF InHand, panel
<1>4. Kept' /\ ReleasedUnwanted' /\ DraftAlone' /\ Used' \subseteq Used
  BY <1>1, <1>2, <1>3, LessUsed
<1>5. RunSound'
  <2>1. run # None => activeId # None
    BY RunFacts
  <2> QED
    BY <1>1, <1>2, <1>4, <2>1 DEF BlobsSound, RunSound
<1>6. UploadSound' /\ WipeSound' /\ ClearSound'
  BY <1>1, <1>2, <1>3, <1>4 DEF BlobsSound, UploadSound, WipeSound, ClearSound, storage, panel
<1> QED
  BY <1>4, <1>5, <1>6 DEF BlobsSound

\* A clear releases what only this conversation and the input field use.
LEMMA BlobsClearStarts ==
  ASSUME Careful, Base, BlobsSound, ClearStarts
  PROVE  BlobsSound'
<1> DEFINE atts == AttachmentIds(conversations[activeId].messages)
           others == UsedBy(Existing \ {activeId})
<1>1. /\ Settled /\ run = None /\ clearing' = (atts \ others) \cup draft
      /\ releasing' = releasing \cup clearing'
      /\ unwanted' = unwanted \cup ((atts \cup draft) \ others)
      /\ UNCHANGED <<conversations, activeId, blobs, draft, upload, run, wiping, disk>>
  BY DEF ClearStarts, Unreferenced, Messages, Discard, store, work
<1>2. others \subseteq UsedIn(conversations)
  BY UsedByIs DEF Existing, Live
<1> HIDE DEF atts, others
<1>3. draft \cap others = {}
  BY <1>2 DEF BlobsSound, DraftAlone, Used
<1>4. Used' = Used /\ InHand' = InHand
  BY <1>1 DEF Used, InHand
<1>5. Kept' /\ ReleasedUnwanted' /\ DraftAlone'
  BY <1>1, <1>3, <1>4 DEF BlobsSound, Kept, ReleasedUnwanted, DraftAlone
<1>6. RunSound' /\ UploadSound' /\ WipeSound' /\ ClearSound'
  BY <1>1, SettledIs DEF RunSound, UploadSound, WipeSound, ClearSound
<1> QED
  BY <1>5, <1>6 DEF BlobsSound

LEMMA BlobsClearEnds ==
  ASSUME Careful, Base, BlobsSound, ClearEnds
  PROVE  BlobsSound'
<1>1. /\ clearing # None /\ draft' = {} /\ clearing' = None
      /\ UNCHANGED <<activeId, blobs, releasing, unwanted, upload, run, wiping, disk>>
  BY DEF ClearEnds, storage, work
<1>2. /\ UsedIn(conversations') \subseteq UsedIn(conversations)
      /\ Live(conversations') = Live(conversations)
  BY ClearEndsIs
<1>3. run = None /\ upload = None
  BY <1>1 DEF BlobsSound, ClearSound
<1>4. Used' \subseteq Used /\ InHand' = {}
  BY <1>1, <1>2, <1>3 DEF Used, InHand
<1>5. Kept' /\ ReleasedUnwanted' /\ DraftAlone'
  BY <1>1, <1>4 DEF BlobsSound, Kept, ReleasedUnwanted, DraftAlone
<1>6. RunSound' /\ UploadSound' /\ WipeSound' /\ ClearSound'
  BY <1>1, <1>2, <1>3 DEF BlobsSound, RunSound, UploadSound, WipeSound, ClearSound
<1> QED
  BY <1>5, <1>6 DEF BlobsSound

LEMMA BlobsWipe ==
  ASSUME Careful, Base, BlobsSound, WipeConversations \/ WipeAttachments
  PROVE  BlobsSound'
<1>1. CASE WipeConversations
  <2>1. /\ conversations' = [c \in Ids |-> None] /\ disk'.conversations = conversations'
        /\ SetActive(None) /\ Settled
        /\ unwanted' = unwanted \cup blobs \cup draft \cup UsedBy(Existing)
        /\ UNCHANGED <<blobs, releasing, draft, upload, clearing>>
    BY <1>1 DEF WipeConversations, panel
  <2>2. /\ Live(conversations') = {} /\ Live(disk'.conversations) = {}
        /\ UsedIn(conversations') = {} /\ UsedIn(disk'.conversations) = {}
    BY <2>1, NoneUsed
  <2>3. run' = None
    BY <2>1, Left, RunFacts
  <2>4. Used' = {} /\ InHand' = {}
    BY <2>2, <2>3 DEF Used, InHand
  <2>5. Kept' /\ ReleasedUnwanted' /\ DraftAlone'
    BY <2>1, <2>4 DEF BlobsSound, Kept, ReleasedUnwanted, DraftAlone
  <2>6. RunSound' /\ UploadSound' /\ WipeSound' /\ ClearSound'
    BY <2>1, <2>2, <2>3, SettledIs DEF RunSound, UploadSound, WipeSound, ClearSound
  <2> QED
    BY <2>5, <2>6 DEF BlobsSound
<1>2. CASE WipeAttachments
  <2>1. /\ wiping /\ blobs' = {} /\ wiping' = FALSE
        /\ UNCHANGED <<conversations, activeId, releasing, unwanted, draft, upload, clearing,
                       run, disk>>
    BY <1>2 DEF WipeAttachments, store, panel, work
  <2>2. /\ Live(conversations) = {} /\ Live(disk.conversations) = {}
        /\ run = None /\ upload = None /\ draft \subseteq unwanted
    BY <2>1 DEF BlobsSound, WipeSound
  <2>3. Used = {} /\ InHand = {} /\ Used' = Used /\ InHand' = InHand
    BY <2>1, <2>2, NothingUsed DEF Used, InHand
  <2>4. Kept' /\ ReleasedUnwanted' /\ DraftAlone'
    BY <2>1, <2>2, <2>3 DEF BlobsSound, Kept, ReleasedUnwanted, DraftAlone
  <2>5. RunSound' /\ UploadSound' /\ WipeSound' /\ ClearSound'
    BY <2>1, <2>2 DEF BlobsSound, RunSound, UploadSound, WipeSound, ClearSound
  <2> QED
    BY <2>4, <2>5 DEF BlobsSound
<1> QED
  BY <1>1, <1>2

LEMMA BlobsStep == Careful /\ Base /\ BlobsSound /\ [Next]_vars => BlobsSound'
<1> SUFFICES ASSUME Careful, Base, BlobsSound, [Next]_vars PROVE BlobsSound'
  OBVIOUS
<1>1. CASE StoreStep
  BY <1>1, BlobsCreate, BlobsSwitch, BlobsDelete, BlobsSubmit, BlobsPrompt, BlobsRetry,
     BlobsRunEnds, BlobsCompressed, BlobsClearEnds, BlobsWipe DEF StoreStep
<1>2. CASE Persist \/ Reload
  BY <1>2, BlobsPersist
<1>3. ASSUME NEW a \in Attachments, UploadStarts(a) \/ RemoveAttachment(a) \/ RemoveBlob(a)
      PROVE  BlobsSound'
  BY <1>3, BlobsUpload, BlobsRemove
<1>4. CASE Uploaded \/ RunStops \/ \E added \in BOOLEAN : RunBesideDraft(added)
  BY <1>4, BlobsUploaded, BlobsRunEnds, BlobsRetry
<1>5. CASE \/ DismissRollback \/ CompressContext \/ (\E p \in 1..MaxMessages : Rollback(p))
           \/ UNCHANGED vars
  BY <1>5, BlobsUnmoved
<1>6. CASE ClearStarts \/ WipeAttachments
  BY <1>6, BlobsClearStarts, BlobsWipe
<1> QED
  BY <1>1, <1>2, <1>3, <1>4, <1>5, <1>6 DEF Next, OtherStep

-----------------------------------------------------------------------------
(* The summaries.                                                           *)

AllStand == AllSound(conversations) /\ AllSound(disk.conversations)
PendingStands == compression # None /\ compression.conv \in Live(conversations) =>
  Stands(conversations[compression.conv].messages, compression.summary)
PendingUntouched == compression # None =>
  compression.conv # activeId \/ (rollbackInfo = 0 /\ clearing = None)
RollbackBehind == activeId # None /\ rollbackInfo # 0 =>
  (conversations[activeId].summary.from > 0
     => rollbackInfo > conversations[activeId].summary.from + 1)

SummariesSound == AllStand /\ PendingStands /\ PendingUntouched /\ RollbackBehind

LEMMA SummariesInit == Init => SummariesSound
<1> SUFFICES ASSUME Init PROVE SummariesSound
  OBVIOUS
<1>1. /\ conversations = [c \in Ids |-> None] /\ disk.conversations = conversations
      /\ rollbackInfo = 0 /\ compression = None
  BY DEF Init
<1>2. AllStand
  BY <1>1, NoneUsed DEF AllStand
<1> QED
  BY <1>1, <1>2 DEF SummariesSound, PendingStands, PendingUntouched, RollbackBehind

LEMMA MayLeaveIs ==
  ASSUME Careful, MayLeave
  PROVE  rollbackInfo = 0 /\ clearing = None
BY DEF MayLeave, Settled

\* What matters to the summaries stays.
LEMMA SummariesStay ==
  ASSUME SummariesSound,
         UNCHANGED <<conversations, activeId, rollbackInfo, clearing, compression, disk>>
  PROVE  SummariesSound'
BY DEF SummariesSound, AllStand, PendingStands, PendingUntouched, RollbackBehind

LEMMA SummariesUnmoved ==
  ASSUME SummariesSound,
         \/ \E a \in Attachments : UploadStarts(a) \/ RemoveAttachment(a) \/ RemoveBlob(a)
         \/ Uploaded \/ RunStops \/ WipeAttachments
         \/ \E added \in BOOLEAN : RunBesideDraft(added)
         \/ UNCHANGED vars
  PROVE  SummariesSound'
<1>1. UNCHANGED <<conversations, activeId, rollbackInfo, clearing, compression, disk>>
  BY DEF UploadStarts, RemoveAttachment, RemoveBlob, Uploaded, RunStops, WipeAttachments,
         RunBesideDraft, vars, store, panel, work
<1> QED
  BY <1>1, SummariesStay

\* The messages of the active conversation change, and every summary that is
\* meant for them still stands.
LEMMA SummariesSet ==
  ASSUME Base, SummariesSound, activeId # None,
         NEW m \in Seq(Message), Len(m) <= MaxMessages, SetMessages(m),
         ErrorsLast(m), Stands(m, conversations[activeId].summary),
         \/ compression' = None
         \/ /\ compression' = compression
            /\ compression # None /\ compression.conv = activeId => Stands(m, compression.summary),
         rollbackInfo' = rollbackInfo \/ rollbackInfo' = 0,
         UNCHANGED <<activeId, clearing, disk>>
  PROVE  SummariesSound'
<1> DEFINE new == conversations'
<1>1. PutsMessages(new, conversations, activeId, m)
  BY DEF SetMessages, PutsMessages
<1>2. Typed(conversations) /\ AllSound(conversations) /\ activeId \in Live(conversations)
  BY ActiveFacts DEF Base, StoreTyped, SummariesSound, AllStand
<1>3. /\ Live(new) = Live(conversations) /\ new[activeId].messages = m
      /\ new[activeId].summary = conversations[activeId].summary
      /\ \A c \in Ids \ {activeId} : new[c] = conversations[c]
  BY SetMessagesIs
<1> HIDE DEF new
<1>4. AllSound(new)
  BY <1>1, <1>2, MessagesSound
<1>5. AllStand'
  BY <1>4 DEF new, AllStand, SummariesSound
<1>6. PendingStands'
  <2>1. CASE compression' = None
    BY <2>1 DEF PendingStands
  <2>2. CASE /\ compression' = compression /\ compression # None
             /\ compression.conv \in Live(conversations)
    <3>1. CASE compression.conv = activeId
      BY <1>3, <2>2, <3>1 DEF new, PendingStands
    <3>2. CASE compression.conv # activeId
      <4>1. new[compression.conv] = conversations[compression.conv]
        BY <1>3, <2>2, <3>2 DEF Live
      <4> QED
        BY <2>2, <4>1 DEF new, PendingStands, SummariesSound
    <3> QED
      BY <3>1, <3>2
  <2>3. CASE compression' = compression /\ compression.conv \notin Live(conversations)
    BY <1>3, <2>3 DEF new, PendingStands
  <2> QED
    BY <2>1, <2>2, <2>3 DEF PendingStands
<1>7. PendingUntouched'
  BY DEF SummariesSound, PendingUntouched
<1>8. RollbackBehind'
  BY <1>3 DEF new, SummariesSound, RollbackBehind
<1> QED
  BY <1>5, <1>6, <1>7, <1>8 DEF SummariesSound

\* What the active conversation and the pending summary bring to that.
LEMMA ActiveStands ==
  ASSUME Base, SummariesSound, activeId # None
  PROVE  /\ ErrorsLast(Messages) /\ Stands(Messages, conversations[activeId].summary)
         /\ compression # None /\ compression.conv = activeId =>
              Stands(Messages, compression.summary) /\ compression.summary \in Summary
<1>1. activeId \in Live(conversations)
  BY ActiveFacts
<1>2. ConvSound(conversations[activeId])
  BY <1>1 DEF SummariesSound, AllStand, AllSound
<1>3. compression # None => compression.summary \in Summary
  BY DEF Base, WorkTyped, Compression
<1>4. compression # None /\ compression.conv = activeId => Stands(Messages, compression.summary)
  BY <1>1 DEF SummariesSound, PendingStands, Messages
<1> QED
  BY <1>2, <1>3, <1>4 DEF ConvSound, Messages

LEMMA SummariesCreate ==
  ASSUME Careful, Base, SummariesSound,
         NEW c \in Ids, CreateConversation(c) \/ ForkConversation(c)
  PROVE  SummariesSound'
<1> DEFINE v == IF CreateConversation(c) THEN NewConversation ELSE conversations[activeId]
           new == conversations'
<1>1. /\ c \notin ids /\ MayLeave
      /\ rollbackInfo' = rollbackInfo /\ clearing' = clearing
      /\ UNCHANGED <<compression, disk>>
      /\ CreateConversation(c) \/ activeId # None
      /\ Puts(new, conversations, c, v)
  BY DEF CreateConversation, ForkConversation, Puts, panel
<1>2. /\ Typed(conversations) /\ AllSound(conversations) /\ Live(conversations) \subseteq ids
  BY DEF Base, StoreTyped, SummariesSound, AllStand
<1>3. v \in Conversation /\ Len(v.messages) <= MaxMessages /\ ConvSound(v)
  BY <1>1, <1>2, NewConversationIs, ActiveFacts, ConversationAssumption DEF Messages, AllSound
<1> HIDE DEF v, new
<1>4. AllSound(new)
  BY <1>1, <1>2, <1>3, OneSound
<1>5. Live(new) = Live(conversations) \cup {c} /\ \A d \in Ids \ {c} : new[d] = conversations[d]
  BY <1>1, <1>2, <1>3, OneSet
<1>6. rollbackInfo' = 0 /\ clearing' = None
  BY <1>1, MayLeaveIs
<1>7. AllStand'
  BY <1>1, <1>4 DEF new, AllStand, SummariesSound
<1>8. PendingStands'
  <2>1. ASSUME compression # None, compression.conv \in Live(new)
        PROVE  /\ compression.conv \in Live(conversations)
               /\ new[compression.conv] = conversations[compression.conv]
    <3>1. compression.conv \in ids /\ compression.conv # c
      BY <1>1, <2>1 DEF Base, WorkTyped
    <3> QED
      BY <1>5, <2>1, <3>1 DEF Live
  <2> QED
    BY <1>1, <2>1 DEF new, PendingStands, SummariesSound
<1>9. PendingUntouched' /\ RollbackBehind'
  BY <1>6 DEF PendingUntouched, RollbackBehind
<1> QED
  BY <1>7, <1>8, <1>9 DEF SummariesSound

LEMMA SummariesSwitch ==
  ASSUME Careful, Base, SummariesSound, NEW c \in Ids, SwitchConversation(c)
  PROVE  SummariesSound'
<1>1. /\ MayLeave /\ rollbackInfo' = rollbackInfo /\ clearing' = clearing
      /\ UNCHANGED <<conversations, compression, disk>>
  BY DEF SwitchConversation, panel
<1>2. rollbackInfo' = 0 /\ clearing' = None
  BY <1>1, MayLeaveIs
<1> QED
  BY <1>1, <1>2 DEF SummariesSound, AllStand, PendingStands, PendingUntouched, RollbackBehind

LEMMA SummariesDelete ==
  ASSUME Careful, Base, SummariesSound,
         NEW c \in Ids, NEW next \in Ids \cup {None}, DeleteConversation(c, next)
  PROVE  SummariesSound'
<1> DEFINE new == conversations'
<1>1. /\ MayLeave /\ rollbackInfo' = rollbackInfo /\ clearing' = clearing
      /\ UNCHANGED <<compression, disk>>
      /\ Puts(new, conversations, c, None)
  BY DEF DeleteConversation, Puts, panel
<1>2. Typed(conversations) /\ AllSound(conversations)
  BY DEF Base, StoreTyped, SummariesSound, AllStand
<1> HIDE DEF new
<1>3. AllSound(new)
  BY <1>1, <1>2, RestSound
<1>4. Live(new) = Live(conversations) \ {c} /\ \A d \in Ids \ {c} : new[d] = conversations[d]
  BY <1>1, <1>2, OneRemoved
<1>5. rollbackInfo' = 0 /\ clearing' = None
  BY <1>1, MayLeaveIs
<1>6. AllStand'
  BY <1>1, <1>3 DEF new, AllStand, SummariesSound
<1>7. PendingStands'
  <2>1. ASSUME compression.conv \in Live(new)
        PROVE  /\ compression.conv \in Live(conversations)
               /\ new[compression.conv] = conversations[compression.conv]
    BY <1>4, <2>1 DEF Live
  <2> QED
    BY <1>1, <2>1 DEF new, PendingStands, SummariesSound
<1>8. PendingUntouched' /\ RollbackBehind'
  BY <1>5 DEF PendingUntouched, RollbackBehind
<1> QED
  BY <1>6, <1>7, <1>8 DEF SummariesSound

LEMMA SummariesPersist ==
  ASSUME Careful, Base, SummariesSound, Persist \/ Reload
  PROVE  SummariesSound'
<1>1. CASE Persist
  <2>1. disk'.conversations = conversations
        /\ UNCHANGED <<conversations, activeId, rollbackInfo, clearing, compression>>
    BY <1>1 DEF Persist, Stored, store, panel, work
  <2> QED
    BY <2>1 DEF SummariesSound, AllStand, PendingStands, PendingUntouched, RollbackBehind
<1>2. CASE Reload
  <2>1. /\ conversations' = disk.conversations /\ rollbackInfo' = 0 /\ compression' = None
        /\ disk' = disk
    BY <1>2 DEF Reload
  <2> QED
    BY <2>1 DEF SummariesSound, AllStand, PendingStands, PendingUntouched, RollbackBehind
<1> QED
  BY <1>1, <1>2

\* An answer behind the prompt where the summary ends: none of what the summary
\* replaces goes with a rollback to it.
LEMMA SummariesRollback ==
  ASSUME Careful, Base, SummariesSound,
         DismissRollback \/ \E p \in 1..MaxMessages : Rollback(p)
  PROVE  SummariesSound'
<1>1. UNCHANGED <<conversations, activeId, clearing, compression, disk>>
  BY DEF DismissRollback, Rollback, store, work
<1>2. AllStand' /\ PendingStands'
  BY <1>1 DEF SummariesSound, AllStand, PendingStands
<1>3. CASE DismissRollback
  <2>1. rollbackInfo' = 0
    BY <1>3 DEF DismissRollback
  <2> QED
    BY <1>1, <1>2, <2>1 DEF SummariesSound, PendingUntouched, RollbackBehind
<1>4. ASSUME NEW p \in 1..MaxMessages, Rollback(p) PROVE SummariesSound'
  <2> DEFINE m == conversations[activeId].messages
             s == conversations[activeId].summary
             e == GroupEnd(m, p)
  <2>1. /\ activeId # None /\ Undisturbed /\ p \in DOMAIN m /\ e > s.from /\ rollbackInfo' = p
    BY <1>4 DEF Rollback, Messages, From
  <2>2. m \in Seq(Message) /\ s \in Summary /\ Stands(m, s)
    BY <2>1, ActiveFacts, ActiveStands DEF Messages
  <2>3. p \in Nat \ {0} /\ p <= Len(m) /\ Len(m) \in Nat /\ s.from \in Nat
    BY <2>1, <2>2, MessageTyped DEF Summary
  <2>4. e \in 0..Len(m) /\ \A i \in p..e : ~IsPrompt(m[i])
    BY <2>2, <2>3, GroupEnds
  <2>5. s.from > 0 => IsPrompt(m[s.from + 1])
    BY <2>2 DEF Stands
  <2> HIDE DEF m, s, e
  <2>6. s.from > 0 => p > s.from + 1
    <3>1. ASSUME s.from > 0, ~(p > s.from + 1) PROVE s.from + 1 \in p..e
      BY <2>1, <2>3, <2>4, <3>1
    <3> QED
      BY <2>3, <2>4, <2>5, <3>1
  <2>7. RollbackBehind'
    BY <1>1, <2>1, <2>6 DEF RollbackBehind, s
  <2>8. PendingUntouched'
    BY <1>1, <2>1 DEF PendingUntouched, Undisturbed
  <2> QED
    BY <1>2, <2>7, <2>8 DEF SummariesSound
<1> QED
  BY <1>3, <1>4

LEMMA SummariesSubmit ==
  ASSUME Careful, Base, SummariesSound, Submit
  PROVE  SummariesSound'
<1>1. /\ activeId # None /\ rollbackInfo' = 0
      /\ rollbackInfo # 0 => Undisturbed /\ SetMessages(RolledBack(Messages, rollbackInfo))
      /\ rollbackInfo = 0 => UNCHANGED conversations
      /\ UNCHANGED <<activeId, clearing, compression, disk>>
  BY DEF Submit, RolledBack
<1>2. CASE rollbackInfo # 0
  <2> DEFINE m == RolledBack(Messages, rollbackInfo)
             s == conversations[activeId].summary
  <2>1. rollbackInfo \in Nat \ {0}
    BY <1>2 DEF Base, PanelTyped
  <2>2. Messages \in Seq(Message) /\ s \in Summary /\ ErrorsLast(Messages) /\ Stands(Messages, s)
    BY <1>1, ActiveFacts, ActiveStands
  <2>3. s.from > 0 => rollbackInfo > s.from + 1
    BY <1>1, <1>2 DEF SummariesSound, RollbackBehind
  <2>4. m \in Seq(Message) /\ Len(m) <= MaxMessages /\ ErrorsLast(m)
    BY <1>1, <2>1, <2>2, ActiveFacts, RolledBackTyped, ConversationAssumption
  <2>5. Stands(m, s)
    BY <2>1, <2>2, <2>3, RolledBackStands
  <2>6. ~(compression # None /\ compression.conv = activeId)
    BY <1>1, <1>2 DEF Undisturbed
  <2> HIDE DEF m
  <2> QED
    BY <1>1, <1>2, <2>4, <2>5, <2>6, SummariesSet DEF m
<1>3. CASE rollbackInfo = 0
  BY <1>1, <1>3 DEF SummariesSound, AllStand, PendingStands, PendingUntouched, RollbackBehind
<1> QED
  BY <1>2, <1>3

LEMMA SummariesPrompt ==
  ASSUME Careful, Base, SummariesSound, PromptAdded
  PROVE  SummariesSound'
<1> DEFINE m == PromptPut(Messages, runs, run.atts)
<1>1. /\ SetMessages(m) /\ run # None /\ activeId # None /\ Len(Messages) < MaxMessages
      /\ UNCHANGED <<activeId, rollbackInfo, clearing, compression, disk>>
  BY PromptAddedIs DEF panel
<1>2. m \in Seq(Message) /\ Len(m) <= MaxMessages /\ ErrorsLast(m)
  BY <1>1, ActiveFacts, RunFacts, PromptPutTyped
<1>3. ASSUME NEW s \in Summary, Stands(Messages, s) PROVE Stands(m, s)
  BY <1>1, <1>3, ActiveFacts, RunFacts, PromptPutStands
<1> HIDE DEF m
<1>4. Stands(m, conversations[activeId].summary)
  BY <1>1, <1>3, ActiveFacts, ActiveStands
<1>5. compression # None /\ compression.conv = activeId => Stands(m, compression.summary)
  BY <1>1, <1>3, ActiveStands
<1> QED
  BY <1>1, <1>2, <1>4, <1>5, SummariesSet

LEMMA SummariesRunEnds ==
  ASSUME Careful, Base, SummariesSound,
         \/ \E kind \in {"answer", "error"} : RunEnds(kind)
         \/ \E kind \in {"partial", "memory"} : RunStopsAfter(kind)
  PROVE  SummariesSound'
<1>1. ASSUME NEW kind \in {"answer", "error"}, RunEnds(kind) PROVE SummariesSound'
  <2> DEFINE m == Ended(Messages, kind)
  <2>1. /\ SetMessages(m) /\ activeId # None /\ Len(Messages) < MaxMessages
        /\ UNCHANGED <<activeId, rollbackInfo, clearing, compression, disk>>
    BY <1>1, RunEndsIs DEF panel
  <2>2. kind \in Kinds /\ Messages \in Seq(Message) /\ ErrorsLast(Messages)
    BY <2>1, ActiveFacts, ActiveStands DEF Kinds
  <2>3. m \in Seq(Message) /\ Len(m) <= MaxMessages /\ ErrorsLast(m)
    BY <2>1, <2>2, EndedTyped, EndedErrorsLast
  <2>4. ASSUME NEW s \in Summary, Stands(Messages, s) PROVE Stands(m, s)
    BY <2>2, <2>4, EndedStands
  <2> HIDE DEF m
  <2>5. Stands(m, conversations[activeId].summary)
    BY <2>1, <2>4, ActiveFacts, ActiveStands
  <2>6. compression # None /\ compression.conv = activeId => Stands(m, compression.summary)
    BY <2>1, <2>4, ActiveStands
  <2> QED
    BY <2>1, <2>3, <2>5, <2>6, SummariesSet
<1>2. ASSUME NEW kind \in {"partial", "memory"}, RunStopsAfter(kind) PROVE SummariesSound'
  <2> DEFINE m == Told(Messages, kind)
  <2>1. /\ SetMessages(m) /\ activeId # None /\ Len(Messages) < MaxMessages
        /\ UNCHANGED <<activeId, rollbackInfo, clearing, compression, disk>>
    BY <1>2, RunStopsAfterIs DEF panel
  <2>2. kind \in Kinds /\ Messages \in Seq(Message) /\ ErrorsLast(Messages)
    BY <2>1, ActiveFacts, ActiveStands DEF Kinds
  <2>3. m \in Seq(Message) /\ Len(m) <= MaxMessages /\ ErrorsLast(m)
    BY <2>1, <2>2, ToldTyped, ToldErrorsLast, ConversationAssumption
  <2>4. ASSUME NEW s \in Summary, Stands(Messages, s) PROVE Stands(m, s)
    BY <2>2, <2>4, ToldStands
  <2> HIDE DEF m
  <2>5. Stands(m, conversations[activeId].summary)
    BY <2>1, <2>4, ActiveFacts, ActiveStands
  <2>6. compression # None /\ compression.conv = activeId => Stands(m, compression.summary)
    BY <2>1, <2>4, ActiveStands
  <2> QED
    BY <2>1, <2>3, <2>5, <2>6, SummariesSet
<1> QED
  BY <1>1, <1>2

LEMMA SummariesRetry ==
  ASSUME Careful, Base, SummariesSound, Retry
  PROVE  SummariesSound'
<1> DEFINE m == Retried(Messages)
           s == conversations[activeId].summary
<1>1. /\ SetMessages(m) /\ activeId # None /\ Undisturbed
      /\ \A i \in DOMAIN Messages : Messages[i].kind = "partial" => i > s.from
      /\ UNCHANGED <<activeId, rollbackInfo, clearing, compression, disk>>
  BY DEF Retry, Retried, panel, From
<1>2. /\ Messages \in Seq(Message) /\ s \in Summary
      /\ ErrorsLast(Messages) /\ Stands(Messages, s)
  BY <1>1, ActiveFacts, ActiveStands
<1>3. \A i \in 1..s.from : Messages[i].kind # "partial"
  <2>1. ASSUME NEW i \in 1..s.from PROVE i \in DOMAIN Messages /\ ~(i > s.from)
    <3>1. s.from \in Nat /\ s.from # 0 /\ DOMAIN Messages = 1..Len(Messages)
          /\ Len(Messages) \in Nat
      BY <1>2, <2>1, MessageTyped DEF Summary
    <3>2. s.from < Len(Messages)
      BY <1>2, <3>1 DEF Stands
    <3> QED
      BY <3>1, <3>2
  <2> QED
    BY <1>1, <2>1
<1>4. m \in Seq(Message) /\ Len(m) <= MaxMessages
  BY <1>1, <1>2, ActiveFacts, RetriedTyped, ConversationAssumption
<1>5. ErrorsLast(m) /\ Stands(m, s)
  BY <1>2, <1>3, RetriedErrorsLast, RetriedStands
<1>6. ~(compression # None /\ compression.conv = activeId)
  BY <1>1 DEF Undisturbed
<1> HIDE DEF m
<1> QED
  BY <1>1, <1>4, <1>5, <1>6, SummariesSet DEF s

LEMMA SummariesCompress ==
  ASSUME Careful, Base, SummariesSound, CompressContext
  PROVE  SummariesSound'
<1> DEFINE conv == conversations[activeId]
<1>1. /\ activeId # None /\ rollbackInfo = 0 /\ clearing = None
      /\ \A i \in DOMAIN Messages : Messages[i].kind # "memory"
      /\ Cardinality(PromptsIn(Messages)) >= 2
      /\ compression'.conv = activeId
      /\ compression'.summary = Compressed(conv)
      /\ UNCHANGED <<conversations, activeId, rollbackInfo, clearing, disk>>
  BY CompressContextIs DEF store, panel
<1>2. Messages = conv.messages
  BY DEF Messages
<1>3. conv \in Conversation /\ Len(conv.messages) <= MaxMessages /\ ConvSound(conv)
  BY <1>1, <1>2, ActiveFacts, ActiveStands DEF ConvSound
<1>4. Stands(conv.messages, Compressed(conv))
  <2>1. \A i \in DOMAIN conv.messages : conv.messages[i].kind # "memory"
    BY <1>1, <1>2
  <2>2. Cardinality(PromptsIn(conv.messages)) >= 2
    BY <1>1, <1>2
  <2> HIDE DEF conv
  <2> QED
    BY <1>3, <2>1, <2>2, CompressedSound
<1>5. AllStand' /\ RollbackBehind'
  BY <1>1 DEF SummariesSound, AllStand, RollbackBehind
<1>6. PendingStands'
  BY <1>1, <1>4 DEF PendingStands
<1>7. PendingUntouched'
  BY <1>1 DEF PendingUntouched
<1> QED
  BY <1>5, <1>6, <1>7 DEF SummariesSound

LEMMA SummariesCompressed ==
  ASSUME Careful, Base, SummariesSound, CompressionEnds \/ CompressionFails
  PROVE  SummariesSound'
<1>1. CASE CompressionEnds
  <2> DEFINE c == compression.conv
             s == compression.summary
             new == conversations'
  <2>1. /\ c \in Live(conversations) => PutsSummary(new, conversations, c, s)
        /\ c \notin Live(conversations) => new = conversations
        /\ \A d \in Ids \ {c} : new[d] = conversations[d]
        /\ c \in Ids /\ s \in Summary /\ compression # None /\ compression' = None
        /\ rollbackInfo' = rollbackInfo
        /\ UNCHANGED <<activeId, disk>>
    BY <1>1, CompressionEndsIs DEF panel
  <2>2. Typed(conversations) /\ AllSound(conversations)
    BY DEF Base, StoreTyped, SummariesSound, AllStand
  <2>3. c \in Live(conversations) => Stands(conversations[c].messages, s)
    BY <2>1 DEF SummariesSound, PendingStands
  <2>4. activeId # None => activeId \in Ids
    BY ActiveFacts
  <2>5. c # activeId \/ rollbackInfo = 0
    BY <2>1 DEF SummariesSound, PendingUntouched
  <2> HIDE DEF c, s, new
  <2>6. AllSound(new)
    BY <2>1, <2>2, <2>3, SummarySound
  <2>7. AllStand'
    BY <2>1, <2>6 DEF new, AllStand, SummariesSound
  <2>8. RollbackBehind'
    BY <2>1, <2>4, <2>5 DEF new, SummariesSound, RollbackBehind
  <2> QED
    BY <2>1, <2>7, <2>8 DEF SummariesSound, PendingStands, PendingUntouched
<1>2. CASE CompressionFails
  <2>1. compression' = None /\ UNCHANGED <<activeId, rollbackInfo, clearing, disk>>
    BY <1>2, CompressionFailsIs DEF panel
  <2>2. CASE conversations' = conversations
    BY <2>1, <2>2 DEF SummariesSound, AllStand, PendingStands, PendingUntouched, RollbackBehind
  <2>3. CASE activeId # None /\ Len(Messages) < MaxMessages
             /\ SetMessages(Told(Messages, "answer"))
    <3> DEFINE m == Told(Messages, "answer")
               s == conversations[activeId].summary
    <3>1. "answer" \in Kinds
      BY DEF Kinds
    <3>2. /\ Messages \in Seq(Message) /\ s \in Summary
          /\ ErrorsLast(Messages) /\ Stands(Messages, s)
      BY <2>3, ActiveFacts, ActiveStands
    <3>3. m \in Seq(Message) /\ Len(m) <= MaxMessages
      BY <2>3, <3>1, <3>2, ToldTyped, ConversationAssumption
    <3>4. ErrorsLast(m) /\ Stands(m, s)
      BY <3>1, <3>2, ToldErrorsLast, ToldStands
    <3>5. SetMessages(m) /\ activeId # None
      BY <2>3
    <3> HIDE DEF m
    <3> QED
      BY <2>1, <3>3, <3>4, <3>5, SummariesSet DEF s
  <2> QED
    BY <1>2, <2>2, <2>3, CompressionFailsIs
<1> QED
  BY <1>1, <1>2

LEMMA SummariesClear ==
  ASSUME Careful, Base, SummariesSound, ClearStarts \/ ClearEnds
  PROVE  SummariesSound'
<1>1. CASE ClearStarts
  <2>1. Undisturbed /\ UNCHANGED <<conversations, activeId, rollbackInfo, compression, disk>>
    BY <1>1 DEF ClearStarts, store, work
  <2> QED
    BY <2>1 DEF SummariesSound, AllStand, PendingStands, PendingUntouched, RollbackBehind,
                Undisturbed
<1>2. CASE ClearEnds
  <2> DEFINE new == conversations'
  <2>1. /\ clearing # None /\ rollbackInfo' = 0 /\ clearing' = None
        /\ UNCHANGED <<activeId, compression, disk>>
    BY <1>2 DEF ClearEnds, work
  <2>2. /\ Live(new) = Live(conversations)
        /\ activeId = None => new = conversations
        /\ activeId # None => Puts(new, conversations, activeId, NewConversation)
        /\ \A c \in Ids \ {activeId} : new[c] = conversations[c]
    BY <1>2, ClearEndsIs
  <2>3. Typed(conversations) /\ AllSound(conversations) /\ (activeId # None => activeId \in Ids)
    BY ActiveFacts DEF Base, StoreTyped, SummariesSound, AllStand
  <2>4. Len(NewConversation.messages) <= MaxMessages
    BY NewConversationIs, ConversationAssumption
  <2> HIDE DEF new
  <2>5. AllSound(new)
    BY <2>2, <2>3, <2>4, NewConversationIs, OneSound
  <2>6. AllStand'
    BY <2>1, <2>5 DEF new, AllStand, SummariesSound
  <2>7. compression # None => compression.conv # activeId
    BY <2>1 DEF SummariesSound, PendingUntouched
  <2>8. PendingStands'
    BY <2>1, <2>2, <2>7 DEF new, SummariesSound, PendingStands, Live
  <2>9. PendingUntouched' /\ RollbackBehind'
    BY <2>1 DEF PendingUntouched, RollbackBehind
  <2> QED
    BY <2>6, <2>8, <2>9 DEF SummariesSound
<1> QED
  BY <1>1, <1>2

LEMMA SummariesWipe ==
  ASSUME Careful, Base, SummariesSound, WipeConversations
  PROVE  SummariesSound'
<1>1. /\ conversations' = [c \in Ids |-> None] /\ disk'.conversations = conversations'
      /\ activeId' = None /\ compression' = compression
  BY DEF WipeConversations, SetActive
<1>2. /\ Live(conversations') = {} /\ AllSound(conversations') /\ AllSound(disk'.conversations)
  BY <1>1, NoneUsed
<1>3. compression # None => compression.conv # None
  BY ConversationAssumption DEF Base, WorkTyped, Compression
<1> QED
  BY <1>1, <1>2, <1>3 DEF SummariesSound, AllStand, PendingStands, PendingUntouched, RollbackBehind

LEMMA SummariesStep == Careful /\ Base /\ SummariesSound /\ [Next]_vars => SummariesSound'
<1> SUFFICES ASSUME Careful, Base, SummariesSound, [Next]_vars PROVE SummariesSound'
  OBVIOUS
<1>1. CASE StoreStep
  BY <1>1, SummariesCreate, SummariesSwitch, SummariesDelete, SummariesSubmit, SummariesPrompt,
     SummariesRetry, SummariesRunEnds, SummariesCompressed, SummariesClear, SummariesWipe
     DEF StoreStep
<1>2. CASE Persist \/ Reload
  BY <1>2, SummariesPersist
<1>3. CASE \/ \E a \in Attachments : UploadStarts(a) \/ RemoveAttachment(a) \/ RemoveBlob(a)
           \/ Uploaded \/ RunStops \/ WipeAttachments
           \/ \E added \in BOOLEAN : RunBesideDraft(added)
           \/ UNCHANGED vars
  BY <1>3, SummariesUnmoved
<1>4. CASE DismissRollback \/ \E p \in 1..MaxMessages : Rollback(p)
  BY <1>4, SummariesRollback
<1>5. CASE CompressContext \/ ClearStarts
  BY <1>5, SummariesCompress, SummariesClear
<1> QED
  BY <1>1, <1>2, <1>3, <1>4, <1>5 DEF Next, OtherStep

-----------------------------------------------------------------------------
(* The theorems.                                                            *)

IInv == Base /\ (Careful => BlobsSound /\ SummariesSound)

LEMMA IInvInit == Init => IInv
BY BaseInit, BlobsInit, SummariesInit DEF IInv

LEMMA IInvStep == IInv /\ [Next]_vars => IInv'
BY BaseKept, BlobsStep, SummariesStep DEF IInv

LEMMA Invariance == Spec => []IInv
BY IInvInit, IInvStep, PTL DEF Spec

LEMMA BlobsFollow == Base /\ BlobsSound => BlobsOutliveReferences
BY InRunIs, UsedByIs DEF BlobsSound, Kept, Used, BlobsOutliveReferences

LEMMA PromptsFollow == Base /\ SummariesSound => PromptsReachTheModel
<1> SUFFICES ASSUME Base, SummariesSound, NEW c \in Live(conversations),
                    NEW i \in DOMAIN conversations[c].messages,
                    IsPrompt(conversations[c].messages[i])
             PROVE  \/ i > conversations[c].summary.from
                    \/ conversations[c].messages[i].prompt \in conversations[c].summary.covered
  BY ExistingIs DEF PromptsReachTheModel
<1> DEFINE m == conversations[c].messages
           s == conversations[c].summary
<1>1. m \in Seq(Message) /\ s \in Summary /\ Stands(m, s)
  BY LiveTyped DEF Base, StoreTyped, SummariesSound, AllStand, AllSound, ConvSound
<1>2. i \in 1..Len(m) /\ s.from \in Nat /\ Len(m) \in Nat /\ IsPrompt(m[i])
  BY <1>1, MessageTyped DEF Summary
<1> HIDE DEF m, s
<1>3. ASSUME ~(i > s.from) PROVE m[i].prompt \in s.covered
  <2>1. s.from # 0 /\ i \in 1..s.from
    BY <1>2, <1>3
  <2> QED
    BY <1>1, <1>2, <2>1 DEF Stands
<1> QED
  BY <1>3 DEF m, s

\* The store, the storage, the input field and the work keep their types: the
\* active conversation is one that exists, also in what is persisted
\* (ConversationStore.TypeOK, store/conversation.ts).
THEOREM TypeCorrect == Spec => []TypeOK
<1>1. IInv => TypeOK
  BY BaseIsTyped DEF IInv
<1> QED
  BY <1>1, Invariance, PTL

\* With users who let commands finish, every attachment that a message, the
\* input field or a prompt on its way refers to can be read, unless the user
\* discarded its last use: across forks, deletions, clears and reloads
\* (getUnreferencedAttachmentIds, deleteConversation).
THEOREM BlobsKept == Spec => [](Careful => BlobsOutliveReferences)
<1>1. IInv => (Careful => BlobsOutliveReferences)
  BY BlobsFollow DEF IInv
<1> QED
  BY <1>1, Invariance, PTL

\* With such users, every prompt of a conversation reaches the model again, as
\* a message or through the summary (messagesForConversationContinuation,
\* compressContext).
THEOREM PromptsReach == Spec => [](Careful => PromptsReachTheModel)
<1>1. IInv => (Careful => PromptsReachTheModel)
  BY PromptsFollow DEF IInv
<1> QED
  BY <1>1, Invariance, PTL
=============================================================================
