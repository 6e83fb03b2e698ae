--------------------------- MODULE FlagsTextProofs ----------------------------
(***************************************************************************)
(* Joining a list of arguments, trimming and splitting again gives back    *)
(* the list.  By induction over the arguments, and for each of them over   *)
(* its tokens; T is the set of tokens the texts are made of.               *)
(***************************************************************************)
EXTENDS FlagsText, NatRecursion, SequenceTheorems

-----------------------------------------------------------------------------
\* split's loop, for any set A of argument lists that reading does not leave.
LEMMA SplitRecursion ==
  ASSUME NEW A, << << >> >> \in A, NEW text, NEW N \in Nat, N = Len(text),
         \A args \in A : \A n \in 1..N : Taken(args, text[n]) \in A
  PROVE  /\ SplitUpTo(text) \in [0..N -> A]
         /\ SplitUpTo(text)[0] = << << >> >>
         /\ \A n \in 1..N : SplitUpTo(text)[n] = Taken(SplitUpTo(text)[n - 1], text[n])
<1> DEFINE base == << << >> >>
           step == [n \in 1..N |-> [args \in A |-> Taken(args, text[n])]]
           Eqn(f) == f = [n \in 0..N |-> IF n = 0 THEN base ELSE Taken(f[n - 1], text[n])]
           s == SplitUpTo(text)
<1>1. base \in A
  OBVIOUS
<1> HIDE DEF base
<1>2. step \in Steps(N, A)
  BY DEF Steps
<1>3. PICK f : Follows(f, N, A, base, step)
  <2> HIDE DEF step
  <2>1. QED
    BY <1>1, <1>2, Recursion
<1>4. Eqn(f)
  <2>1. ASSUME NEW n \in 1..N PROVE f[n] = Taken(f[n - 1], text[n])
    <3>1. f[n - 1] \in A
      BY <1>3 DEF Follows
    <3>2. QED
      BY <1>3, <3>1 DEF Follows
  <2>2. QED
    BY <1>3, <2>1 DEF Follows
<1>5. Eqn(s)
  <2>1. s = CHOOSE g : Eqn(g)
    BY DEF SplitUpTo, base
  <2> HIDE DEF Eqn
  <2>2. QED
    BY <1>4, <2>1
<1> DEFINE S == {n \in 0..N : s[n] \in A}
<1> HIDE DEF s
<1>6. 0 \in S
  BY <1>1, <1>5
<1>7. ASSUME NEW n \in 1..N, n - 1 \in S PROVE n \in S
  BY <1>5, <1>7
<1>8. 0..N \subseteq S
  <2> HIDE DEF S
  <2>1. QED
    BY <1>6, <1>7, Induction
<1>9. s \in [0..N -> A] /\ s[0] = base
  BY <1>5, <1>8
<1>10. \A n \in 1..N : s[n] = Taken(s[n - 1], text[n])
  BY <1>5
<1>11. QED
  BY <1>9, <1>10 DEF s, base

\* What split holds: at least one argument, though it may be empty.
Lists(T) == Seq(Seq(T)) \ {<< >>}

\* One more token makes a list of a list.
LEMMA TakenType ==
  ASSUME NEW T, NEW args \in Lists(T), NEW token \in T
  PROVE  Taken(args, token) \in Lists(T)
<1>1. args \in Seq(Seq(T)) /\ args # << >> /\ Len(args) \in 1..Len(args)
  BY EmptySeq DEF Lists
<1>2. CASE token = Blank
  <2>1. Append(args, << >>) \in Seq(Seq(T)) /\ Append(args, << >>) # << >>
    BY <1>1, AppendProperties, EmptySeq
  <2>2. QED
    BY <1>2, <2>1 DEF Taken, Lists
<1>3. CASE token # Blank
  <2>1. Append(args[Len(args)], token) \in Seq(T)
    BY <1>1
  <2> DEFINE longer == [args EXCEPT ![Len(args)] = Append(args[Len(args)], token)]
  <2>2. longer \in Seq(Seq(T)) /\ Len(longer) = Len(args)
    BY <1>1, <2>1, ExceptSeq
  <2>3. Len(longer) # 0
    BY <1>1, <2>2
  <2>4. longer # << >>
    BY <2>3
  <2>5. QED
    BY <1>3, <2>2, <2>4 DEF Taken, Lists
<1>4. QED
  BY <1>2, <1>3

\* split's loop over a text.
LEMMA SplitSteps ==
  ASSUME NEW T, NEW text \in Seq(T)
  PROVE  /\ \A n \in 0..Len(text) : SplitUpTo(text)[n] \in Lists(T)
         /\ SplitUpTo(text)[0] = << << >> >>
         /\ \A n \in 1..Len(text) : SplitUpTo(text)[n] = Taken(SplitUpTo(text)[n - 1], text[n])
<1>1. << << >> >> \in Lists(T)
  BY DEF Lists
<1>2. Len(text) \in Nat
  OBVIOUS
<1>3. \A args \in Lists(T) : \A n \in 1..Len(text) : Taken(args, text[n]) \in Lists(T)
  BY TakenType
<1>4. QED
  BY <1>1, <1>2, <1>3, SplitRecursion

\* What split has after reading some tokens does not depend on those to come.
LEMMA SplitOfPrefix ==
  ASSUME NEW T, NEW text \in Seq(T), NEW more \in Seq(T)
  PROVE  SplitUpTo(text \o more)[Len(text)] = Split(text)
<1>1. text \o more \in Seq(T) /\ Len(text) \in Nat /\ Len(more) \in Nat
      /\ Len(text \o more) = Len(text) + Len(more)
  OBVIOUS
<1> DEFINE S == {n \in 0..Len(text) : SplitUpTo(text \o more)[n] = SplitUpTo(text)[n]}
<1>2. 0 \in S
  <2>1. SplitUpTo(text \o more)[0] = SplitUpTo(text)[0]
    BY <1>1, SplitSteps
  <2>2. QED
    BY <1>1, <2>1
<1>3. ASSUME NEW n \in 1..Len(text), n - 1 \in S PROVE n \in S
  <2>1. (text \o more)[n] = text[n] /\ n \in 1..Len(text \o more)
    BY <1>1
  <2>2. SplitUpTo(text \o more)[n] = Taken(SplitUpTo(text \o more)[n - 1], text[n])
    BY <1>1, <2>1, SplitSteps
  <2>3. SplitUpTo(text)[n] = Taken(SplitUpTo(text)[n - 1], text[n])
    BY SplitSteps
  <2>4. QED
    BY <1>3, <2>2, <2>3
<1>4. 0..Len(text) \subseteq S
  <2> HIDE DEF S
  <2>1. QED
    BY <1>1, <1>2, <1>3, Induction
<1>5. QED
  BY <1>1, <1>4 DEF Split

\* A token that is no blank goes to the end of the last argument.
LEMMA TakenWord ==
  ASSUME NEW T, NEW args \in Seq(Seq(T)), NEW word \in Seq(T), NEW token \in T, token # Blank
  PROVE  Taken(Append(args, word), token) = Append(args, Append(word, token))
<1> DEFINE old == Append(args, word)
           longer == Append(word, token)
           new == Append(args, longer)
<1>1. longer \in Seq(T)
  OBVIOUS
<1>2. /\ old \in Seq(Seq(T)) /\ Len(old) = Len(args) + 1 /\ Len(args) \in Nat
      /\ old[Len(old)] = word
      /\ \A i \in 1..Len(args) : old[i] = args[i]
  OBVIOUS
<1> HIDE DEF longer, old
<1>3. /\ new \in Seq(Seq(T)) /\ Len(new) = Len(args) + 1
      /\ new[Len(args) + 1] = longer
      /\ \A i \in 1..Len(args) : new[i] = args[i]
  BY <1>1, AppendProperties
<1>4. Taken(old, token) = [old EXCEPT ![Len(old)] = longer]
  BY <1>2 DEF Taken, longer
<1>5. /\ Taken(old, token) \in Seq(Seq(T))
      /\ Len(Taken(old, token)) = Len(old)
      /\ \A i \in 1..Len(old) : Taken(old, token)[i] = IF i = Len(old) THEN longer ELSE old[i]
  BY <1>1, <1>2, <1>4, ExceptSeq
<1> HIDE DEF new
<1>6. Taken(old, token) = new
  <2>1. ASSUME NEW i \in 1..Len(new) PROVE Taken(old, token)[i] = new[i]
    <3>1. CASE i = Len(old)
      BY <1>2, <1>3, <1>5, <3>1
    <3>2. CASE i # Len(old)
      <4>1. i \in 1..Len(args) /\ i \in 1..Len(old)
        BY <1>2, <1>3, <3>2
      <4>2. QED
        BY <1>2, <1>3, <1>5, <3>2, <4>1
    <3>3. QED
      BY <3>1, <3>2
  <2>2. QED
    BY <1>2, <1>3, <1>5, <2>1, SeqEqual
<1>7. QED
  BY <1>6 DEF old, new, longer

\* After a blank, a word without blanks becomes the last argument.
LEMMA SplitWord ==
  ASSUME NEW T, NEW text \in Seq(T), NEW word \in Seq(T), NEW args \in Seq(Seq(T)),
         \A i \in 1..Len(word) : word[i] # Blank,
         Split(text) = Append(args, << >>)
  PROVE  Split(text \o word) = Append(args, word)
<1> DEFINE all == SplitUpTo(text \o word)
           first(n) == SubSeq(word, 1, n)
<1>1. text \o word \in Seq(T) /\ Len(text) \in Nat /\ Len(word) \in Nat
      /\ Len(text \o word) = Len(text) + Len(word)
  OBVIOUS
<1>2. first(0) = << >> /\ first(Len(word)) = word
  BY SubSeqEmpty, SubSeqFull
<1>3. ASSUME NEW n \in 1..Len(word)
      PROVE  word[n] \in T /\ first(n - 1) \in Seq(T) /\ first(n) = Append(first(n - 1), word[n])
  <2>1. first(n - 1) \in Seq(T) /\ word[n] \in T
    BY <1>1
  <2>2. first(n) = first(n - 1) \o << word[n] >>
    BY <1>1, SubSeqRecursiveSecond
  <2>3. QED
    BY <2>1, <2>2, AppendIsConcat
<1>4. all[Len(text)] = Append(args, << >>)
  BY <1>1, SplitOfPrefix
<1>5. ASSUME NEW n \in 1..Len(word)
      PROVE  all[Len(text) + n] = Taken(all[Len(text) + (n - 1)], word[n])
  <2> DEFINE m == Len(text) + n
  <2>1. (text \o word)[m] = word[n] /\ m \in 1..Len(text \o word) /\ m - 1 = Len(text) + (n - 1)
    BY <1>1, ConcatProperties
  <2>2. all[m] = Taken(all[m - 1], word[n])
    BY <1>1, <2>1, SplitSteps
  <2>3. QED
    BY <2>1, <2>2
<1> HIDE DEF all, first
<1> DEFINE S == {n \in 0..Len(word) : all[Len(text) + n] = Append(args, first(n))}
<1>6. 0 \in S
  BY <1>1, <1>2, <1>4
<1>7. ASSUME NEW n \in 1..Len(word), n - 1 \in S PROVE n \in S
  <2>1. all[Len(text) + n] = Taken(Append(args, first(n - 1)), word[n])
    BY <1>5, <1>7
  <2>2. Taken(Append(args, first(n - 1)), word[n]) = Append(args, first(n))
    <3>1. word[n] # Blank
      OBVIOUS
    <3>2. Taken(Append(args, first(n - 1)), word[n]) = Append(args, Append(first(n - 1), word[n]))
      BY <1>3, <3>1, TakenWord
    <3>3. QED
      BY <1>3, <3>2
  <2>3. QED
    BY <2>1, <2>2
<1>8. 0..Len(word) \subseteq S
  <2> HIDE DEF S
  <2>1. QED
    BY <1>1, <1>6, <1>7, Induction
<1>9. all[Len(text) + Len(word)] = Append(args, first(Len(word)))
  <2>1. Len(word) \in S
    <3> HIDE DEF S
    <3>1. QED
      BY <1>1, <1>8
  <2>2. QED
    BY <2>1
<1>10. QED
  BY <1>1, <1>2, <1>9 DEF Split, all

\* A blank begins an empty argument.
LEMMA SplitBlank ==
  ASSUME NEW T, Blank \in T, NEW text \in Seq(T)
  PROVE  /\ text \o << Blank >> \in Seq(T)
         /\ Split(text) \in Seq(Seq(T))
         /\ Split(text \o << Blank >>) = Append(Split(text), << >>)
<1> DEFINE longer == text \o << Blank >>
           n == Len(text) + 1
<1>1. /\ longer \in Seq(T) /\ << Blank >> \in Seq(T)
      /\ Len(text) \in Nat /\ Len(longer) = n /\ longer[n] = Blank
  OBVIOUS
<1>2. SplitUpTo(longer)[n] = Taken(SplitUpTo(longer)[n - 1], Blank)
  <2>1. n \in 1..Len(longer)
    BY <1>1
  <2> HIDE DEF n, longer
  <2>2. QED
    BY <1>1, <2>1, SplitSteps
<1>3. SplitUpTo(longer)[n - 1] = Split(text)
  <2>1. SplitUpTo(longer)[Len(text)] = Split(text)
    BY <1>1, SplitOfPrefix
  <2>2. n - 1 = Len(text)
    BY <1>1
  <2> HIDE DEF n, longer
  <2>3. QED
    BY <2>1, <2>2
<1>4. Split(text) \in Seq(Seq(T))
  BY <1>1, SplitSteps DEF Split, Lists
<1>5. Split(longer) = Taken(Split(text), Blank)
  <2> HIDE DEF n, longer
  <2>1. QED
    BY <1>1, <1>2, <1>3 DEF Split
<1>6. QED
  BY <1>1, <1>4, <1>5 DEF Taken

-----------------------------------------------------------------------------
\* join's loop, for any set A of texts that adding an argument does not leave.
LEMMA JoinRecursion ==
  ASSUME NEW A, << >> \in A, NEW args, NEW N \in Nat, N = Len(args),
         \A text \in A : \A n \in 1..N : Extended(text, n, args[n]) \in A
  PROVE  /\ JoinedUpTo(args) \in [0..N -> A]
         /\ JoinedUpTo(args)[0] = << >>
         /\ \A n \in 1..N : JoinedUpTo(args)[n] = Extended(JoinedUpTo(args)[n - 1], n, args[n])
<1> DEFINE base == << >>
           step == [n \in 1..N |-> [text \in A |-> Extended(text, n, args[n])]]
           Eqn(f) == f = [n \in 0..N |-> IF n = 0 THEN base ELSE Extended(f[n - 1], n, args[n])]
           j == JoinedUpTo(args)
<1>1. base \in A
  OBVIOUS
<1> HIDE DEF base
<1>2. step \in Steps(N, A)
  BY DEF Steps
<1>3. PICK f : Follows(f, N, A, base, step)
  <2> HIDE DEF step
  <2>1. QED
    BY <1>1, <1>2, Recursion
<1>4. Eqn(f)
  <2>1. ASSUME NEW n \in 1..N PROVE f[n] = Extended(f[n - 1], n, args[n])
    <3>1. f[n - 1] \in A
      BY <1>3 DEF Follows
    <3>2. QED
      BY <1>3, <3>1 DEF Follows
  <2>2. QED
    BY <1>3, <2>1 DEF Follows
<1>5. Eqn(j)
  <2>1. j = CHOOSE g : Eqn(g)
    BY DEF JoinedUpTo, base
  <2> HIDE DEF Eqn
  <2>2. QED
    BY <1>4, <2>1
<1> DEFINE S == {n \in 0..N : j[n] \in A}
<1> HIDE DEF j
<1>6. 0 \in S
  BY <1>1, <1>5
<1>7. ASSUME NEW n \in 1..N, n - 1 \in S PROVE n \in S
  BY <1>5, <1>7
<1>8. 0..N \subseteq S
  <2> HIDE DEF S
  <2>1. QED
    BY <1>6, <1>7, Induction
<1>9. j \in [0..N -> A] /\ j[0] = base
  BY <1>5, <1>8
<1>10. \A n \in 1..N : j[n] = Extended(j[n - 1], n, args[n])
  BY <1>5
<1>11. QED
  BY <1>9, <1>10 DEF j, base

\* join's loop over a list.
LEMMA JoinSteps ==
  ASSUME NEW T, Blank \in T, NEW args \in Seq(Seq(T))
  PROVE  /\ \A n \in 0..Len(args) : JoinedUpTo(args)[n] \in Seq(T)
         /\ JoinedUpTo(args)[0] = << >>
         /\ \A n \in 1..Len(args) :
              JoinedUpTo(args)[n] = Extended(JoinedUpTo(args)[n - 1], n, args[n])
<1> DEFINE Texts == Seq(T)
<1>1. << >> \in Texts /\ Len(args) \in Nat
  OBVIOUS
<1>2. \A text \in Texts : \A n \in 1..Len(args) : Extended(text, n, args[n]) \in Texts
  <2>1. SUFFICES ASSUME NEW text \in Seq(T), NEW n \in 1..Len(args)
                 PROVE  Extended(text, n, args[n]) \in Seq(T)
    OBVIOUS
  <2>2. args[n] \in Seq(T) /\ << Blank >> \in Seq(T)
    OBVIOUS
  <2>3. QED
    BY <2>2 DEF Extended
<1> HIDE DEF Texts
<1>3. /\ JoinedUpTo(args) \in [0..Len(args) -> Texts]
      /\ JoinedUpTo(args)[0] = << >>
      /\ \A n \in 1..Len(args) :
           JoinedUpTo(args)[n] = Extended(JoinedUpTo(args)[n - 1], n, args[n])
  BY <1>1, <1>2, JoinRecursion
<1>4. QED
  BY <1>3 DEF Texts

\* No arguments, no text.
LEMMA JoinedEmpty == Joined(<< >>) = << >>
<1>1. Blank \in {Blank} /\ << >> \in Seq(Seq({Blank})) /\ Len(<< >>) = 0
  OBVIOUS
<1>2. QED
  BY <1>1, JoinSteps DEF Joined

\* split undoes join for every list whose arguments hold no blanks, empty
\* arguments anywhere in it included.
LEMMA SplitOfJoined ==
  ASSUME NEW T, Blank \in T, NEW args \in Seq(Seq(T)), args # << >>,
         \A i \in 1..Len(args) : \A j \in 1..Len(args[i]) : args[i][j] # Blank
  PROVE  Split(Joined(args)) = args
<1> DEFINE text == JoinedUpTo(args)
           first(n) == SubSeq(args, 1, n)
<1>1. Len(args) \in Nat /\ Len(args) \in 1..Len(args) /\ first(Len(args)) = args
  BY SubSeqFull, EmptySeq
<1>2. first(1) = << args[1] >> /\ args[1] \in Seq(T)
  <2>1. 1 \in 1..Len(args)
    BY <1>1
  <2>2. SubSeq(args, 1, 1) = SubSeq(args, 1, 0) \o << args[1] >>
    BY <1>1, <2>1, SubSeqRecursiveSecond
  <2>3. SubSeq(args, 1, 0) = << >> /\ args[1] \in Seq(T)
    BY <2>1
  <2>4. << args[1] >> \in Seq(Seq(T))
    BY <2>3
  <2>5. QED
    BY <2>2, <2>3, <2>4, ConcatEmptySeq
<1>3. ASSUME NEW n \in 2..Len(args)
      PROVE  /\ args[n] \in Seq(T) /\ first(n - 1) \in Seq(Seq(T))
             /\ first(n) = Append(first(n - 1), args[n])
  <2>1. first(n - 1) \in Seq(Seq(T)) /\ args[n] \in Seq(T)
    BY <1>1
  <2>2. first(n) = first(n - 1) \o << args[n] >>
    BY <1>1, SubSeqRecursiveSecond
  <2>3. QED
    BY <2>1, <2>2, AppendIsConcat
<1>4. /\ \A n \in 0..Len(args) : text[n] \in Seq(T)
      /\ text[1] = args[1]
      /\ \A n \in 2..Len(args) : text[n] = text[n - 1] \o << Blank >> \o args[n]
  <2>1. ASSUME NEW n \in 1..Len(args) PROVE text[n] = Extended(text[n - 1], n, args[n])
    BY JoinSteps
  <2>2. text[1] = args[1]
    BY <1>1, <2>1 DEF Extended
  <2>3. ASSUME NEW n \in 2..Len(args) PROVE text[n] = text[n - 1] \o << Blank >> \o args[n]
    <3>1. n \in 1..Len(args) /\ n # 1
      OBVIOUS
    <3> HIDE DEF text
    <3>2. QED
      BY <2>1, <3>1 DEF Extended
  <2>4. \A n \in 0..Len(args) : text[n] \in Seq(T)
    BY JoinSteps
  <2>5. QED
    BY <2>2, <2>3, <2>4
<1> HIDE DEF text, first
<1> DEFINE S == {n \in 0..Len(args) : n = 0 \/ Split(text[n]) = first(n)}
<1>5. 0 \in S
  BY <1>1
<1>6. ASSUME NEW n \in 1..Len(args), n - 1 \in S PROVE n \in S
  <2>1. CASE n = 1
    <3>1. << >> \in Seq(T) /\ << >> \in Seq(Seq(T)) /\ Split(<< >>) = Append(<< >>, << >>)
      <4>1. << >> \in Seq(T) /\ Len(<< >>) = 0
        OBVIOUS
      <4>2. Split(<< >>) = << << >> >>
        BY <4>1, SplitSteps DEF Split
      <4>3. QED
        BY <4>1, <4>2
    <3>2. \A i \in 1..Len(args[1]) : args[1][i] # Blank
      BY <1>1
    <3>3. Split(<< >> \o args[1]) = Append(<< >>, args[1])
      <4> HIDE DEF S
      <4>1. QED
        BY <1>2, <3>1, <3>2, SplitWord
    <3>4. << >> \o args[1] = args[1] /\ Append(<< >>, args[1]) = << args[1] >>
      BY <1>2
    <3>5. QED
      BY <1>2, <1>4, <2>1, <3>3, <3>4
  <2>2. CASE n # 1
    <3>1. n \in 2..Len(args) /\ text[n - 1] \in Seq(T) /\ Split(text[n - 1]) = first(n - 1)
      BY <1>4, <1>6, <2>2
    <3> DEFINE before == text[n - 1] \o << Blank >>
    <3>2. before \in Seq(T) /\ Split(before) = Append(first(n - 1), << >>)
      BY <3>1, SplitBlank
    <3> HIDE DEF before
    <3>3. \A j \in 1..Len(args[n]) : args[n][j] # Blank
      OBVIOUS
    <3>4. Split(before \o args[n]) = Append(first(n - 1), args[n])
      BY <1>3, <3>1, <3>2, <3>3, SplitWord
    <3>5. Split(text[n]) = first(n)
      BY <1>3, <1>4, <3>1, <3>4 DEF before
    <3>6. QED
      BY <3>5
  <2>3. QED
    BY <2>1, <2>2
<1>7. Len(args) \in S
  <2> HIDE DEF S
  <2>1. 0..Len(args) \subseteq S
    BY <1>1, <1>5, <1>6, Induction
  <2>2. QED
    BY <1>1, <2>1
<1>8. QED
  BY <1>1, <1>7 DEF Joined, text

-----------------------------------------------------------------------------
\* A text with a printed token at each end is not trimmed.
LEMMA TrimmedIdentity ==
  ASSUME NEW T, NEW text \in Seq(T), text # << >>,
         text[1] \notin White, text[Len(text)] \notin White
  PROVE  Trimmed(text) = text
<1> DEFINE printed == {i \in DOMAIN text : text[i] \notin White}
<1>1. Len(text) \in Nat \ {0} /\ DOMAIN text = 1..Len(text)
  BY EmptySeq, LenProperties
<1>2. 1 \in printed /\ Len(text) \in printed /\ \A i \in printed : i \in Nat /\ 1 <= i /\ i <= Len(text)
  BY <1>1
<1>3. Trimmed(text) = IF printed = {} THEN << >> ELSE SubSeq(text, Min(printed), Max(printed))
  BY DEF Trimmed
<1> HIDE DEF printed
<1>4. Min(printed) = 1
  BY <1>1, <1>2 DEF Min
<1>5. Max(printed) = Len(text)
  BY <1>1, <1>2 DEF Max
<1>6. Trimmed(text) = SubSeq(text, 1, Len(text))
  BY <1>2, <1>3, <1>4, <1>5
<1>7. QED
  BY <1>6, SubSeqFull

\* What join adds leaves the text's beginning, and ends in the argument's end.
LEMMA ExtendedEnds ==
  ASSUME NEW T, Blank \in T, NEW t \in Seq(T), NEW u \in Seq(T), NEW n, n # 1
  PROVE  /\ t # << >> => Extended(t, n, u) # << >> /\ Extended(t, n, u)[1] = t[1]
         /\ u # << >> => Extended(t, n, u)[Len(Extended(t, n, u))] = u[Len(u)]
<1> DEFINE tb == t \o << Blank >>
           tu == Extended(t, n, u)
<1>1. /\ tb \in Seq(T) /\ Len(tb) = Len(t) + 1 /\ Len(t) \in Nat /\ Len(u) \in Nat
      /\ t # << >> => tb[1] = t[1] /\ Len(t) > 0
      /\ u # << >> => Len(u) > 0
  BY EmptySeq
<1> HIDE DEF tb
<1>2. tu = tb \o u
  BY DEF tb, Extended
<1> HIDE DEF tu
<1>3. /\ tu \in Seq(T) /\ Len(tu) = Len(tb) + Len(u)
      /\ \A i \in 1..(Len(tb) + Len(u)) : tu[i] = IF i <= Len(tb) THEN tb[i] ELSE u[i - Len(tb)]
  BY <1>1, <1>2, ConcatProperties
<1>4. tu # << >>
  BY <1>1, <1>3
<1>5. t # << >> => tu[1] = t[1]
  BY <1>1, <1>3
<1>6. u # << >> => tu[Len(tu)] = u[Len(u)]
  BY <1>1, <1>3
<1>7. QED
  BY <1>4, <1>5, <1>6 DEF tu

\* A joined text begins like its first argument and ends like its last.
LEMMA JoinedEnds ==
  ASSUME NEW T, Blank \in T, NEW args \in Seq(Seq(T)), args # << >>,
         args[1] # << >>, args[Len(args)] # << >>
  PROVE  /\ Joined(args) \in Seq(T) /\ Joined(args) # << >>
         /\ Joined(args)[1] = args[1][1]
         /\ Joined(args)[Len(Joined(args))] = args[Len(args)][Len(args[Len(args)])]
<1> DEFINE text == JoinedUpTo(args)
           N == Len(args)
           Begins(t) == t # << >> /\ t[1] = args[1][1]
<1>1. N \in Nat /\ N \in 1..N /\ 1 \in 1..N /\ \A n \in 1..N : args[n] \in Seq(T)
  BY EmptySeq
<1>2. \A n \in 0..N : text[n] \in Seq(T)
  BY JoinSteps
<1>3. \A n \in 1..N : text[n] = Extended(text[n - 1], n, args[n])
  BY JoinSteps
<1> HIDE DEF text, N
<1>4. text[1] = args[1]
  BY <1>1, <1>3 DEF Extended
<1> DEFINE S == {n \in 0..N : n = 0 \/ Begins(text[n])}
<1>6. 0 \in S
  BY <1>1
<1>7. ASSUME NEW n \in 1..N, n - 1 \in S PROVE n \in S
  <2>1. CASE n = 1
    BY <1>4, <2>1
  <2>2. CASE n # 1
    <3>1. text[n] = Extended(text[n - 1], n, args[n])
      BY <1>3
    <3>2. text[n - 1] \in Seq(T) /\ args[n] \in Seq(T) /\ Begins(text[n - 1])
      BY <1>1, <1>2, <1>7, <2>2
    <3>3. text[n] # << >> /\ text[n][1] = text[n - 1][1]
      <4>1. text[n - 1] # << >>
        BY <3>2
      <4> HIDE DEF S, Begins
      <4>2. QED
        BY <2>2, <3>1, <3>2, <4>1, ExtendedEnds
    <3>4. QED
      BY <3>2, <3>3
  <2>3. QED
    BY <2>1, <2>2
<1>8. N \in S
  <2> HIDE DEF S
  <2>1. 0..N \subseteq S
    BY <1>1, <1>6, <1>7, Induction
  <2>2. QED
    BY <1>1, <2>1
<1>9. text[N] # << >> /\ text[N][1] = args[1][1]
  BY <1>1, <1>8
<1>10. text[N][Len(text[N])] = args[N][Len(args[N])]
  <2>1. CASE N = 1
    BY <1>4, <2>1
  <2>2. CASE N # 1
    <3>1. text[N] = Extended(text[N - 1], N, args[N])
      BY <1>1, <1>3
    <3>2. text[N - 1] \in Seq(T) /\ args[N] \in Seq(T) /\ args[N] # << >>
      BY <1>1, <1>2 DEF N
    <3>3. QED
      BY <2>2, <3>1, <3>2, ExtendedEnds
  <2>3. QED
    BY <2>1, <2>2
<1>11. QED
  BY <1>1, <1>2, <1>9, <1>10 DEF text, N, Joined

\* What the window writes into its flags field for a list of arguments
\* (schedext-window-internal.cpp:554-563) is read back as the same list
\* (schedext-window-internal.cpp:609, lib.rs:203-208), of any length and of any
\* words, as long as the list can be typed.
THEOREM RoundTrip ==
  ASSUME NEW T, Blank \in T, NEW args \in Seq(Seq(T)), Typeable(args)
  PROVE  Parsed(Joined(args)) = args
<1>1. CASE args = << >>
  <2>1. Joined(<< >>) = << >>
    BY JoinedEmpty
  <2>2. Trimmed(<< >>) = << >>
    <3>1. {i \in DOMAIN << >> : << >>[i] \notin White} = {}
      OBVIOUS
    <3>2. QED
      BY <3>1 DEF Trimmed
  <2>3. QED
    BY <1>1, <2>1, <2>2 DEF Parsed
<1>2. CASE args # << >>
  <2>1. /\ DOMAIN args = 1..Len(args) /\ Head(args) = args[1]
        /\ \A i \in 1..Len(args) : args[i] \in Seq(T) /\ DOMAIN args[i] = 1..Len(args[i])
        /\ Len(args) \in 1..Len(args) /\ 1 \in 1..Len(args)
    BY <1>2, EmptySeq, LenProperties
  <2>2. \A i \in 1..Len(args) : \A j \in 1..Len(args[i]) : args[i][j] # Blank
    BY <2>1 DEF Typeable
  <2>3. /\ args[1] # << >> /\ args[1][1] \notin White
        /\ args[Len(args)] # << >> /\ args[Len(args)][Len(args[Len(args)])] \notin White
    BY <1>2, <2>1 DEF Typeable
  <2>4. Trimmed(Joined(args)) = Joined(args) /\ Joined(args) # << >>
    <3>1. /\ Joined(args) \in Seq(T) /\ Joined(args) # << >>
          /\ Joined(args)[1] = args[1][1]
          /\ Joined(args)[Len(Joined(args))] = args[Len(args)][Len(args[Len(args)])]
      BY <1>2, <2>3, JoinedEnds
    <3>2. QED
      BY <2>3, <3>1, TrimmedIdentity
  <2>5. Split(Joined(args)) = args
    BY <1>2, <2>2, SplitOfJoined
  <2>6. QED
    BY <2>4, <2>5 DEF Parsed
<1>3. QED
  BY <1>1, <1>2

-----------------------------------------------------------------------------
\* One more argument comes behind a blank.
LEMMA JoinedAppend ==
  ASSUME NEW T, Blank \in T, NEW args \in Seq(Seq(T)), args # << >>, NEW arg \in Seq(T)
  PROVE  /\ Joined(args) \in Seq(T)
         /\ Joined(Append(args, arg)) = Joined(args) \o << Blank >> \o arg
<1> DEFINE all == Append(args, arg)
           N == Len(args)
<1>1. /\ all \in Seq(Seq(T)) /\ Len(all) = N + 1 /\ N \in Nat \ {0}
      /\ all[N + 1] = arg /\ \A i \in 1..N : all[i] = args[i]
  BY EmptySeq, LenProperties
<1> HIDE DEF all
<1>2. /\ \A n \in 0..N : JoinedUpTo(args)[n] \in Seq(T)
      /\ JoinedUpTo(args)[0] = << >>
      /\ \A n \in 1..N : JoinedUpTo(args)[n] = Extended(JoinedUpTo(args)[n - 1], n, args[n])
  BY JoinSteps
<1>3. /\ JoinedUpTo(all)[0] = << >>
      /\ \A n \in 1..(N + 1) : JoinedUpTo(all)[n] = Extended(JoinedUpTo(all)[n - 1], n, all[n])
  BY <1>1, JoinSteps
<1> HIDE DEF N
<1> DEFINE S == {n \in 0..N : JoinedUpTo(all)[n] = JoinedUpTo(args)[n]}
<1>4. 0 \in S
  BY <1>1, <1>2, <1>3
<1>5. ASSUME NEW n \in 1..N, n - 1 \in S PROVE n \in S
  <2>1. JoinedUpTo(all)[n - 1] = JoinedUpTo(args)[n - 1] /\ n \in 1..(N + 1)
    BY <1>1, <1>5
  <2>2. JoinedUpTo(all)[n] = Extended(JoinedUpTo(args)[n - 1], n, args[n])
    BY <1>1, <1>3, <2>1
  <2>3. QED
    BY <1>2, <2>2
<1>6. JoinedUpTo(all)[N] = Joined(args)
  <2>1. N \in S
    <3> HIDE DEF S
    <3>1. 0..N \subseteq S
      BY <1>1, <1>4, <1>5, Induction
    <3>2. QED
      BY <1>1, <3>1
  <2>2. QED
    BY <2>1 DEF Joined, N
<1>7. JoinedUpTo(all)[N + 1] = Extended(Joined(args), N + 1, arg)
  <2>1. N + 1 \in 1..(N + 1) /\ (N + 1) - 1 = N
    BY <1>1
  <2>2. JoinedUpTo(all)[N + 1] = Extended(JoinedUpTo(all)[(N + 1) - 1], N + 1, all[N + 1])
    BY <1>3, <2>1
  <2>3. QED
    BY <1>1, <1>6, <2>1, <2>2
<1>8. Joined(all) = Joined(args) \o << Blank >> \o arg
  BY <1>1, <1>7 DEF Joined, Extended
<1>9. Joined(args) \in Seq(T)
  <2>1. N \in 0..N
    BY <1>1
  <2>2. QED
    BY <1>2, <2>1 DEF Joined, N
<1>10. QED
  BY <1>8, <1>9 DEF all

\* A single argument is its own text.
LEMMA JoinedSingle ==
  ASSUME NEW T, Blank \in T, NEW arg \in Seq(T)
  PROVE  Joined(<< arg >>) = arg
<1>1. << arg >> \in Seq(Seq(T)) /\ Len(<< arg >>) = 1 /\ << arg >>[1] = arg /\ 1 \in 1..1
  OBVIOUS
<1>2. JoinedUpTo(<< arg >>)[1] = Extended(JoinedUpTo(<< arg >>)[1 - 1], 1, arg)
  BY <1>1, JoinSteps
<1>3. QED
  BY <1>1, <1>2 DEF Joined, Extended

\* Reading one more token and joining appends that token.
LEMMA JoinedTaken ==
  ASSUME NEW T, Blank \in T, NEW args \in Lists(T), NEW token \in T
  PROVE  /\ Joined(args) \in Seq(T)
         /\ Joined(Taken(args, token)) = Append(Joined(args), token)
<1>1. args \in Seq(Seq(T)) /\ args # << >>
  BY DEF Lists
<1>2. Joined(args) \in Seq(T)
  <2>1. << >> \in Seq(T)
    OBVIOUS
  <2>2. QED
    BY <1>1, <2>1, JoinedAppend
<1>3. CASE token = Blank
  <2>1. Taken(args, token) = Append(args, << >>) /\ << >> \in Seq(T)
    BY <1>3 DEF Taken
  <2>2. Joined(Taken(args, token)) = Joined(args) \o << Blank >> \o << >>
    BY <1>1, <2>1, JoinedAppend
  <2>3. Joined(args) \o << Blank >> \o << >> = Append(Joined(args), Blank)
    <3>1. Joined(args) \o << Blank >> \in Seq(T)
      BY <1>2
    <3>2. QED
      BY <1>2, <3>1, ConcatEmptySeq, AppendIsConcat
  <2>4. QED
    BY <1>2, <1>3, <2>2, <2>3
<1>4. CASE token # Blank
  <2>1. PICK front \in Seq(Seq(T)), word \in Seq(T) : args = Append(front, word)
    BY <1>1, SequenceEmptyOrAppend
  <2>2. Taken(args, token) = Append(front, Append(word, token)) /\ Append(word, token) \in Seq(T)
    BY <1>4, <2>1, TakenWord
  <2>3. CASE front = << >>
    <3>1. args = << word >> /\ Taken(args, token) = << Append(word, token) >>
      BY <2>1, <2>2, <2>3
    <3>2. QED
      BY <1>2, <2>2, <3>1, JoinedSingle
  <2>4. CASE front # << >>
    <3>1. /\ Joined(front) \in Seq(T)
          /\ Joined(args) = Joined(front) \o << Blank >> \o word
          /\ Joined(Taken(args, token)) = Joined(front) \o << Blank >> \o Append(word, token)
      BY <2>1, <2>2, <2>4, JoinedAppend
    <3> DEFINE before == Joined(front) \o << Blank >>
    <3>2. before \in Seq(T)
      BY <3>1
    <3> HIDE DEF before
    <3>3. before \o Append(word, token) = Append(before \o word, token)
      <4>1. Append(word, token) = word \o << token >> /\ << token >> \in Seq(T)
        BY AppendIsConcat
      <4>2. before \o (word \o << token >>) = (before \o word) \o << token >>
        BY <3>2, <4>1, ConcatAssociative
      <4>3. before \o word \in Seq(T)
        BY <3>2
      <4>4. QED
        BY <4>1, <4>2, <4>3, AppendIsConcat
    <3>4. QED
      BY <1>2, <3>1, <3>3 DEF before
  <2>5. QED
    BY <2>3, <2>4
<1>5. QED
  BY <1>3, <1>4

\* join undoes split for every text, whatever its blanks.
LEMMA JoinedOfSplit ==
  ASSUME NEW T, Blank \in T, NEW text \in Seq(T)
  PROVE  Joined(Split(text)) = text
<1> DEFINE all == SplitUpTo(text)
           N == Len(text)
           first(n) == SubSeq(text, 1, n)
<1>1. N \in Nat /\ first(0) = << >> /\ first(N) = text
  BY SubSeqFull
<1>2. /\ \A n \in 0..N : all[n] \in Lists(T)
      /\ all[0] = << << >> >>
      /\ \A n \in 1..N : all[n] = Taken(all[n - 1], text[n])
  BY SplitSteps
<1>3. ASSUME NEW n \in 1..N
      PROVE  text[n] \in T /\ first(n) = Append(first(n - 1), text[n])
  <2>1. first(n - 1) \in Seq(T) /\ text[n] \in T
    BY <1>1
  <2>2. first(n) = first(n - 1) \o << text[n] >>
    BY <1>1, SubSeqRecursiveSecond
  <2>3. QED
    BY <2>1, <2>2, AppendIsConcat
<1>4. Split(text) = all[N]
  BY DEF Split
<1> HIDE DEF all, first, N
<1> DEFINE S == {n \in 0..N : Joined(all[n]) = first(n)}
<1>5. 0 \in S
  <2>1. Joined(<< << >> >>) = << >>
    <3>1. << >> \in Seq(T)
      OBVIOUS
    <3>2. QED
      BY <3>1, JoinedSingle
  <2>2. Joined(all[0]) = first(0)
    BY <1>1, <1>2, <2>1
  <2>3. QED
    BY <1>1, <2>2
<1>6. ASSUME NEW n \in 1..N, n - 1 \in S PROVE n \in S
  <2>1. all[n - 1] \in Lists(T) /\ Joined(all[n - 1]) = first(n - 1)
    BY <1>1, <1>2, <1>6
  <2>2. Joined(all[n]) = Append(first(n - 1), text[n])
    <3> HIDE DEF S
    <3>1. QED
      BY <1>2, <1>3, <2>1, JoinedTaken
  <2>3. Joined(all[n]) = first(n)
    BY <1>3, <2>2
  <2>4. n \in 0..N
    BY <1>1
  <2>5. QED
    BY <2>3, <2>4
<1>7. N \in S
  <2> HIDE DEF S
  <2>1. 0..N \subseteq S
    BY <1>1, <1>5, <1>6, Induction
  <2>2. QED
    BY <1>1, <2>1
<1>8. QED
  BY <1>1, <1>4, <1>7

\* What trimming leaves begins and ends in printed tokens.
LEMMA TrimmedEnds ==
  ASSUME NEW T, NEW text \in Seq(T)
  PROVE  /\ Trimmed(text) \in Seq(T)
         /\ Trimmed(text) # << >> => /\ Trimmed(text)[1] \notin White
                                     /\ Trimmed(text)[Len(Trimmed(text))] \notin White
<1> DEFINE printed == {i \in DOMAIN text : text[i] \notin White}
           fromEnd == {Len(text) - i : i \in printed}
<1>1. Len(text) \in Nat /\ DOMAIN text = 1..Len(text)
  BY LenProperties
<1>2. printed \in SUBSET Nat /\ fromEnd \in SUBSET Nat
  BY <1>1
<1>3. Trimmed(text) = IF printed = {} THEN << >> ELSE SubSeq(text, Min(printed), Max(printed))
  BY DEF Trimmed
<1>4. CASE printed = {}
  BY <1>3, <1>4
<1>5. CASE printed # {}
  <2>1. \E m \in printed : \A k \in printed : m <= k
    <3> HIDE DEF printed
    <3>1. QED
      BY <1>2, <1>5, LeastNat
  <2>2. \E m \in printed : \A k \in printed : m >= k
    <3>1. fromEnd # {}
      BY <1>5
    <3>2. PICK e \in fromEnd : \A k \in fromEnd : e <= k
      <4> HIDE DEF fromEnd
      <4>1. QED
        BY <1>2, <3>1, LeastNat
    <3>3. PICK m \in printed : e = Len(text) - m
      OBVIOUS
    <3>4. ASSUME NEW k \in printed PROVE m >= k
      <4>1. Len(text) - k \in fromEnd /\ m \in Nat /\ k \in Nat
        BY <1>2
      <4>2. Len(text) - m <= Len(text) - k
        BY <3>2, <3>3, <4>1
      <4>3. QED
        BY <1>1, <4>1, <4>2
    <3>5. QED
      BY <3>4
  <2> DEFINE lo == Min(printed)
             hi == Max(printed)
  <2>3. lo \in printed /\ \A k \in printed : lo <= k
    <3> HIDE DEF printed
    <3>1. QED
      BY <2>1 DEF Min
  <2>4. hi \in printed /\ \A k \in printed : hi >= k
    <3> HIDE DEF printed
    <3>1. QED
      BY <2>2 DEF Max
  <2>5. lo \in 1..Len(text) /\ hi \in 1..Len(text) /\ lo <= hi
        /\ text[lo] \notin White /\ text[hi] \notin White
    BY <1>1, <2>3, <2>4
  <2>6. Trimmed(text) = SubSeq(text, lo, hi)
    BY <1>3, <1>5
  <2> HIDE DEF lo, hi
  <2>7. /\ SubSeq(text, lo, hi) \in Seq(T)
        /\ Len(SubSeq(text, lo, hi)) = hi - lo + 1
        /\ SubSeq(text, lo, hi)[1] = text[lo]
        /\ SubSeq(text, lo, hi)[hi - lo + 1] = text[hi]
    BY <1>1, <2>5
  <2>8. QED
    BY <2>5, <2>6, <2>7
<1>6. QED
  BY <1>4, <1>5

\* Every list that a field has been read as is written into the field and read
\* back as itself, without a condition: only a list from elsewhere, a file
\* edited by hand or the crate's own, can fail to be typed.
THEOREM TypedRoundTrip ==
  ASSUME NEW T, Blank \in T, NEW text \in Seq(T)
  PROVE  Parsed(Joined(Parsed(text))) = Parsed(text)
<1> DEFINE t == Trimmed(text)
<1>1. t \in Seq(T) /\ (t # << >> => t[1] \notin White /\ t[Len(t)] \notin White)
  BY TrimmedEnds
<1>2. Parsed(text) = IF t = << >> THEN << >> ELSE Split(t)
  BY DEF Parsed
<1> HIDE DEF t
<1>3. CASE t = << >>
  <2>1. Typeable(<< >>) /\ << >> \in Seq(Seq(T))
    BY DEF Typeable
  <2>2. QED
    BY <1>2, <1>3, <2>1, RoundTrip
<1>4. CASE t # << >>
  <2>1. Joined(Parsed(text)) = t
    BY <1>1, <1>2, <1>4, JoinedOfSplit
  <2>2. Trimmed(t) = t
    BY <1>1, <1>4, TrimmedIdentity
  <2>3. QED
    BY <1>2, <1>4, <2>1, <2>2 DEF Parsed
<1>5. QED
  BY <1>3, <1>4
=============================================================================
