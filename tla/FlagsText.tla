------------------------------ MODULE FlagsText ------------------------------
(***************************************************************************)
(* The text of the flags field and the argument lists it stands for: the   *)
(* window joins a list with blanks to show it and trims the field's text   *)
(* (src/schedext-window-internal.cpp); the bridge splits what it is given  *)
(* at every single blank (scx-rustlib/src/lib.rs).  A text is a sequence   *)
(* of tokens: " ", "\t" for any other white space, and words.              *)
(***************************************************************************)
EXTENDS Integers, SequencesExt

Blank == " "
White == {Blank, "\t"}

\* `text` once join has added the n-th argument.
Extended(text, n, arg) == IF n = 1 THEN arg ELSE text \o << Blank >> \o arg

\* QStringList::join(' ') after n arguments
JoinedUpTo(args) ==
  LET text[n \in 0..Len(args)] ==
        IF n = 0 THEN << >> ELSE Extended(text[n - 1], n, args[n])
  IN text

Joined(args) == JoinedUpTo(args)[Len(args)]

\* QString::trimmed
Trimmed(text) ==
  LET printed == {i \in DOMAIN text : text[i] \notin White}
  IN IF printed = {} THEN << >> ELSE SubSeq(text, Min(printed), Max(printed))

\* `args` once split has read one more token.
Taken(args, token) ==
  IF token = Blank THEN Append(args, << >>)
  ELSE [args EXCEPT ![Len(args)] = Append(@, token)]

\* str::split(' ') after n tokens: two blanks in a row have an empty argument
\* between them.
SplitUpTo(text) ==
  LET args[n \in 0..Len(text)] ==
        IF n = 0 THEN << << >> >> ELSE Taken(args[n - 1], text[n])
  IN args

Split(text) == SplitUpTo(text)[Len(text)]

Parsed_EmptySplit(text) == Split(Trimmed(text))

\* The arguments a field stands for; a text without words gives none at all.
Parsed(text) == IF Trimmed(text) = << >> THEN << >> ELSE Split(Trimmed(text))

\* Lists that can be typed: no argument holds a blank, and neither end of the
\* joined text is white.
Typeable(args) ==
  /\ \A i \in DOMAIN args : \A j \in DOMAIN args[i] : args[i][j] # Blank
  /\ args # << >> =>
       LET first == Head(args)
           last == args[Len(args)]
       IN /\ first # << >> /\ first[1] \notin White
          /\ last # << >> /\ last[Len(last)] \notin White
=============================================================================
