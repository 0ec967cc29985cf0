------------------------------- MODULE Strings ------------------------------
(***************************************************************************)
(* The methods of String and Bytes (builtins-string.c, builtins-bytes.c),  *)
(* called on constants before any list is changed.  A string is a sequence *)
(* of character codes; behind it in memory are the characters that its     *)
(* block held before, or zeros when it lies in the object itself.          *)
(***************************************************************************)
EXTENDS Lists

CONSTANTS Texts, Parts, ByteStrings,   \* strings, parts to search for, bytes
          Behinds,                     \* what may lie behind a string
          Specs                        \* format specifications

IMM_DATA_LEN == 8
Zeros == <<0, 0, 0>>
Behind(s) == IF 3 * Len(s) <= IMM_DATA_LEN THEN {Zeros} ELSE Behinds

Space == 32
IS_SPACE(c) == c \in {Space, 9, 13, 10}
Tab == <<9>>

\* Both where the search has come to and the end of the part are characters: they are
\* compared as such, and the end is the character behind the part.
RECURSIVE Search(_, _, _, _, _, _)
Search(hay, n, part, behind, i, k) ==
  LET p == part \o behind
  IN IF i >= n THEN None
     ELSE IF At(p, k) # At(hay, i) THEN Search(hay, n, part, behind, i - k + 1, 0)
     ELSE IF At(p, k + 1) = At(p, Len(part)) THEN i + 1 - Len(part)
     ELSE Search(hay, n, part, behind, i + 1, k + 1)
ch3_strstr(hay, n, part, behind) == Search(hay, n, part, behind, 0, 0)

From(memory, p) == SubSeq(memory, p + 1, Len(memory))
\* The matches of a loop that goes on behind each: as far as the end, or always for the
\* length of the whole string.
RECURSIVE Matches(_, _, _, _, _, _)
Matches(memory, n, part, behind, p, whole) ==
  LET m == ch3_strstr(From(memory, p), IF whole THEN n ELSE n - p, part, behind)
  IN IF m = None THEN <<>>
     ELSE <<p + m>> \o Matches(memory, n, part, behind, p + m + Len(part), whole)
\* The pieces before the matches; one that starts behind its end is not to be copied.
Starts(matches, part) == <<0>> \o [k \in DOMAIN matches |-> matches[k] + Len(part)]
Torn(matches, part) == \E k \in DOMAIN matches : matches[k] < Starts(matches, part)[k]
Piece(memory, from, to) == Cells(Max({to - from, 0}), LAMBDA k : At(memory, from + k))

-----------------------------------------------------------------------------
(* String.  The list that Lists has is left alone. *)

Gets(ret) == Returned(list, ret)
\* Memory outside of the string is read or written.
Broken == Outcome(list, None, "broken")
in__QUES(part, behind, s) == Gets(ch3_strstr(s, Len(s), part, behind) # None)
\* The strings' own memory is freed.
find(s, part, behind, start, after) ==
  LET m == ch3_strstr(From(s \o after, start), Len(s), part, behind)
  IN IF part = <<>> THEN Gets(0)
     ELSE Outcome(list, IF m = None THEN 0 ELSE start + m, "freed")
\* The room for the result is counted up to the end of the string; in the copy, every
\* search has the length of the whole string.
replace(s, part, behind, by, after) ==
  LET n == Len(s)
      memory == s \o after
      size == n + Len(Matches(s, n, part, behind, 0, FALSE)) * (Len(by) - Len(part))
      matches == Matches(memory, n, part, behind, 0, TRUE)
      starts == Starts(matches, part)
      copied == FlattenSeq([k \in DOMAIN matches |-> Piece(memory, starts[k], matches[k]) \o by])
                \o Piece(memory, Last(starts), n)
  IN IF Len(part) > n THEN Gets(s)
     ELSE IF part = <<>> THEN Raised(list)
     ELSE IF Torn(matches, part) \/ Len(copied) > size + 1 THEN Broken
     ELSE Gets(Cells(size, LAMBDA k : At(copied, k)))
split(s, part, behind) ==
  LET matches == Matches(s, Len(s), part, behind, 0, FALSE)
      starts == Starts(matches, part)
      ends == Append(matches, Len(s))
  IN IF part = <<>> THEN Raised(list)
     ELSE IF Torn(matches, part) THEN Broken
     ELSE Gets([k \in DOMAIN starts |-> Piece(s, starts[k], ends[k])])
join(s, texts) == Gets(FlattenSeq([k \in DOMAIN texts |-> IF k = 1 THEN texts[k] ELSE s \o texts[k]]))
add_String(s, other) == Gets(s \o other)
times_(s, n) == Gets(FlattenSeq([k \in 1..n |-> s]))
mul_String(s, n) == IF n < 0 THEN Raised(list) ELSE times_(s, n)
\* A negative number raises in mul_, and the missing string is searched through.
expandTabs(s, n, after) == IF n < 0 THEN Broken
                           ELSE replace(s, Tab, Zeros, times_(<<Space>>, n).ret, after)

Ends(s) == {k \in DOMAIN s : ~IS_SPACE(s[k])}
lStrip(s) == Gets(SubSeq(s, Min(Ends(s) \cup {Len(s) + 1}), Len(s)))
rStrip(s) == Gets(SubSeq(s, 1, Max(Ends(s) \cup {0})))
strip(s) == Gets(rStrip(lStrip(s).ret).ret)

\* Characters of more than a byte have no case, or one that is not known.
NoCase(c) == c \in (9472..65279) \cup (1536..7679) \cup (8192..8447) \cup (8704..9215)
pr_toupper(c) == IF c \in 97..122 THEN c - 32 ELSE c
pr_tolower(c) == IF c \in 65..90 THEN c + 32 ELSE c
changeCase(s, how) ==
  LET Changed(k) == \/ how \in {"lower", "upper"}
                    \/ how = "capitalize" /\ k = 1
                    \/ how = "capWords" /\ (k = 1 \/ IS_SPACE(s[k - 1]))
      Of(c) == IF how = "lower" THEN pr_tolower(c) ELSE pr_toupper(c)
  IN IF \E k \in DOMAIN s : Changed(k) /\ s[k] > 255 /\ ~NoCase(s[k]) THEN Raised(list)
     ELSE Gets([k \in DOMAIN s |-> IF Changed(k) THEN Of(s[k]) ELSE s[k]])

\* A specification: left alignment, zeros, width and precision.
str_(s, spec) ==
  LET cut == IF spec.precision = None THEN s
             ELSE SubSeq(s, 1, Min({spec.precision, Len(s)}))
      width == IF spec.width = None THEN Len(cut) ELSE spec.width
      Fill(c) == [k \in 1..Max({width - Len(cut), 0}) |-> c]
  IN IF spec.left THEN Gets(cut \o Fill(Space))
     ELSE Gets(Fill(IF spec.zero THEN 48 ELSE Space) \o cut)

MAX_UNICODE_VALUE == 1114111
cmp_String(s, other) == Gets(cmp_(List(s, 0), List(other, 0)).ret)
cmp_Char(s, c) == IF Len(s) # 1 \/ c \notin 0..MAX_UNICODE_VALUE THEN Raised(list)
                  ELSE cmp_String(s, <<c>>)
ord_(s) == IF s = <<>> THEN Raised(list) ELSE Gets(s[1])
\* The last call of next raises StopIteration with the generator write-locked.
iter_String(s) == Outcome(list, s, "kept")

-----------------------------------------------------------------------------
(* Bytes. *)

init_Bytes(items) == IF ToSet(items) \subseteq 0..255 THEN Gets(items) ELSE Raised(list)
\* Only the first bytes are compared, in every turn.
cmp_Bytes(s, other) ==
  LET First1(t) == IF s = <<>> \/ other = <<>> THEN <<>> ELSE <<t[1]>>
      first == cmp_(List(First1(s), 0), List(First1(other), 0)).ret
      Sign(d) == IF d < 0 THEN -1 ELSE IF d > 0 THEN 1 ELSE 0
  IN Gets(IF first # 0 THEN first ELSE Sign(Len(s) - Len(other)))
add_Bytes(s, other) == Gets(s \o other)
\* No bytes are no object, and a negative number is a huge one.
mul_Bytes(s, n) == IF n = 0 THEN Gets(None)
                   ELSE IF n > 0 THEN times_(s, n)
                   ELSE IF s = <<>> THEN Hangs(list) ELSE Broken
\* The end of the copy is measured from the block's start by the size of a block with a
\* shorter head; bytes in the object itself are taken for an address.
HeadGap == {4, 12}
iter_Bytes(s, gap) == IF Len(s) <= IMM_DATA_LEN \/ Len(s) < gap THEN Broken
                      ELSE Outcome(list, SubSeq(s, 1, Len(s) - gap), "kept")

-----------------------------------------------------------------------------
Fresh == Ready /\ list = NEW_LIST(0)

OnString == Fresh /\ \E s \in Texts :
  \/ \E how \in {"lower", "upper", "capitalize", "capWords"} :
       Call("changeCase", <<s, how>>, changeCase(s, how))
  \/ Call("lStrip", <<s>>, lStrip(s)) \/ Call("rStrip", <<s>>, rStrip(s))
  \/ Call("strip", <<s>>, strip(s))
  \/ Call("ord", <<s>>, ord_(s)) \/ Call("iterString", <<s>>, iter_String(s))
  \/ \E spec \in Specs : Call("format", <<s, spec>>, str_(s, spec))
  \/ \E n \in Times : \/ Call("mulString", <<s, n>>, mul_String(s, n))
                      \/ \E after \in Behind(s) :
                           Call("expandTabs", <<s, n, after>>, expandTabs(s, n, after))
  \/ \E other \in Parts : \/ Call("cmpString", <<s, other>>, cmp_String(s, other))
                            \/ Call("addString", <<s, other>>, add_String(s, other))
  \/ \E c \in {-1, 97, 98} : Call("cmpChar", <<s, c>>, cmp_Char(s, c))
  \/ \E a, b \in Parts : \/ Call("join", <<s, <<a, b>>>>, join(s, <<a, b>>))
                         \/ Call("join", <<s, <<a>>>>, join(s, <<a>>))
OnPart == Fresh /\ \E s \in Texts, part \in Parts : \E behind \in Behind(part) :
  \/ Call("in", <<s, part, behind>>, in__QUES(part, behind, s))
  \/ Call("split", <<s, part, behind>>, split(s, part, behind))
  \/ \E after \in Behind(s) :
       \/ \E start \in 0..Len(s) :
            Call("find", <<s, part, behind, start, after>>, find(s, part, behind, start, after))
       \/ \E by \in Parts :
            Call("replace", <<s, part, behind, by, after>>, replace(s, part, behind, by, after))
OnBytes == Fresh /\ \E s \in ByteStrings :
  \/ \E n \in Times : Call("mulBytes", <<s, n>>, mul_Bytes(s, n))
  \/ \E gap \in HeadGap : Call("iterBytes", <<s, gap>>, iter_Bytes(s, gap))
  \/ \E x \in {-1, 0, 255, 256} : Call("initBytes", <<Append(s, x)>>, init_Bytes(Append(s, x)))
  \/ \E other \in ByteStrings : \/ Call("cmpBytes", <<s, other>>, cmp_Bytes(s, other))
                                \/ Call("addBytes", <<s, other>>, add_Bytes(s, other))

AllNext == Next \/ OnString \/ OnPart \/ OnBytes
AllSpec == Init /\ [][AllNext]_<<list, last>>
=============================================================================
