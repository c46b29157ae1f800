------------------------------ MODULE SimdOps ------------------------------
(***************************************************************************)
(* CountChar, Trim and ReplaceChar (simd_ops.cpp) as Python calls them:    *)
(* a str goes in as its UTF-8 bytes, whole chunks of bytes are compared at *)
(* once and the rest one by one, and the bytes of the result become a str  *)
(* again.  Bytes and characters are counted from 0, as in the code.        *)
(***************************************************************************)
EXTENDS Integers, Sequences, SequencesExt, FiniteSetsExt

CONSTANTS Width,     \* bytes of a chunk, 16
          Chars,     \* characters
          Blanks,    \* ' ', '\t', '\n', '\r'
          Nul,       \* the zero byte, also a character
          Wide,      \* the characters that take two bytes in UTF-8
          MaxLen     \* bound: characters of a text

VARIABLES call,      \* the call: its name and arguments
          answer     \* what Python gets

simdVars == <<call, answer>>

\* UTF-8: an ASCII character is its own byte, the others a lead and a
\* continuation byte, neither of which is an ASCII byte.
Lead(c) == <<"lead", c>>
Cont(c) == <<"cont", c>>
Utf8(c) == IF c \in Wide THEN <<Lead(c), Cont(c)>> ELSE <<c>>
Encode(text) == FlattenSeq([i \in DOMAIN text |-> Utf8(text[i])])

\* nanobind's char caster looks at the C string of a str: it takes its first
\* byte if a zero byte follows, the one that ends the string or one in it.
CString(arg) == Encode(arg) \o <<Nul>>
IsChar_AnyLength(arg) == CString(arg)[1] # Nul
IsChar(arg) == CString(arg)[1] # Nul /\ CString(arg)[2] = Nul
CharOf(arg) == CString(arg)[1]

At(data, i) == data[i + 1]

\* The bytes whole chunks cover, and the rest.
Chunks(len) == len \div Width
Rest(len) == Width * Chunks(len) .. len - 1

\* _mm_cmpeq_epi8 and _mm_movemask_epi8: the equal bytes of a chunk.
Mask(data, chunk, ch) == {j \in 0 .. Width - 1 : At(data, Width * chunk + j) = ch}

CountChar(data, ch) ==
  SumFunction([c \in 0 .. Chunks(Len(data)) - 1 |-> Cardinality(Mask(data, c, ch))])
  + Cardinality({i \in Rest(Len(data)) : At(data, i) = ch})

\* The first byte that is no blank, and the end after the last.
TrimStart(data) == Min({i \in 0 .. Len(data) : i < Len(data) => At(data, i) \notin Blanks})
TrimEnd(data) ==
  Max({i \in TrimStart(data) .. Len(data) :
         i > TrimStart(data) => At(data, i - 1) \notin Blanks})
Trim(data) == SubSeq(data, TrimStart(data) + 1, TrimEnd(data))

\* Matching bytes of the chunks are blended with the new byte, the rest replaced.
ReplaceChar(data, old, new) ==
  [n \in DOMAIN data |->
     LET i == n - 1 IN
     IF i \in Rest(Len(data)) THEN (IF data[n] = old THEN new ELSE data[n])
     ELSE IF i % Width \in Mask(data, i \div Width, old) THEN new ELSE data[n]]

Init == call = [name |-> "none"] /\ answer = << >>

Texts == SeqOf(Chars, MaxLen)
Args  == SeqOf(Chars, 2)

Count ==
  \E text \in Texts, a \in Args :
    /\ IsChar(a)
    /\ call' = [name |-> "count_char", text |-> text, ch |-> a]
    /\ answer' = CountChar(Encode(text), CharOf(a))

Strip ==
  \E text \in Texts :
    /\ call' = [name |-> "trim", text |-> text]
    /\ answer' = Trim(Encode(text))

Replace ==
  \E text \in Texts, a, b \in Args :
    /\ IsChar(a) /\ IsChar(b)
    /\ call' = [name |-> "replace_char", text |-> text, old |-> a, new |-> b]
    /\ answer' = ReplaceChar(Encode(text), CharOf(a), CharOf(b))

Next == call.name = "none" /\ (Count \/ Strip \/ Replace)
-----------------------------------------------------------------------------
\* A text without leading and trailing blanks, character by character.
Stripped(text) ==
  LET kept == {n \in DOMAIN text : text[n] \notin Blanks} IN
  IF kept = {} THEN << >> ELSE SubSeq(text, Min(kept), Max(kept))

\* The functions work on bytes, whole chunks first, and their callers think in
\* characters: no chunk boundary and no character of several bytes shows, and
\* what comes back is UTF-8 again.
BytesAreCharacters ==
  CASE call.name = "none" -> TRUE
    [] call.name = "count_char" ->
         answer = Cardinality({n \in DOMAIN call.text : call.text[n] = call.ch[1]})
    [] call.name = "trim" -> answer = Encode(Stripped(call.text))
    [] call.name = "replace_char" ->
         answer = Encode([n \in DOMAIN call.text |->
                            IF call.text[n] = call.old[1] THEN call.new[1] ELSE call.text[n]])
=============================================================================
