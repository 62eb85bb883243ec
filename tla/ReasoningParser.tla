--------------------------- MODULE ReasoningParser ---------------------------
(***************************************************************************)
(* Splitting a generation into reasoning and content while its text        *)
(* arrives in pieces, and in one go (reasoning.py).  The tags are any two  *)
(* sequences; how a chunk cuts a tag is up to the model's tokens.          *)
(***************************************************************************)
EXTENDS Naturals, Sequences

CONSTANTS
    Chars,     \* the characters a model may generate
    StartTag,  \* <think>
    EndTag,    \* </think>
    MaxText,   \* bound on the characters of one generation
    MaxDelta   \* bound on the characters of one chunk

ASSUME ParserTags ==
    /\ StartTag \in Seq(Chars) /\ Len(StartTag) > 1
    /\ EndTag \in Seq(Chars) /\ Len(EndTag) > 1
    /\ MaxText \in Nat /\ MaxDelta \in Nat

VARIABLES
    inPrompt,  \* start_in_prompt of the model's parser
    state,     \* ParserState and what it has emitted: mode, buf, r, c
    text       \* the generated text so far

parserVars == <<inPrompt, state, text>>

Deltas == UNION {[1..n -> Chars] : n \in 1..MaxDelta}

\* The text before and after the first occurrence of a tag; str.find.
Found(tag, t) == {i \in 0..(Len(t) - Len(tag)) : SubSeq(t, i + 1, i + Len(tag)) = tag}
Has(tag, t) == Len(t) >= Len(tag) /\ Found(tag, t) # {}
First(tag, t) == CHOOSE i \in Found(tag, t) : \A j \in Found(tag, t) : i <= j
Before(tag, t) == SubSeq(t, 1, First(tag, t))
After(tag, t) == SubSeq(t, First(tag, t) + Len(tag) + 1, Len(t))

\* What may be released while the end could still begin a tag.
HoldOneLess(tag) == Len(tag) - 2
Hold(tag) == Len(tag) - 1
Emitted(tag, t) == SubSeq(t, 1, Len(t) - Hold(tag))
Kept(tag, t) ==
    IF Len(t) > Hold(tag) THEN SubSeq(t, Len(t) - Hold(tag) + 1, Len(t)) ELSE t

-----------------------------------------------------------------------------
\* The three modes of feed, in the order the loop falls through them.

Pending(s) ==
    IF s.mode # "pending_start" THEN s
    ELSE IF Has(StartTag, s.buf)
         THEN [mode |-> "reasoning", buf |-> After(StartTag, s.buf),
               r |-> s.r, c |-> s.c \o Before(StartTag, s.buf)]
         ELSE [s EXCEPT !.buf = Kept(StartTag, @), !.c = @ \o Emitted(StartTag, s.buf)]

Reasoning(s) ==
    IF s.mode # "reasoning" THEN s
    ELSE IF Has(EndTag, s.buf)
         THEN [mode |-> "content", buf |-> After(EndTag, s.buf),
               r |-> s.r \o Before(EndTag, s.buf), c |-> s.c]
         ELSE [s EXCEPT !.buf = Kept(EndTag, @), !.r = @ \o Emitted(EndTag, s.buf)]

Content(s) ==
    IF s.mode # "content" THEN s ELSE [s EXCEPT !.buf = <<>>, !.c = @ \o s.buf]

Fed(s, delta) == Content(Reasoning(Pending([s EXCEPT !.buf = @ \o delta])))

\* finalize: what is held back goes to the channel that is active.
Finalized(s) ==
    IF s.mode = "reasoning" THEN <<s.r \o s.buf, s.c>> ELSE <<s.r, s.c \o s.buf>>

\* extract_final: a start tag is looked for only where the prompt has none, and
\* what is before it is dropped; without an end tag it depends on the prompt
\* whether all is reasoning or content.
ExtractFinal(p, t) ==
    LET rest == IF ~p /\ Has(StartTag, t) THEN After(StartTag, t) ELSE t
    IN  IF Has(EndTag, rest) THEN <<Before(EndTag, rest), After(EndTag, rest)>>
        ELSE IF p THEN <<rest, <<>>>> ELSE <<<<>>, rest>>

-----------------------------------------------------------------------------
Fresh(p) ==
    [mode |-> IF p THEN "reasoning" ELSE "pending_start", buf |-> <<>>, r |-> <<>>, c |-> <<>>]

ParserInit ==
    /\ inPrompt = TRUE
    /\ state = Fresh(TRUE)
    /\ text = <<>>

\* make_state, for one family of models or the other
MakeState ==
    /\ inPrompt' \in BOOLEAN
    /\ state' = Fresh(inPrompt')
    /\ text' = <<>>

Feed ==
    \E d \in Deltas :
        /\ Len(text) + Len(d) <= MaxText
        /\ state' = Fed(state, d)
        /\ text' = text \o d
        /\ UNCHANGED inPrompt

ParserNext == MakeState \/ Feed

ParserSpec == ParserInit /\ [][ParserNext]_parserVars

-----------------------------------------------------------------------------
Modes == {"pending_start", "reasoning", "content"}

ParserType ==
    /\ inPrompt \in BOOLEAN
    /\ state \in [mode : Modes, buf : Seq(Chars), r : Seq(Chars), c : Seq(Chars)]
    /\ text \in Seq(Chars)

\* Where the text leaves no doubt: the prompt holds the start tag, or the text
\* opens with it and closes the span again, or has no tag at all.
Unambiguous(p, t) ==
    \/ p
    \/ /\ Has(StartTag, t) /\ First(StartTag, t) = 0
       /\ Has(EndTag, After(StartTag, t)) \/ After(StartTag, t) = <<>>
    \/ ~Has(StartTag, t) /\ ~Has(EndTag, t)

\* The stated invariant of ParserState: between two feeds at most the longer
\* tag's length less one is held back, so streaming never stalls (reasoning.py:96-98).
HeldBackIsShort ==
    Len(state.buf) <= CASE state.mode = "pending_start" -> Hold(StartTag)
                        [] state.mode = "reasoning" -> Hold(EndTag)
                        [] OTHER -> 0

\* However the chunks cut the text, and wherever it stops, the deltas a client
\* collected and the tail finalize flushes are the split of the whole text fed
\* at once.  They are what extract_final gives, the answer of a call that does
\* not stream, for a model whose prompt holds the start tag; for the others
\* exactly where the text leaves no doubt.  Elsewhere the two disagree:
\* extract_final drops what is before the start tag and returns truncated
\* reasoning as content, and a lone end tag splits there and not in the stream
\* (reasoning.py:61-83, 108-164, controller.py:463, 479).  What can be told
\* apart already has been streamed.
StreamingIsOneShot ==
    /\ Finalized(state) = Finalized(Fed(Fresh(inPrompt), text))
    /\ Finalized(state) = ExtractFinal(inPrompt, text) <=> Unambiguous(inPrompt, text)
    /\ HeldBackIsShort
=============================================================================
