--------------------------- MODULE TextTransformer ---------------------------
(***************************************************************************)
(* pkg/html/transformer.go and the two lists of transformers that          *)
(* populateContentRelatedFields of pkg/mapper/mapper.go gives it.          *)
(*                                                                         *)
(* A text is a sequence of the lexemes the regular expressions tell apart: *)
(* words, a whitespace, brackets, the names of tags (with attributes, if   *)
(* any), entities, embed1, [caption.  "nb" is U+00A0, which is a space to  *)
(* strings.TrimSpace and none to \s.                                       *)
(*                                                                         *)
(* Texts are made of blocks, each with what a reader is meant to see of it *)
(* in either field.  The module has operators only; ContentFields uses     *)
(* them.                                                                   *)
(***************************************************************************)
EXTENDS Naturals, Sequences, SequencesExt, FiniteSetsExt

CONSTANT
    Blocks       \* [lexemes, shown] for a word, an element, an entity ...

Names == {"p", "interactive", "/div", "pull-quote", "/pull-quote", "script", "/script"}
Entities == {"&lt;", "&gt;", "&amp;", "&nbsp;", "&#160;"}
Twice == {"&amp;lt;", "&amp;gt;", "&amp;nbsp;"}       \* entities that are escaped once more
Words == {"one", "two", "three"}
Lexeme == Words \cup Names \cup Entities \cup Twice
          \cup {" ", "nb", "<", ">", "&", "embed1", "[caption", "]"}
Fields == {"headline", "body"}

ASSUME BlocksAssumption ==
    Blocks \subseteq [lexemes : Seq(Lexeme), shown : [Fields -> Seq(Words)]]

Lexemes(blocks) == FlattenSeq([k \in DOMAIN blocks |-> blocks[k].lexemes])

-----------------------------------------------------------------------------
(* Regular expressions. *)

(* s is found in t at i.                                                   *)
Is(t, i, s) == i + Len(s) - 1 <= Len(t) /\ SubSeq(t, i, i + Len(s) - 1) = s

(* Where a match of each opening tag that starts at i can end.             *)
InteractiveOpens(t, i) == IF Is(t, i, <<"<", "interactive", ">">>) THEN {i + 2} ELSE {}

PullQuoteOpens(t, i) ==
    IF \E c \in {" ", ">"} : Is(t, i, <<"<", "pull-quote", c>>) THEN {i + 2} ELSE {}

ScriptOpens(t, i) ==
    IF Is(t, i, <<"<", "script">>)
    THEN {o \in i + 2 .. Len(t) : t[o] = ">" /\ \A k \in i + 2 .. o - 1 : t[k] # ">"}
    ELSE {}

(* Where the lazy .*? can stop: behind a closing tag.                      *)
Closes(t, opens, name) ==
    {k \in 1 .. Len(t) : \E o \in opens : k - 2 > o /\ Is(t, k - 2, <<"<", name, ">">>)}

(* From an opening lexeme to the first closing one.                        *)
Spans(t, i, open, close) == IF t[i] = open THEN {k \in i .. Len(t) : t[k] = close} ELSE {}

(* The lexemes of t at the positions S.                                    *)
Keep(t, S) ==
    LET kept[n \in 0 .. Len(t)] ==
            IF n = 0 THEN << >>
            ELSE IF n \in S THEN Append(kept[n - 1], t[n])
            ELSE kept[n - 1]
    IN  kept[Len(t)]

(* ReplaceAllString(input, ""): the leftmost match, as short as it can be,  *)
(* and on behind it.  ends[n] is where a match that starts at n can end,    *)
(* through[n] where the last one that starts there or before does end.      *)
Cut(t, ends) ==
    LET through[n \in 0 .. Len(t)] ==
            IF n = 0 THEN 0
            ELSE LET before == through[n - 1]
                 IN  IF n <= before \/ ends[n] = {} THEN before ELSE Min(ends[n])
    IN  Keep(t, {n \in DOMAIN t : through[n] < n})

-----------------------------------------------------------------------------
(* Transformers. *)

InteractiveGraphicsMarkupTagRemover(t) ==
    Cut(t, [i \in DOMAIN t |-> Closes(t, InteractiveOpens(t, i), "/div")])

(* Mutant: .* in place of .*?                                              *)
PullTagGreedy(t) ==
    LET ends(i) == Closes(t, PullQuoteOpens(t, i), "/pull-quote")
    IN  Cut(t, [i \in DOMAIN t |-> {k \in ends(i) : \A n \in ends(i) : n <= k}])

PullTagTransformer(t) ==
    Cut(t, [i \in DOMAIN t |-> Closes(t, PullQuoteOpens(t, i), "/pull-quote")])

(* One pass: what it makes is not unescaped again, be it an entity.        *)
Unescaped(x) ==
    CASE x = "&nbsp;"     -> " "
      [] x = "&#160;"     -> "nb"
      [] x = "&lt;"       -> "<"
      [] x = "&gt;"       -> ">"
      [] x = "&amp;"      -> "&"
      [] x = "&amp;lt;"   -> "&lt;"
      [] x = "&amp;gt;"   -> "&gt;"
      [] x = "&amp;nbsp;" -> "&nbsp;"
      [] OTHER            -> x

EntityTransformer(t) == [k \in DOMAIN t |-> Unescaped(t[k])]

ScriptTagRemover(t) ==
    Cut(t, [i \in DOMAIN t |-> Closes(t, ScriptOpens(t, i), "/script")])

TagsRemover(t) == Cut(t, [i \in DOMAIN t |-> Spans(t, i, "<", ">")])

(* What is between two lexemes that are no spaces.                         *)
OuterSpaceTrimmer(t) ==
    LET shown == {k \in DOMAIN t : t[k] \notin {" ", "nb"}}
    IN  Keep(t, {n \in DOMAIN t : \E i, k \in shown : i <= n /\ n <= k})

Embed1Replacer(t) == Keep(t, {n \in DOMAIN t : t[n] # "embed1"})

SquaredCaptionReplacer(t) ==
    Cut(t, [i \in DOMAIN t |-> Spans(t, i, "[caption", "]")])

(* The first of neighbouring spaces stays.                                 *)
DuplicateWhiteSpaceRemover(t) ==
    Keep(t, {n \in DOMAIN t : ~(t[n] = " " /\ n > 1 /\ t[n - 1] = " ")})

Transform(name, t) ==
    CASE name = "interactive" -> InteractiveGraphicsMarkupTagRemover(t)
      [] name = "pull"        -> PullTagTransformer(t)
      [] name = "entity"      -> EntityTransformer(t)
      [] name = "script"      -> ScriptTagRemover(t)
      [] name = "tags"        -> TagsRemover(t)
      [] name = "trim"        -> OuterSpaceTrimmer(t)
      [] name = "embed"       -> Embed1Replacer(t)
      [] name = "caption"     -> SquaredCaptionReplacer(t)
      [] name = "spaces"      -> DuplicateWhiteSpaceRemover(t)

-----------------------------------------------------------------------------
(* The lists of populateContentRelatedFields. *)

(* Mutants: tags are removed before entities are unescaped; spaces are     *)
(* merged before embeds and captions go.                                   *)
StepsEntityLate(f) ==
    IF f = "headline" THEN <<"tags", "entity", "trim", "spaces">>
    ELSE <<"interactive", "pull", "script", "tags", "entity", "trim", "embed",
           "caption", "spaces">>

StepsSpacesEarly(f) ==
    IF f = "headline" THEN <<"entity", "tags", "trim", "spaces">>
    ELSE <<"interactive", "pull", "entity", "script", "tags", "trim", "spaces",
           "embed", "caption">>

Steps(f) ==
    IF f = "headline" THEN <<"entity", "tags", "trim", "spaces">>
    ELSE <<"interactive", "pull", "entity", "script", "tags", "trim", "embed",
           "caption", "spaces">>

TransformText(f, t) ==
    LET current[n \in 0 .. Len(Steps(f))] ==
            IF n = 0 THEN t ELSE Transform(Steps(f)[n], current[n - 1])
    IN  current[Len(Steps(f))]

-----------------------------------------------------------------------------
(* What a reader is meant to see of a block, without a word on how the     *)
(* expressions above get there. *)

(* The positions that are not between open and the first close behind it.  *)
Outside(t, open, close) ==
    {n \in DOMAIN t : \A i \in 1 .. n : t[i] = open => \E k \in i .. n - 1 : t[k] = close}

(* Nothing that is opened in t is left open.                               *)
Closed(t, open, close) ==
    \A i \in DOMAIN t : t[i] = open => \E k \in i .. Len(t) : t[k] = close

WordsAt(t, S) == Keep(t, {n \in DOMAIN t : n \in S /\ t[n] \in Words})

(* The words outside of tags, escaped or not.                              *)
InHeadline(b) ==
    LET t == EntityTransformer(b.lexemes)
    IN  Closed(t, "<", ">") /\ b.shown["headline"] = WordsAt(t, Outside(t, "<", ">"))

Opened(t, name) == \E n \in DOMAIN t : Is(t, n, <<"<", name>>)

(* Running text, with tags and with captions: bodies show what is outside  *)
(* of both.  A graphic or a pull quote that is escaped is running text: it *)
(* has tags only after those that would have gone as a whole are gone.     *)
Prose(b) ==
    LET t == EntityTransformer(b.lexemes)
        visible == Outside(t, "<", ">")
    IN  /\ ~Opened(b.lexemes, "interactive") /\ ~Opened(b.lexemes, "pull-quote")
        /\ ~Opened(t, "script")
        /\ Closed(t, "[caption", "]")
        /\ \A n \in DOMAIN t : t[n] \in {"[caption", "]"} => n \in visible
        /\ b.shown["body"] = WordsAt(t, visible \cap Outside(t, "[caption", "]"))

(* A graphic, a pull quote, or a script, the script escaped or not, up to   *)
(* its own closing tag, with anything in it: bodies show none of it.       *)
Enclosed(b) ==
    LET l == b.lexemes
        t == EntityTransformer(l)
    IN  /\ \/ Closes(l, InteractiveOpens(l, 1), "/div") = {Len(l)}
           \/ /\ ~Opened(l, "interactive")
              /\ Closes(l, PullQuoteOpens(l, 1), "/pull-quote") = {Len(l)}
           \/ /\ ~Opened(l, "interactive") /\ ~Opened(l, "pull-quote")
              /\ Closes(t, ScriptOpens(t, 1), "/script") = {Len(l)}
        /\ b.shown["body"] = << >>

LessThan == <<"&lt;">>

(* Blocks show what they should, but for a lone "less than".               *)
ASSUME ShownAssumption ==
    \A b \in Blocks : b.lexemes # LessThan => InHeadline(b) /\ (Prose(b) \/ Enclosed(b))

=============================================================================
