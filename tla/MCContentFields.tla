--------------------------- MODULE MCContentFields ---------------------------
(***************************************************************************)
(* Titles and bodies of up to three blocks of every kind the transformers  *)
(* know, in every order; and every type with every choice of texts, image  *)
(* set and list of data sources of up to two.                              *)
(***************************************************************************)
EXTENDS ContentFields

Block(lexemes, inHeadline, inBody) ==
    [lexemes |-> lexemes,
     shown |-> [f \in Fields |-> IF f = "headline" THEN inHeadline ELSE inBody]]

Visible(lexemes, words) == Block(lexemes, words, words)
Hidden(lexemes, words)  == Block(lexemes, words, << >>)

Word      == Visible(<<"one">>, <<"one">>)
Paragraph == Visible(<<"<", "p", ">", "one", " ">>, <<"one">>)
Escaped   == Visible(<<"&lt;", "p", "&gt;">>, << >>)
More      == Visible(<<"one", " ", "&gt;", "&amp;">>, <<"one">>)

MCBlocks ==
    {Word, Paragraph, Escaped, More,
     Visible(<<"&nbsp;">>, << >>), Visible(<<" ", "&#160;">>, << >>),
     Hidden(<<"<", "pull-quote", ">", "two", "<", "/pull-quote", ">">>, <<"two">>),
     Hidden(<<"<", "pull-quote", " ", "p", ">", "<", "p", ">", "two", "<", "/pull-quote", ">">>,
            <<"two">>),
     Hidden(<<"<", "interactive", ">", "two", "<", "/div", ">">>, <<"two">>),
     Hidden(<<"<", "script", " ", "p", ">", "two", "<", "/script", ">">>, <<"two">>),
     Hidden(<<"&lt;", "script", "&gt;", "two", "&lt;", "/script", "&gt;">>, <<"two">>),
     Hidden(<<" ", "[caption", "two", "]">>, <<"two">>),
     Visible(<<"&lt;", "pull-quote", "&gt;", "two", "&lt;", "/pull-quote", "&gt;">>, <<"two">>),
     Visible(<<"&lt;", "interactive", "&gt;", "two", "&lt;", "/div", "&gt;">>, <<"two">>),
     Visible(<<"&amp;lt;", "p", "&amp;gt;", "&amp;nbsp;">>, << >>),
     Visible(<<"embed1", " ">>, << >>), Visible(<<"&lt;">>, << >>)}

(* A text of another rank. *)
Two   == Visible(<<"two">>, <<"two">>)
Three == Visible(<<"three">>, <<"three">>)

AllBlocks == MCBlocks \cup {Two, Three}

-----------------------------------------------------------------------------
Plain ==
    [type |-> "article", title |-> << >>, body |-> << >>, bodyXML |-> << >>,
     description |-> << >>, mainImage |-> FALSE, members |-> << >>, dataSources |-> << >>]

ManyTexts ==
    {[Plain EXCEPT !.title = text, !.body = text] : text \in BoundedSeq(MCBlocks, 3)}
    \cup {[Plain EXCEPT !.bodyXML = text] : text \in BoundedSeq(MCBlocks, 2)}

Members == {<< >>, << << >> >>, << <<"content", "i1">> >>,
            << <<"content", "i1">>, <<"content", "i2">> >>, << << >>, <<"content", "i2">> >>,
            << <<"content", "i1", "">> >>}
Sources == {[duration |-> 1, media |-> "audio"], [duration |-> 2, media |-> "video"],
            [duration |-> 3, media |-> "video"], [duration |-> 0, media |-> "other"]}

ManyFields ==
    [type : ContentType, title : {<<Word>>},
     body : {<< >>, <<Escaped>>, <<Word>>}, bodyXML : {<< >>, <<Escaped>>, <<Two>>},
     description : {<< >>, <<Three>>}, mainImage : BOOLEAN, members : Members,
     dataSources : BoundedSeq(Sources, 2)]

MCContents == ManyTexts \cup ManyFields

MCImageId == {"i1", "i2"}

=============================================================================
