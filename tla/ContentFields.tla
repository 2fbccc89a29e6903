---------------------------- MODULE ContentFields ----------------------------
(***************************************************************************)
(* The fields of the index model that follow from the content itself:      *)
(* handleMessage's choice between body and bodyXML and                     *)
(* populateContentRelatedFields of pkg/mapper/mapper.go.  Fields that are  *)
(* copied as they are stand aside; the byline goes the way of the title.   *)
(***************************************************************************)
EXTENDS TextTransformer

CONSTANTS
    Contents,    \* the contents that are considered
    ImageId,     \* identifiers of images
    Nil,         \* no thumbnail
    Blank        \* a thumbnail without an address

ContentType == {"article", "blog", "video", "audio", "live-event"}
DataSource == [duration : Nat, media : {"video", "audio", "other"}]

(* The address of an image, split at its slashes: it ends in the id, or in *)
(* a slash.                                                                *)
Address ==
    {a \in Seq({"content", ""} \cup ImageId) :
        a # << >> => Len(a) > 1 /\ Last(a) \in {""} \cup ImageId}

Content ==
    [type        : ContentType,
     title       : Seq(Blocks),
     body        : Seq(Blocks),
     bodyXML     : Seq(Blocks),
     description : Seq(Blocks),
     mainImage   : BOOLEAN,
     members     : Seq(Address),
     dataSources : Seq(DataSource)]

ASSUME ContentsAssumption == Contents \subseteq Content
ASSUME NilAssumption ==
    Nil # Blank /\ {Nil, Blank} \cap ({""} \cup ImageId) = {} /\ "" \notin ImageId

VARIABLES
    event,     \* the content as it was published
    content,   \* the content in the handler's hands
    model,     \* headline, body, thumbnail and length of the index model
    scan,      \* the data source the loop over them is at
    stage      \* received, normalised, scanning or mapped

vars == <<event, content, model, scan, stage>>

-----------------------------------------------------------------------------
Init ==
    /\ event \in Contents
    /\ content = event
    /\ model = [headline |-> << >>, body |-> << >>, thumbnail |-> Nil, length |-> 0]
    /\ scan = 1
    /\ stage = "received"

(* Mutant: bodyXML goes before body.                                       *)
NormaliseXMLFirst ==
    /\ stage = "received"
    /\ content' = IF content.bodyXML # << >>
                  THEN [content EXCEPT !.body = content.bodyXML, !.bodyXML = << >>]
                  ELSE content
    /\ stage' = "normalised"
    /\ UNCHANGED <<event, model, scan>>

(* Mutant: bodyXML stays where it was.                                     *)
NormaliseByCopy ==
    /\ stage = "received"
    /\ content' = IF content.bodyXML # << >> /\ content.body = << >>
                  THEN [content EXCEPT !.body = content.bodyXML] ELSE content
    /\ stage' = "normalised"
    /\ UNCHANGED <<event, model, scan>>

(* handleMessage: bodyXML becomes the body when there is none. *)
Normalise ==
    /\ stage = "received"
    /\ content' = IF content.bodyXML # << >> /\ content.body = << >>
                  THEN [content EXCEPT !.body = content.bodyXML, !.bodyXML = << >>]
                  ELSE content
    /\ stage' = "normalised"
    /\ UNCHANGED <<event, model, scan>>

Headline == TransformText("headline", Lexemes(content.title))

(* The description stands in, as it is, for a body that is not there, not   *)
(* for one of which nothing is left.                                       *)
Body ==
    IF content.body # << >> THEN TransformText("body", Lexemes(content.body))
    ELSE Lexemes(content.description)

Thumbnail ==
    IF content.type = "blog" \/ ~content.mainImage THEN Nil
    ELSE IF content.members = << >> \/ Head(content.members) = << >> THEN Blank
    ELSE Last(Head(content.members))

PopulateFields ==
    /\ stage = "normalised"
    /\ model' = [model EXCEPT !.headline = Headline, !.body = Body,
                              !.thumbnail = Thumbnail]
    /\ stage' = IF content.type \in {"video", "audio"} THEN "scanning" ELSE "mapped"
    /\ UNCHANGED <<event, content, scan>>

(* The first data source of an audio, the first that is one of a video.    *)
Counts(d) == content.type = "audio" \/ d.media = "video"

(* Mutant: the loop is not left.                                           *)
TakeLengthAgain ==
    /\ stage = "scanning"
    /\ scan \in DOMAIN content.dataSources
    /\ Counts(content.dataSources[scan])
    /\ model' = [model EXCEPT !.length = content.dataSources[scan].duration]
    /\ scan' = scan + 1
    /\ UNCHANGED <<event, content, stage>>

TakeLength ==
    /\ stage = "scanning"
    /\ scan \in DOMAIN content.dataSources
    /\ Counts(content.dataSources[scan])
    /\ model' = [model EXCEPT !.length = content.dataSources[scan].duration]
    /\ stage' = "mapped"
    /\ UNCHANGED <<event, content, scan>>

NextSource ==
    /\ stage = "scanning"
    /\ scan \in DOMAIN content.dataSources
    /\ ~Counts(content.dataSources[scan])
    /\ scan' = scan + 1
    /\ UNCHANGED <<event, content, model, stage>>

NoMoreSources ==
    /\ stage = "scanning"
    /\ scan \notin DOMAIN content.dataSources
    /\ stage' = "mapped"
    /\ UNCHANGED <<event, content, model, scan>>

Next == Normalise \/ PopulateFields \/ TakeLength \/ NextSource \/ NoMoreSources

Spec == Init /\ [][Next]_vars

-----------------------------------------------------------------------------
(* Properties. *)

Mapped == stage = "mapped"

(* Types, and what is passed to the mapper is what was published, but for   *)
(* the place of its body.                                                  *)
TypeOK ==
    /\ event \in Contents
    /\ content \in {event, [event EXCEPT !.body = event.bodyXML, !.bodyXML = << >>]}
    /\ model \in [headline : Seq(Lexeme), body : Seq(Lexeme),
                  thumbnail : {Nil, Blank, ""} \cup ImageId, length : Nat]
    /\ scan \in 1 .. Len(event.dataSources) + 1
    /\ stage \in {"received", "normalised", "scanning", "mapped"}

(* The texts a field could be made from, the best one first.               *)
Source(f) ==
    IF f = "headline" THEN event.title
    ELSE IF event.body # << >> THEN event.body
    ELSE IF event.bodyXML # << >> THEN event.bodyXML
    ELSE event.description

(* The fields that have been through the transformers.                     *)
Transformed ==
    IF ~Mapped THEN {}
    ELSE {"headline"} \cup (IF {event.body, event.bodyXML} = {<< >>} THEN {} ELSE {"body"})

WordsOf(t) == WordsAt(t, DOMAIN t)
WordsShown(f, blocks) == FlattenSeq([k \in DOMAIN blocks |-> blocks[k].shown[f]])
FirstLessThan(blocks) == SelectInSeq(blocks, LAMBDA b : b.lexemes = LessThan)
Has(blocks, x) == \E k \in DOMAIN blocks : x \in ToSet(blocks[k].lexemes)

(* Blocks do not disturb each other: whatever is next to what, the words of *)
(* a field are those that each block is to show, in their order: no text    *)
(* around pull quotes, scripts, graphics, captions and tags is lost with    *)
(* them, and none of theirs is indexed; those of a script are not if it is  *)
(* escaped either, those of an escaped pull quote or graphic are.  A lone   *)
(* "less than" opens a tag once it is unescaped, and takes the text up to   *)
(* the next bracket with it: it is the only thing to cost words, and costs  *)
(* none in front of it.                                                    *)
BlocksIndependent ==
    \A f \in Transformed :
        LET blocks == Source(f)
        IN  IF FirstLessThan(blocks) = 0
            THEN WordsOf(model[f]) = WordsShown(f, blocks)
            ELSE IsPrefix(WordsShown(f, SubSeq(blocks, 1, FirstLessThan(blocks) - 1)),
                          WordsOf(model[f]))

(* The entities that one pass makes of those that were escaped twice.      *)
Remains(t) == {Unescaped(x) : x \in ToSet(t) \cap Twice}

(* No part of a field still reads as a tag, whether it was one, was escaped *)
(* or is put together from what was around something that is gone; in a     *)
(* body none reads as a caption.  Nothing reads as an entity, but for what  *)
(* was escaped twice: this is left, as the text of a tag or a space.        *)
NoMarkupLeft ==
    \A f \in Transformed :
        LET text == model[f]
        IN  /\ ToSet(text) \cap (Entities \cup Twice) \subseteq Remains(Lexemes(Source(f)))
            /\ ~\E i, j \in DOMAIN text :
                  \/ i < j /\ text[i] = "<" /\ text[j] = ">"
                  \/ i < j /\ f = "body" /\ text[i] = "[caption" /\ text[j] = "]"

(* What embeds and captions leave between two spaces is one space; and a    *)
(* field begins or ends with one only if it is a body and an embed or a     *)
(* caption has been taken from it after the trimming.                       *)
SpacesInPlace ==
    \A f \in Transformed :
        LET text == model[f]
        IN  /\ ~\E i \in 1 .. Len(text) - 1 : text[i] = " " /\ text[i + 1] = " "
            /\ text # << >> /\ {text[1], Last(text)} \cap {" ", "nb"} # {}
               => f = "body" /\ (Has(Source(f), "embed1") \/ Has(Source(f), "[caption"))

(* The words of the body are words of the best text there is.              *)
WordsFromBestText ==
    Mapped => ToSet(WordsOf(model.body)) \subseteq ToSet(WordsOf(Lexemes(Source("body"))))

(* Between handler and mapper no text gives way to one of lower rank: the   *)
(* body is indexed whenever there is one, bodyXML when there is no body,    *)
(* the description when there is neither; the model has no body only if all *)
(* are missing or the one that was chosen shows nothing.                    *)
BestTextIndexed ==
    /\ WordsFromBestText
    /\ (Mapped /\ model.body = << >>) =>
          WordsShown("body", Source("body")) = << >> \/ FirstLessThan(Source("body")) # 0

(* A document has a thumbnail with an address exactly if it can have one    *)
(* (blogs cannot, the flag alone is not enough), and it is an image of the  *)
(* first member of the content's own set, or no image at all where this     *)
(* one's address ends in a slash.  Its length is that of the data           *)
(* source a player would start with: no source before it is one of the      *)
(* content's kind, whatever else is listed with a video.                    *)
MediaOfContent ==
    Mapped =>
        /\ model.thumbnail \in {""} \cup ImageId <=>
              /\ event.type # "blog" /\ event.mainImage
              /\ event.members # << >> /\ event.members[1] # << >>
        /\ model.thumbnail \in ImageId =>
              \E k \in DOMAIN event.members[1] : event.members[1][k] = model.thumbnail
        /\ model.thumbnail = "" => Last(event.members[1]) = ""
        /\ model.thumbnail = Nil <=> event.type = "blog" \/ ~event.mainImage
        /\ LET OfKind(d) == event.type = "audio" \/ (event.type = "video" /\ d.media = "video")
               media == {k \in DOMAIN event.dataSources : OfKind(event.dataSources[k])}
           IN  model.length = IF media = {} THEN 0 ELSE event.dataSources[Min(media)].duration

=============================================================================
