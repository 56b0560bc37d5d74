---------------------------- MODULE DocumentSplitter ----------------------------
(***************************************************************************)
(* JsonDocumentSplitter (api.py): the event stream is a sequence of bytes  *)
(* without delimiters, cut into chunks at any byte; the splitter cuts it   *)
(* into documents.                                                         *)
(*                                                                         *)
(* What the gateway sends is a sequence of the documents in Documents,     *)
(* each a sequence of bytes of these classes: brackets, the quote, the     *)
(* backslash, white space, a plain character, and the two bytes of a       *)
(* character of two bytes.  So the documents are known without looking at  *)
(* brackets, and the splitter must find exactly them.                      *)
(***************************************************************************)
EXTENDS Integers, Sequences, SequencesExt

CONSTANTS Documents,   \* the documents the gateway sends
          MaxSent,     \* bound: documents of a stream
          MaxSize      \* _max_size, in characters

Opening == {"{", "["}
Closing == {"}", "]"}
Bytes   == Opening \cup Closing \cup {"quote", "backslash", "space", "x", "lead", "follow"}

\* The grammar of JSON, as far as it tells where a document ends: after which
\* byte how many objects and arrays are open, and whether a string or an escape is.
Places  == [depth : Int, string : BOOLEAN, escape : BOOLEAN]
Between == [depth |-> 0, string |-> FALSE, escape |-> FALSE]
Nesting(byte) == IF byte \in Opening THEN 1 ELSE IF byte \in Closing THEN -1 ELSE 0
PlaceAfter(place, byte) ==
    CASE byte = "lead"                  -> place
      [] byte # "lead" /\ place.string  ->
            [place EXCEPT !.string = place.escape \/ byte # "quote",
                          !.escape = ~place.escape /\ byte = "backslash"]
      [] byte # "lead" /\ ~place.string ->
            [place EXCEPT !.string = (byte = "quote"), !.depth = @ + Nesting(byte)]
PlacesOf(d) ==
    LET places[n \in 0..Len(d)] == IF n = 0 THEN Between ELSE PlaceAfter(places[n - 1], d[n])
    IN  places

\* A document is one object or array.
WellFormed(d) ==
    /\ d \in Seq(Bytes) /\ d # <<>> /\ d[1] \in Opening
    /\ PlacesOf(d)[Len(d)] = Between
    /\ \A n \in 1..(Len(d) - 1) : PlacesOf(d)[n].depth > 0

ASSUME SplitterAssumption ==
    /\ \A d \in Documents : WellFormed(d)
    /\ MaxSent \in Nat /\ MaxSize \in Nat

VARIABLES
    sent,        \* the documents the gateway started to send
    coming,      \* bytes that have not arrived
    decoder,     \* the first byte of a character waits for its second
    parts,       \* _parts: characters of earlier chunks
    depth,       \* _depth
    inString,    \* _in_string
    escape,      \* _escape
    scanned,     \* text[start:index + 1] of the current chunk
    ready,       \* documents completed by the current chunk
    split,       \* documents that feed returned
    finished,    \* the connection has been closed
    splitFailed  \* OpusResponseError

SplitterVars == <<sent, coming, decoder, parts, depth, inString, escape, scanned, ready, split,
                  finished, splitFailed>>

SplitterTypeOK ==
    /\ sent \in Seq(Documents)
    /\ coming \in Seq(Bytes)
    /\ decoder \in BOOLEAN /\ inString \in BOOLEAN /\ escape \in BOOLEAN
    /\ depth \in Nat
    /\ Len(parts) <= MaxSize
    /\ finished \in BOOLEAN /\ splitFailed \in BOOLEAN

SplitterInit ==
    /\ sent = <<>> /\ coming = <<>>
    /\ decoder = FALSE
    /\ parts = <<>> /\ depth = 0 /\ inString = FALSE /\ escape = FALSE
    /\ scanned = <<>> /\ ready = <<>> /\ split = <<>>
    /\ finished = FALSE /\ splitFailed = FALSE

\* The incremental decoder yields a character with its last byte.
Decoded(byte) == byte # "lead"

\* The characters of a document, byte by byte: two bytes may make one character.
CharactersOf(d) ==
    LET characters[n \in 0..Len(d)] ==
            IF n = 0 THEN <<>>
            ELSE IF Decoded(d[n]) THEN Append(characters[n - 1], d[n]) ELSE characters[n - 1]
    IN  characters
Characters(d) == CharactersOf(d)[Len(d)]

\* The gateway writes the next document, perhaps after white space.
GatewaySends ==
    /\ Len(sent) < MaxSent /\ coming = <<>> /\ ~finished /\ ~splitFailed
    /\ \E d \in Documents, gap \in {<<>>, <<"space">>} :
          /\ sent' = Append(sent, d)
          /\ coming' = gap \o d
    /\ UNCHANGED <<decoder, parts, depth, inString, escape, scanned, ready, split, finished, splitFailed>>

--------------------------------------------------------------------------------
(* feed, one character of the chunk at a time                               *)

\* feed raises: what the chunk completed before goes with it.
Fails == splitFailed' = TRUE /\ ready' = <<>> /\ UNCHANGED <<parts, depth, inString, escape, scanned>>

\* A backslash that is not escaped itself escapes one character.
EscapesNext(char) == ~escape /\ char = "backslash"

InString(char) ==
    /\ escape' = EscapesNext(char)
    /\ inString' = (escape \/ char # "quote")
    /\ scanned' = Append(scanned, char)
    /\ UNCHANGED <<parts, depth, ready, splitFailed>>

Outside(char) ==
    CASE char \in Opening -> /\ depth' = 1
                             /\ scanned' = <<char>>
                             /\ UNCHANGED <<parts, inString, escape, ready, splitFailed>>
      [] char = "space"   -> UNCHANGED <<parts, depth, inString, escape, scanned, ready, splitFailed>>
      [] OTHER            -> Fails

Inside(char) ==
    /\ depth' = depth + (IF char \in Opening THEN 1 ELSE IF char \in Closing THEN -1 ELSE 0)
    /\ inString' = (char = "quote")
    /\ scanned' = Append(scanned, char)
    /\ UNCHANGED <<parts, escape, ready, splitFailed>>

\* The last bracket: the document is what was kept of it and this chunk's part.
Completes(char) ==
    LET document == parts \o Append(scanned, char) IN
    IF Len(document) > MaxSize THEN Fails
    ELSE /\ ready' = Append(ready, document)
         /\ parts' = <<>> /\ scanned' = <<>> /\ depth' = 0
         /\ UNCHANGED <<inString, escape, splitFailed>>

Scan(char) ==
    CASE depth = 0                          -> Outside(char)
      [] depth > 0 /\ inString              -> InString(char)
      [] depth = 1 /\ ~inString /\ char \in Closing -> Completes(char)
      [] OTHER                              -> Inside(char)

Feed ==
    /\ coming # <<>> /\ ~finished /\ ~splitFailed
    /\ coming' = Tail(coming)
    /\ decoder' = ~Decoded(Head(coming))
    /\ IF Decoded(Head(coming)) THEN Scan(Head(coming))
       ELSE UNCHANGED <<parts, depth, inString, escape, scanned, ready, splitFailed>>
    /\ UNCHANGED <<sent, split, finished>>

\* Variation: a document of several chunks consists of its last two parts.
KeptLast == scanned

\* The part of an unfinished document is kept.
Kept == parts \o scanned

\* Variation: an unfinished document may grow.
GrowsFreely == FALSE

\* An unfinished document is limited, too.
OutgrowsLimit == depth > 0 /\ Len(parts) + Len(scanned) > MaxSize

\* The chunk ends: feed returns.
ChunkEnds ==
    /\ ~splitFailed
    /\ (scanned # <<>> \/ ready # <<>>)
    /\ IF OutgrowsLimit
       THEN /\ splitFailed' = TRUE
            /\ ready' = <<>>
            /\ UNCHANGED <<parts, scanned, split>>
       ELSE /\ split' = split \o ready
            /\ ready' = <<>>
            /\ parts' = Kept
            /\ scanned' = <<>>
            /\ UNCHANGED splitFailed
    /\ UNCHANGED <<sent, coming, decoder, depth, inString, escape, finished>>

\* What is left of the stream: an unfinished document, or bytes.
CutOff == depth > 0 \/ decoder

\* finish: the stream ends, between two documents or within one.
StreamFinishes ==
    /\ scanned = <<>> /\ ready = <<>> /\ ~finished /\ ~splitFailed
    /\ finished' = TRUE
    /\ splitFailed' = CutOff
    /\ UNCHANGED <<sent, coming, decoder, parts, depth, inString, escape, scanned, ready, split>>

SplitterNext == GatewaySends \/ Feed \/ ChunkEnds \/ StreamFinishes

SplitterSpec == SplitterInit /\ [][SplitterNext]_SplitterVars

--------------------------------------------------------------------------------
(* Properties                                                               *)

\* However the stream is cut into chunks, within a string, after a backslash or
\* inside a character, the splitter returns the documents of the gateway, each
\* once, whole and in order, and fails only for one that is too large.  A stream
\* that ends within a document is an error, and one that ends between two
\* documents is none (feed, finish).
SplitsAsSent ==
    LET found == split \o ready
    IN  /\ Len(found) <= Len(sent)
        /\ \A i \in 1..Len(found) : found[i] = Characters(sent[i])
        /\ coming = <<>> /\ ~splitFailed => Len(found) = Len(sent)
        /\ \A i \in 1..Len(found) : Len(found[i]) <= MaxSize
        /\ splitFailed => finished \/ Len(Characters(Last(sent))) > MaxSize
        /\ finished /\ Len(sent) > 0
              => splitFailed = (Len(coming) \in 1..(Len(Last(sent)) - 1))

\* What the gateway has sent, as the reader should get it.
Given == [i \in DOMAIN sent |-> Characters(sent[i])]

\* However feed and finish scan, keep and fail, the reader gets what DocumentDelivery
\* promises: feed returns all documents that are complete, in order and for good, and
\* the error of a stream that breaks comes before any later document.
Delivery == INSTANCE DocumentDelivery WITH
    Texts    <- {Characters(d) : d \in Documents},
    given    <- Given,
    returned <- split,
    stream   <- IF splitFailed THEN "broken" ELSE IF finished THEN "ended" ELSE "open"
DeliversAsPromised == Delivery!DeliverySpec
================================================================================
