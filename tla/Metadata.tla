------------------------------ MODULE Metadata ------------------------------
(***************************************************************************)
(* What chronicle_helpers.cpp makes of the metadata of a document, and     *)
(* what batch-anchor takes of an envelope.  A text is a sequence of        *)
(* characters, of which these matter: "blank", "slash", "underscore",      *)
(* "semicolon" and upper case; the rest stand for themselves.  JSON and    *)
(* SHA-256 lose nothing, so canonical metadata is the record of its        *)
(* fields, and two hashes are equal when these are.                        *)
(***************************************************************************)
EXTENDS Naturals, Sequences

CONSTANTS
  Chars,
  Lower,        \* toLower, of a character
  Alias,        \* mimeAliases
  OctetStream,  \* "application/octet-stream"
  MaxTitle, MaxDesc, MaxTag, MaxTags, MaxType,  \* kMaxTitleLen and so on
  MaxEnvelope   \* kMaxEnvelopeBytes

Text == Seq(Chars)

ASSUME MetadataAssumption ==
  /\ {"blank", "slash", "underscore", "semicolon"} \subseteq Chars
  /\ Lower \in [Chars -> Chars]
  /\ \A c \in Chars : Lower[c] = "blank" <=> c = "blank"
  /\ \A c \in Chars : Lower[Lower[c]] = Lower[c]
  /\ MaxTitle \in Nat \ {0} /\ MaxDesc \in Nat \ {0} /\ MaxTag \in Nat \ {0}
  /\ MaxTags \in Nat /\ MaxType \in Nat \ {0} /\ MaxEnvelope \in Nat

-----------------------------------------------------------------------------
Ink(s) == {i \in DOMAIN s : s[i] # "blank"}
First(I) == CHOOSE i \in I : \A j \in I : i <= j
Last(I) == CHOOSE i \in I : \A j \in I : j <= i

(* QString::trimmed, and left. *)
Trimmed(s) == IF Ink(s) = {} THEN <<>> ELSE SubSeq(s, First(Ink(s)), Last(Ink(s)))
Left(s, n) == SubSeq(s, 1, IF Len(s) <= n THEN Len(s) ELSE n)

(* cleanDescription and cleanTag; the cut may leave a blank at the end. *)
Cleaned(s, n) == Left(Trimmed(s), n)

Underscored(s) == [i \in DOMAIN s |-> IF s[i] = "slash" THEN "underscore" ELSE s[i]]

CleanTitle(s) == Left(Underscored(Trimmed(s)), MaxTitle)

(* A list of kMaxTags stays as it is. *)
WithTag(out, t) ==
  IF Len(out) >= MaxTags \/ Cleaned(t, MaxTag) = <<>> THEN out
                                                     ELSE Append(out, Cleaned(t, MaxTag))

CleanTags(tags) ==
  LET out[i \in 0 .. Len(tags)] == IF i = 0 THEN <<>> ELSE WithTag(out[i - 1], tags[i])
  IN  out[Len(tags)]

At(s, c) == {i \in DOMAIN s : s[i] = c}
Bare(s) == IF At(s, "semicolon") = {} THEN s
           ELSE Trimmed(SubSeq(s, 1, First(At(s, "semicolon")) - 1))

(* A slash, the first one, stands neither first nor last. *)
IsType(s) == At(s, "slash") # {} /\ First(At(s, "slash")) \in 2 .. Len(s) - 1

Lowered(s) == [i \in DOMAIN s |-> Lower[s[i]]]

CoerceContentType(s) ==
  LET cut == Left(Bare(Lowered(Trimmed(s))), MaxType)
  IN  IF cut \in DOMAIN Alias THEN Alias[cut] ELSE IF IsType(cut) THEN cut ELSE OctetStream

NoBlankEnds(s) == s # <<>> => s[1] # "blank" /\ s[Len(s)] # "blank"

(* A type of which coerceContentType has nothing to change. *)
IsCoerced(s) ==
  /\ s \in Text /\ NoBlankEnds(s) /\ Len(s) <= MaxType
  /\ \A i \in DOMAIN s : s[i] # "semicolon" /\ Lower[s[i]] = s[i]
  /\ IsType(s) /\ s \notin DOMAIN Alias

(* The entries of mimeAliases, and the type of what has none, are in order. *)
ASSUME AliasAssumption ==
  /\ IsCoerced(OctetStream)
  /\ \A s \in DOMAIN Alias : IsCoerced(Alias[s])

-----------------------------------------------------------------------------
(* canonicalMetadata, which buildEnvelope's fields agree with. *)
Canonical(d) ==
  [content_type |-> CoerceContentType(d.content_type), size_bytes |-> d.size_bytes,
   title |-> CleanTitle(d.title), description |-> Cleaned(d.description, MaxDesc),
   tags |-> CleanTags(d.tags)]

MetadataHash(d) == <<"v1", Canonical(d)>>

BuildEnvelope(d, timestamp, hash) ==
  [meta |-> Canonical(d), timestamp |-> timestamp, metadata_hash |-> hash]

(* What an envelope with no room for more holds; its text is a byte a character. *)
Weight(d) ==
  LET tagsTo[i \in 0 .. Len(d.tags)] == IF i = 0 THEN 0 ELSE tagsTo[i - 1] + Len(d.tags[i])
  IN  Len(d.title) + Len(d.description) + Len(d.content_type) + tagsTo[Len(d.tags)]

FitsInCap(e) == Weight(e.meta) <= MaxEnvelope

(* Envelope::from_payload of batch-anchor, for an envelope with v = 1 and a CID. *)
FromPayload(e) == e.timestamp # 0 /\ e.metadata_hash[1] = "v1"

(* What a subscriber does: hashMetadataJson of the fields of the envelope. *)
Verifies(e) == MetadataHash(e.meta) = e.metadata_hash

(* Nothing of it is longer than chronicle keeps. *)
Uncut(d) ==
  /\ Len(Trimmed(d.title)) <= MaxTitle
  /\ Len(Trimmed(d.description)) <= MaxDesc
  /\ Len(Trimmed(d.content_type)) <= MaxType
  /\ \A i \in DOMAIN d.tags : Len(Trimmed(d.tags[i])) <= MaxTag
=============================================================================
