--------------------------- MODULE ThreatDetector ---------------------------
(***************************************************************************)
(* The heuristic detector of suspicious names (internal/threat/detector.go)*)
(* and in it the search for lookalikes of protected brands.                *)
(*                                                                         *)
(* A name is a registrable label and a public suffix; a label is a         *)
(* sequence of letters after punycode was decoded. The other heuristics    *)
(* measure the text of the whole name (regular expressions, entropy,       *)
(* length, depth): the ones that would fire are an input.                  *)
(***************************************************************************)
EXTENDS Naturals, Sequences, FiniteSets, SequencesExt

CONSTANTS
  Letters,        \* letters of a label
  Confusable,     \* Confusable[c]: the letter c looks like, or c itself
  MaxLabel,       \* bound: letters in a label
  Watchlists,     \* TYPOSQUAT_BRANDS: sequences of [label, tld]
  MaxDistance     \* Detector.typoMaxDistance

TLDs   == {"com", "net"}
Labels == UNION {[1 .. n -> Letters] : n \in 1 .. MaxLabel}
Others == <<"dga", "entropy", "length", "depth">>      \* in the order of Analyze

VARIABLES
  brands,      \* Detector.brands
  query,       \* the name asked for, and what is known of it
  method       \* Result.DetectionMethod of the last Analyze, "none" if clean

vars == <<brands, query, method>>

Queries == [label : Labels, tld : TLDs, infra : {FALSE}, fires : {{}}]
           \cup [label : {<<c>> : c \in Letters}, tld : TLDs, infra : BOOLEAN,
                 fires : SUBSET {Others[i] : i \in DOMAIN Others}]

Init ==
  /\ brands \in Watchlists
  /\ query \in Queries
  /\ method = "new"

-----------------------------------------------------------------------------
Min3(a, b, c) == IF a <= b /\ a <= c THEN a ELSE IF b <= c THEN b ELSE c

(* damerauLevenshtein, row by row: the two rows before row i are kept. Row i is
   filled from left to right. *)
Transposes_NoSwap(a, b, i, j) == FALSE
Transposes(a, b, i, j) == i > 1 /\ j > 1 /\ a[i] = b[j - 1] /\ a[i - 1] = b[j]

Row(a, b, i, prev2, prev) ==
  LET curr[j \in 0 .. Len(b)] ==
        IF j = 0 THEN i
        ELSE LET d == Min3(prev[j] + 1, curr[j - 1] + 1,
                           prev[j - 1] + (IF a[i] = b[j] THEN 0 ELSE 1))
             IN  IF Transposes(a, b, i, j) /\ prev2[j - 2] + 1 < d THEN prev2[j - 2] + 1 ELSE d
  IN  curr

Distance(a, b) ==
  LET first == [j \in 0 .. Len(b) |-> j]
      rows[i \in 0 .. Len(a)] ==          \* <<prev2, prev>> after row i
        IF i = 0 THEN <<first, first>>
        ELSE <<rows[i - 1][2], Row(a, b, i, rows[i - 1][1], rows[i - 1][2])>>
  IN  rows[Len(a)][2][Len(b)]

Skeleton(label) == [i \in DOMAIN label |-> Confusable[label[i]]]

(* checkTyposquat, for one brand of the list. *)
Hit(b) ==
  /\ ~(query.label = b.label /\ query.tld = b.tld)
  /\ IF Skeleton(query.label) = b.label
     THEN query.label # b.label
     ELSE Distance(Skeleton(query.label), b.label) \in 1 .. MaxDistance

IsTyposquat == ~query.infra /\ \E i \in DOMAIN brands : Hit(brands[i])

(* Analyze: the first heuristic that fires decides; the patterns of generated
   names are not looked for in the names of known infrastructure. *)
Fires(m) == m \in query.fires /\ (m = "dga" => ~query.infra)

Analyze ==
  /\ method = "new"
  /\ method' = IF IsTyposquat THEN "typosquat"
               ELSE LET hits == {i \in DOMAIN Others : Fires(Others[i])}
                    IN  IF hits = {} THEN "none"
                        ELSE Others[CHOOSE i \in hits : \A j \in hits : i <= j]
  /\ UNCHANGED <<brands, query>>

Next == Analyze

Spec == Init /\ [][Next]_vars

-----------------------------------------------------------------------------
(* The labels one edit away: a letter inserted, removed or replaced, or two
   neighbours exchanged. *)
OneEdit(s) ==
  {InsertAt(s, i, c) : i \in 1 .. Len(s) + 1, c \in Letters}
  \cup {RemoveAt(s, i) : i \in DOMAIN s}
  \cup {ReplaceAt(s, i, c) : i \in DOMAIN s, c \in Letters}
  \cup {[s EXCEPT ![i] = s[i + 1], ![i + 1] = s[i]] : i \in 1 .. Len(s) - 1}

(* t can be made from s by at most two edits, none of them inside the other: s
   is cut in two and each piece is edited once at most. *)
Near(s) == {s} \cup OneEdit(s)
WithinTwo(s, t) ==
  \E i \in 0 .. Len(s), j \in 0 .. Len(t) :
    /\ SubSeq(t, 1, j) \in Near(SubSeq(s, 1, i))
    /\ SubSeq(t, j + 1, Len(t)) \in Near(SubSeq(s, i + 1, Len(s)))

OnList == \E i \in DOMAIN brands : brands[i].label = query.label /\ brands[i].tld = query.tld
Labelled == {brands[i].label : i \in DOMAIN brands}

(* A name that reads as a brand that it is not, or as at most two edits away
   from one, is reported as its lookalike, and no other name is: the rolling
   rows compute the distance that two edits of a label define. *)
LookalikesAreFlagged ==
  LET skel == Skeleton(query.label)
  IN  method # "new" =>
        /\ ~query.infra /\ ~OnList /\ (\E b \in Labelled : query.label # b /\ WithinTwo(b, skel))
             => method = "typosquat"
        /\ method = "typosquat" => ~query.infra /\ \E b \in Labelled : WithinTwo(b, skel)
        /\ Len(brands) = 1 /\ OnList => method # "typosquat"

-----------------------------------------------------------------------------
(* What the comments promise and the code does not keep.                     *)

(* "The exact brand (and its subdomains) is never flagged": a brand of the list
   is compared with the others, and may be within two edits of one. *)
BrandIsNeverFlagged == method # "new" /\ OnList => method # "typosquat"

(* "If the raw ASCII label already equals the brand label this is just a
   different TLD (not a lookalike) - skip it": not for a brand with a digit,
   whose own skeleton is another label. *)
OtherTLDIsSkipped ==
  method # "new" /\ Len(brands) = 1 /\ query.label \in Labelled => method # "typosquat"
=============================================================================
