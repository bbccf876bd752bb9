----------------------------- MODULE TextViews -----------------------------
(***************************************************************************)
(* What the tools cut out of a text: the matches and pages of a saved page *)
(* (core/tools/webcrawl.rs), the chunks of an indexed one                  *)
(* (core/tools/docs.rs), the matches of browser_find and the bodies of     *)
(* browser_network_requests (core/tools/browser.rs).  A text is a number   *)
(* of lines, or a sequence of pieces; each operator stands beside what it  *)
(* promises, said without its loop.                                        *)
(***************************************************************************)
EXTENDS Integers, Sequences, FiniteSets, SequencesExt

CONSTANTS
    Modulus,        \* of usize: 2 to the power of its width
    SavedLines,     \* DEFAULT_SAVED_PAGE_LINES
    MaxSavedLines,  \* MAX_SAVED_PAGE_LINES
    Absent          \* an argument that is not given

ASSUME TextConstants ==
    /\ {SavedLines, MaxSavedLines} \subseteq Nat /\ Modulus \in Nat \ {0}
    /\ Absent \notin Nat

Lower(a, b) == IF a <= b THEN a ELSE b
Upper(a, b) == IF a >= b THEN a ELSE b

----------------------------------------------------------------------------
(* read_saved_page with a query: blocks of lines, <<first, last>>.         *)

(* Mutant: blocks that touch are not joined.                               *)
JoinOverlapping(blocks, b) ==
    IF blocks # <<>> /\ b[1] <= Last(blocks)[2]
    THEN [blocks EXCEPT ![Len(blocks)] = <<@[1], b[2]>>]
    ELSE Append(blocks, b)

(* A block that touches the one before joins it.                           *)
Join(blocks, b) ==
    IF blocks # <<>> /\ b[1] <= Last(blocks)[2] + 1
    THEN [blocks EXCEPT ![Len(blocks)] = <<@[1], b[2]>>]
    ELSE Append(blocks, b)

(* grep_with_context over n lines, of which those in hits match.           *)
GrepBlocks(n, hits, context) ==
    FoldLeft(LAMBDA blocks, i :
                 IF i \notin hits THEN blocks
                 ELSE Join(blocks, <<Upper(i - context, 1), Lower(i + context, n)>>),
             <<>>, [i \in 1 .. n |-> i])

LinesOf(blocks) == UNION {blocks[i][1] .. blocks[i][2] : i \in DOMAIN blocks}

(* Every line near a match, none twice, and a break exactly where lines    *)
(* are left out.                                                           *)
GrepPromise(n, hits, context, blocks) ==
    /\ LinesOf(blocks) = {l \in 1 .. n : \E h \in hits : l - h \in -context .. context}
    /\ \A i \in DOMAIN blocks : blocks[i][1] <= blocks[i][2]
    /\ \A i \in 1 .. Len(blocks) - 1 : blocks[i][2] + 1 < blocks[i + 1][1]

----------------------------------------------------------------------------
(* read_saved_page without one.                                            *)

GivenOr(arg, default) == IF arg = Absent THEN default ELSE arg

(* The lines after the first and up to the last number, or a panic: the    *)
(* sum of offset and limit wraps, and the slice then ends before it        *)
(* begins (a checked build panics at the sum).                             *)
Paginate(n, offset, limit) ==
    LET skip  == Upper(GivenOr(offset, 1), 1) - 1
        size  == Lower(GivenOr(limit, SavedLines), MaxSavedLines)
        first == Lower(skip, n)
        last  == Lower((skip + size) % Modulus, n)
    IN  [first |-> first, last |-> last, truncated |-> last < n, panic |-> last < first]

(* The lines asked for, a truncated flag that is right, and no panic       *)
(* unless the sum left the type.                                           *)
PagePromise(n, offset, limit, page) ==
    LET skip == Upper(GivenOr(offset, 1), 1) - 1
        size == Lower(GivenOr(limit, SavedLines), MaxSavedLines)
    IN  skip + size < Modulus =>
        /\ ~page.panic
        /\ (page.first + 1) .. page.last = {l \in 1 .. n : l > skip /\ l <= skip + size}
        /\ page.truncated <=> \E l \in 1 .. n : l > skip + size

----------------------------------------------------------------------------
(* chunk_markdown.  A piece of the splitter has a number of ``` markers    *)
(* and the last of its headings, if any.                                   *)

(* A fence is open after a piece.                                          *)
Fence(open, piece) == (piece.fences % 2 = 1) # open

(* The pieces <<first, last>> of each chunk, and its heading.              *)
ChunkStep(acc, piece) ==
    LET at      == acc.at + 1
        open    == Fence(acc.open, piece)
        heading == IF piece.heading = Absent THEN acc.heading ELSE piece.heading
    IN  [at |-> at, open |-> open, heading |-> heading,
         pending |-> IF open THEN acc.pending ELSE at + 1,
         chunks |-> IF open THEN acc.chunks
                    ELSE Append(acc.chunks, [from |-> acc.pending, to |-> at,
                                             heading |-> heading])]

(* The headings before the end of a pending chunk are read only when it is *)
(* cut, which comes to the same.                                           *)
Chunk(pieces) ==
    LET end == FoldLeft(ChunkStep,
                   [at |-> 0, open |-> FALSE, heading |-> Absent, pending |-> 1,
                    chunks |-> <<>>], pieces)
    IN  IF end.pending > Len(pieces) THEN end.chunks
        ELSE Append(end.chunks, [from |-> end.pending, to |-> Len(pieces),
                                 heading |-> end.heading])

FencesIn(pieces, a, b) ==
    FoldLeft(LAMBDA sum, p : sum + p.fences, 0, SubSeq(pieces, a, b))

(* The chunks hold the whole text in order; a chunk ends at the first      *)
(* place where no fence is open; it carries the last heading up to there.  *)
ChunkPromise(pieces, chunks) ==
    /\ pieces = <<>> <=> chunks = <<>>
    /\ \A i \in DOMAIN chunks :
        LET c == chunks[i] IN
        /\ c.from = IF i = 1 THEN 1 ELSE chunks[i - 1].to + 1
        /\ c.to = Len(pieces) <=> i = Len(chunks)
        /\ \A e \in c.from .. c.to :
               FencesIn(pieces, c.from, e) % 2 = 0 => e = c.to
        /\ c.to < Len(pieces) => FencesIn(pieces, c.from, c.to) % 2 = 0
        /\ LET marked == {p \in 1 .. c.to : pieces[p].heading # Absent} IN
           c.heading = IF marked = {} THEN Absent
                       ELSE pieces[CHOOSE p \in marked : \A q \in marked : q <= p].heading

----------------------------------------------------------------------------
(* Caps.                                                                   *)

(* collect_find_matches over n nodes in document order, of which those in  *)
(* hits match: the first ones, and whether there are more.                 *)
FindStep(acc, i, cap) ==
    IF Len(acc.matches) >= cap THEN [matches |-> acc.matches, truncated |-> TRUE]
    ELSE [matches |-> Append(acc.matches, i), truncated |-> acc.truncated]

FindMatches(n, hits, cap) ==
    FoldLeft(LAMBDA acc, i : IF i \notin hits THEN acc ELSE FindStep(acc, i, cap),
             [matches |-> <<>>, truncated |-> FALSE], [i \in 1 .. n |-> i])

(* In order and none twice; a match is left out only behind a full list,   *)
(* and exactly then the answer says so.                                    *)
FindPromise(hits, cap, found) ==
    LET list == found.matches
        rest == {h \in hits : \A i \in DOMAIN list : list[i] # h}
    IN  /\ \A i \in DOMAIN list : list[i] \in hits
        /\ \A i, j \in DOMAIN list : i < j => list[i] < list[j]
        /\ Len(list) <= cap
        /\ \A h \in rest : Len(list) = cap /\ \A i \in DOMAIN list : list[i] < h
        /\ found.truncated <=> rest # {}

(* The bodies that fit what those before them have left.                   *)
BodiesWithin(sizes, budget) ==
    FoldLeft(LAMBDA acc, size :
                 IF size <= acc.left
                 THEN [left |-> acc.left - size, kept |-> Append(acc.kept, TRUE)]
                 ELSE [left |-> acc.left, kept |-> Append(acc.kept, FALSE)],
             [left |-> budget, kept |-> <<>>], sizes).kept

(* The bytes of the first n bodies that are returned.                      *)
BytesKept(sizes, kept, n) ==
    FoldLeft(LAMBDA sum, i : sum + IF kept[i] THEN sizes[i] ELSE 0, 0, [i \in 1 .. n |-> i])

(* They are within the budget, and a body is left out only if it does not  *)
(* fit beside those before it.                                             *)
BodiesPromise(sizes, budget, kept) ==
    /\ Len(kept) = Len(sizes) /\ BytesKept(sizes, kept, Len(sizes)) <= budget
    /\ \A i \in DOMAIN sizes :
          kept[i] <=> BytesKept(sizes, kept, i - 1) + sizes[i] <= budget
=============================================================================
