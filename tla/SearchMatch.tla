---------------------------- MODULE SearchMatch ----------------------------
(* Matching a search of the network against the files we share: the word      *)
(* index a scan builds (shares/mod.rs) and the matcher that intersects it     *)
(* (search_response.rs).  Pure operators, and what they ought to compute.     *)
(*                                                                            *)
(* A file is a number, and its virtual path sorts as the number does.  A scan *)
(* is the sequence of the files it found: a file's id is its position, and    *)
(* folders are walked in an order that need not be the order of the paths.    *)
EXTENDS Naturals, Sequences, FiniteSets, SequencesExt

CONSTANTS
    Files,         \* files that may be shared, numbered in path order
    WordsOf,       \* the words of each file's virtual path
    EndsWith,      \* for each partial word, the words that end with it
    PathsWith      \* for each phrase, the files whose path contains it

ASSUME MatchAssumption ==
    /\ Files \subseteq Nat
    /\ DOMAIN WordsOf = Files
    /\ \A phrase \in DOMAIN PathsWith : PathsWith[phrase] \subseteq Files

Vocabulary(scan) == UNION {WordsOf[scan[id]] : id \in DOMAIN scan}

(* What a scan finds: every file once, since no folder is entered twice.      *)
IsScan(scan) ==
    /\ scan \in Seq(Files)
    /\ \A i, j \in DOMAIN scan : scan[i] = scan[j] => i = j

(* The numbers of a set in their order, and the first of a sequence.          *)
InOrder(S) ==
    LET nth(n) == CHOOSE f \in S : Cardinality({g \in S : g <= f}) = n
    IN  [n \in 1 .. Cardinality(S) |-> nth(n)]

FirstOf(list, max) == {list[n] : n \in {i \in DOMAIN list : i <= max}}

(* The ids under one word, in the order add_file pushed them.                 *)
IdsOf(scan, word) == InOrder({id \in DOMAIN scan : word \in WordsOf[scan[id]]})

-----------------------------------------------------------------------------
(* A query is [included, excluded, partial]: plain words in the order typed,  *)
(* the words after a minus and the word ends after a star.                    *)
IsQuery(terms) ==
    /\ terms = [included |-> terms.included, excluded |-> terms.excluded,
                partial |-> terms.partial]
    /\ terms.included \in Seq(ToSet(terms.included))

(* Faulty: any query of one plain word is cut short, also one that excludes.  *)
SingleIncluded(terms) == Len(terms.included) = 1

(* The only query that may be cut short before it is intersected.             *)
SingleWord(terms) ==
    Len(terms.included) = 1 /\ terms.partial = {} /\ terms.excluded = {}

(* Where the intersection starts: the ids under the first included word.      *)
StartIds(terms, max, scan) ==
    LET ids == IdsOf(scan, Head(terms.included)) IN
      IF SingleWord(terms) THEN FirstOf(ids, max) ELSE ToSet(ids)

(* create_search_result_list: the ids left by every word, and none when no    *)
(* whole word is asked for.                                                   *)
ResultList(terms, max, scan) ==
    IF terms.included = <<>> THEN {}
    ELSE {id \in StartIds(terms, max, scan) :
            /\ \A word \in ToSet(terms.included) : id \in ToSet(IdsOf(scan, word))
            /\ \A end \in terms.partial :
                  \E word \in Vocabulary(scan) \cap EndsWith[end] :
                     id \in ToSet(IdsOf(scan, word))
            /\ \A word \in terms.excluded : id \notin ToSet(IdsOf(scan, word))}

(* create_file_info_list: the smallest paths up to the cap, in path order,    *)
(* and of these the ones no excluded phrase occurs in.                        *)
FileInfoList(ids, max, phrases, scan) ==
    LET kept == FirstOf(InOrder({scan[id] : id \in ids}), max)
    IN  InOrder({f \in kept : \A p \in phrases : f \notin PathsWith[p]})

(* respond *)
Respond(terms, max, phrases, scan) ==
    FileInfoList(ResultList(terms, max, scan), max, phrases, scan)

-----------------------------------------------------------------------------
(* What an answer ought to be, said of the paths themselves.                  *)

Matches(terms, f) ==
    /\ terms.included # <<>>
    /\ ToSet(terms.included) \subseteq WordsOf[f]
    /\ terms.excluded \cap WordsOf[f] = {}
    /\ \A end \in terms.partial : WordsOf[f] \cap EndsWith[end] # {}

Allowed(phrases, f) == \A p \in phrases : f \notin PathsWith[p]

(* Every file of an answer matches and is allowed, no file is named twice or  *)
(* out of order, the cap holds, and nothing that matches is missing unless    *)
(* the cap left it out: of a query of several words the cap keeps the         *)
(* smallest paths.                                                            *)
IsAnswer(files, terms, max, phrases, scan) ==
    LET matching == {f \in ToSet(scan) : Matches(terms, f)}
        smallest == {f \in matching :
                       Cardinality({g \in matching : g < f}) < max}
    IN  /\ \A i, j \in DOMAIN files : i < j => files[i] < files[j]
        /\ Len(files) <= max
        /\ ToSet(files) \subseteq {f \in matching : Allowed(phrases, f)}
        /\ \/ ToSet(files) = {f \in smallest : Allowed(phrases, f)}
           \/ /\ Cardinality(matching) > max
              /\ terms = [included |-> <<Head(terms.included)>>,
                          excluded |-> {}, partial |-> {}]
=============================================================================
