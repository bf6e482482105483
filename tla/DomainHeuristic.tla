---------------------------- MODULE DomainHeuristic ----------------------------
(***************************************************************************)
(* check_domain_heuristic up to its RDAP lookup, with the loop of          *)
(* check_typosquatting over the brands and the one-row table of            *)
(* _levenshtein, cell by cell.  It runs without awaits.                    *)
(***************************************************************************)
EXTENDS HeuristicScoring

VARIABLES
  url,       \* the URL under examination
  check,     \* where check_domain_heuristic is
  signals,   \* the signals found
  brand,     \* the brand the loop is at
  isTypo,    \* is_typo of check_typosquatting
  row, col,  \* i and j of _levenshtein, the cell computed last
  dp, prev   \* its table, and the value to the upper left

table == <<row, col, dp, prev>>
checkVars == <<url, check, signals, brand, isTypo, table>>
-----------------------------------------------------------------------------
CheckInit ==
  /\ url \in Urls
  /\ check = "off"
  /\ signals = {}
  /\ brand = 1
  /\ isTypo = FALSE
  /\ row = 0 /\ col = 0 /\ prev = 0
  /\ dp = <<>>

\* The patterns: an address gets no other checks, and an exception costs the
\* signals of the patterns alone.
CheckPatterns ==
  /\ check = "patterns"
  /\ \/ /\ ~MustRaise(url)
        /\ signals' = PatternSignals(url)
        /\ check' = IF url.address THEN "address" ELSE "dga"
     \/ /\ MayRaise(url)
        /\ check' = "dga"
        /\ UNCHANGED signals
  /\ UNCHANGED <<url, brand, isTypo, table>>

CheckDga ==
  /\ check = "dga"
  /\ signals' = IF DgaLike(url) THEN signals \cup {"DGA_LIKE"} ELSE signals
  /\ check' = "typo"
  /\ UNCHANGED <<url, brand, isTypo, table>>

Brand == Brands[brand]
IsExact(b) == url.label = b.label /\ url.suffix = b.suffix

\* Neither the users of a hosting platform, nor the platform itself, nor a host
\* without a registered domain is compared with the brands.
TypoIsSkipped == "HOSTING_PLATFORM" \in signals \/ ~Registered(url) \/ "platform" \in url.traits

SkipTypo ==
  /\ check = "typo" /\ TypoIsSkipped
  /\ check' = "rdap"
  /\ UNCHANGED <<url, signals, brand, isTypo, table>>

\* Mutant of ExactBrand: the loop goes on, with what it has found so far.
ExactBrandPasses ==
  /\ check = "typo" /\ ~TypoIsSkipped
  /\ brand <= Len(Brands) /\ IsExact(Brand)
  /\ brand' = brand + 1
  /\ UNCHANGED <<url, check, signals, isTypo, table>>

\* The brand itself: whatever was found, this is no imitation.
ExactBrand ==
  /\ check = "typo" /\ ~TypoIsSkipped
  /\ brand <= Len(Brands) /\ IsExact(Brand)
  /\ check' = "rdap"
  /\ UNCHANGED <<url, signals, brand, isTypo, table>>

\* Two labels whose lengths differ by more than two are not compared.
TooLong(a, b) == Len(a) - Len(b) \notin -2..2

SkipBrand ==
  /\ check = "typo" /\ ~TypoIsSkipped
  /\ brand <= Len(Brands) /\ ~IsExact(Brand)
  /\ ~SuffixFits(url, Brand) \/ TooLong(url.label, Brand.label)
  /\ brand' = brand + 1
  /\ UNCHANGED <<url, check, signals, isTypo, table>>

\* _levenshtein: row 0 of the table.
CompareBrand ==
  /\ check = "typo" /\ ~TypoIsSkipped
  /\ brand <= Len(Brands) /\ ~IsExact(Brand)
  /\ SuffixFits(url, Brand) /\ ~TooLong(url.label, Brand.label)
  /\ check' = "distance"
  /\ dp' = [j \in 0..Len(Brand.label) |-> j]
  /\ row' = 0 /\ col' = Len(Brand.label)
  /\ prev' = 0
  /\ UNCHANGED <<url, signals, brand, isTypo>>

NextRow ==
  /\ check = "distance"
  /\ col = Len(Brand.label) /\ row < Len(url.label)
  /\ row' = row + 1 /\ col' = 0
  /\ prev' = dp[0]
  /\ dp' = [dp EXCEPT ![0] = row + 1]
  /\ UNCHANGED <<url, check, signals, brand, isTypo>>

\* The new value of dp[j]: equal letters cost nothing.
Cell(j) ==
  IF url.label[row] = Brand.label[j] THEN prev
  ELSE 1 + Least(prev, Least(dp[j], dp[j - 1]))

NextCell ==
  /\ check = "distance"
  /\ col < Len(Brand.label)
  /\ col' = col + 1
  /\ prev' = dp[col + 1]
  /\ dp' = [dp EXCEPT ![col + 1] = Cell(col + 1)]
  /\ UNCHANGED <<url, check, signals, brand, isTypo, row>>

\* The table is complete: its last value is the distance.
JudgeBrand ==
  /\ check = "distance"
  /\ row = Len(url.label) /\ col = Len(Brand.label)
  /\ isTypo' = (isTypo \/ Imitates(url, Brand, dp[col]))
  /\ brand' = brand + 1
  /\ check' = "typo"
  /\ UNCHANGED <<url, signals, table>>

BrandsEnd ==
  /\ check = "typo" /\ ~TypoIsSkipped
  /\ brand > Len(Brands)
  /\ signals' = IF isTypo THEN signals \cup {"TYPO_DOMAIN"} ELSE signals
  /\ check' = "rdap"
  /\ UNCHANGED <<url, brand, isTypo, table>>

CheckStep ==
  \/ CheckPatterns \/ CheckDga \/ SkipTypo \/ ExactBrand \/ SkipBrand
  \/ CompareBrand \/ NextRow \/ NextCell \/ JudgeBrand \/ BrandsEnd
-----------------------------------------------------------------------------
\* Where the check is once the brands have been looked at.
Examined == {"rdap", "returned", "timedOut"}

\* check_typosquatting says TYPO_DOMAIN of exactly the URLs that imitate some
\* brand and are no brand themselves, whatever the order of brands.txt, although
\* it leaves labels of other lengths out and computes the distance in one row
\* (typosquatting.py:97-128).
TypoIsExact ==
  check \in Examined /\ ~url.address =>
    ("TYPO_DOMAIN" \in signals <=>
       ~TypoIsSkipped /\ ~IsBrand(url) /\ \E k \in DOMAIN Brands : Near(url, Brands[k]))
=============================================================================
