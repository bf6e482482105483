--------------------------- MODULE HeuristicScoring ---------------------------
(***************************************************************************)
(* The pure part of the domain heuristic: the signals patterns.py, dga.py  *)
(* and typosquatting.py see in a URL, and the score check.py makes of      *)
(* them.  A URL is what these modules look at: the label and the suffix of *)
(* its registered domain (tld.py), and the traits of the rest of it.       *)
(***************************************************************************)
EXTENDS Scoring, Integers, Sequences

CONSTANTS
  Urls,                \* the URLs that are analysed
  Labels,              \* the labels of their registered domains, as sequences
  Brands,              \* _get_brands(): label and suffix, in the order of brands.txt
  BrandLabels,         \* _brand_labels()
  SuspiciousTlds,      \* _SUSPICIOUS_TLDS of patterns.py
  SuspiciousSuffixes,  \* _SUSPICIOUS_SUFFIXES of typosquatting.py
  SignalWeight,        \* score_weight_* of each signal
  MinFuzzyLen,         \* _MIN_FUZZY_LEN
  MinDgaLen,           \* _MIN_DGA_LABEL_LEN
  Edits                \* the edit distances of the prefixes of two labels

\* "hosted": in the user space of a hosting platform; "platform": the platform
\* itself; "random": entropy or share of consonants over its threshold.
Traits ==
  {"http", "userinfo", "deep", "punycode", "hyphens", "hosted", "platform", "shortener",
   "sensitive", "random", "benign"}

\* The values of open-redirect parameters: without a host, URLs of the same
\* registered domain, of others, and values urlparse refuses.
RedirectValues == {"hostless", "own", "external", "unreadable"}

HeuristicSignals ==
  {"IP_DIRECT", "TYPO_DOMAIN", "PUNYCODE_IDN", "NEW_DOMAIN", "SUBDOMAIN_OVERUSE",
   "NO_HTTPS", "OPEN_REDIRECT_PARAM", "HYPHEN_OVERUSE", "SUSPICIOUS_TLD", "DGA_LIKE",
   "HOSTING_PLATFORM", "URL_USERINFO", "BRAND_IN_URL", "FREE_HOSTING_LURE",
   "SENSITIVE_PATH", "URL_SHORTENER"}

ASSUME UrlsAssumption ==
  /\ Labels \subseteq Seq(Nat)
  /\ \A label \in Labels : label # <<>>
  /\ Brands \in Seq([label : Labels, suffix : STRING])
  /\ Urls \subseteq [address : BOOLEAN, label : Labels, suffix : STRING,
                     traits : SUBSET Traits, redirects : SUBSET RedirectValues,
                     named : SUBSET BrandLabels]
ASSUME SignalWeightsAssumption ==
  /\ SignalWeight \in [HeuristicSignals -> Nat]
  /\ MinFuzzyLen \in Nat /\ MinDgaLen \in Nat

\* The edit distance: the least number of letters to insert, delete or replace.
ASSUME EditsAssumption ==
  \A a, b \in Labels :
    /\ Edits[a][b] \in [0..Len(a) -> [0..Len(b) -> Nat]]
    /\ \A i \in 0..Len(a) : Edits[a][b][i][0] = i
    /\ \A j \in 0..Len(b) : Edits[a][b][0][j] = j
    /\ \A i \in 1..Len(a), j \in 1..Len(b) :
         Edits[a][b][i][j] =
           Least(Least(Edits[a][b][i - 1][j] + 1, Edits[a][b][i][j - 1] + 1),
                 Edits[a][b][i - 1][j - 1] + (IF a[i] = b[j] THEN 0 ELSE 1))

Distance(a, b) == Edits[a][b][Len(a)][Len(b)]
-----------------------------------------------------------------------------
\* extract_url_parts: a host of a single label has no suffix.
Registered(u) == u.suffix # ""

IsBrand(u) == \E k \in DOMAIN Brands : Brands[k] = [label |-> u.label, suffix |-> u.suffix]

\* urlparse refuses the value of an open-redirect parameter, and check_patterns
\* raises, unless a value before it has already decided.
MayRaise(u) == ~u.address /\ "unreadable" \in u.redirects
MustRaise(u) == MayRaise(u) /\ u.redirects \subseteq {"own", "unreadable"}

\* check_patterns
PatternSignals(u) ==
  IF u.address THEN {"IP_DIRECT"}
  ELSE {s \in HeuristicSignals :
          \/ s = "NO_HTTPS" /\ "http" \in u.traits
          \/ s = "URL_USERINFO" /\ "userinfo" \in u.traits
          \/ s = "SUBDOMAIN_OVERUSE" /\ "deep" \in u.traits
          \/ s = "PUNYCODE_IDN" /\ "punycode" \in u.traits
          \/ s = "HYPHEN_OVERUSE" /\ "hyphens" \in u.traits
          \/ s = "SUSPICIOUS_TLD" /\ u.suffix \in SuspiciousTlds
          \/ s = "OPEN_REDIRECT_PARAM" /\ u.redirects \ {"own"} # {}
          \/ s = "HOSTING_PLATFORM" /\ "hosted" \in u.traits
          \/ s = "URL_SHORTENER" /\ "shortener" \in u.traits
          \/ s = "SENSITIVE_PATH" /\ "sensitive" \in u.traits /\ ~IsBrand(u)
          \/ s = "BRAND_IN_URL" /\ u.named # {} /\ ~IsBrand(u) /\ u.label \notin u.named
          \/ /\ s = "FREE_HOSTING_LURE" /\ "hosted" \in u.traits
             /\ u.named # {} \/ "sensitive" \in u.traits}

\* check_dga
DgaLike(u) ==
  /\ ~(Registered(u) /\ (IsBrand(u) \/ "benign" \in u.traits))
  /\ Len(u.label) >= MinDgaLen
  /\ "random" \in u.traits
-----------------------------------------------------------------------------
\* What typosquatting.py looks for: a brand's label under a suffix that is not
\* the brand's, or a long label at most two edits from it.
SuffixFits(u, b) == u.suffix = b.suffix \/ u.suffix \in SuspiciousSuffixes

Imitates(u, b, distance) ==
  \/ distance = 0 /\ u.suffix # b.suffix
  \/ distance \in 1..2 /\ Least(Len(u.label), Len(b.label)) >= MinFuzzyLen

Near(u, b) == SuffixFits(u, b) /\ Imitates(u, b, Distance(u.label, b.label))
-----------------------------------------------------------------------------
Worth(signals, s) == IF s \in signals THEN SignalWeight[s] ELSE 0

\* The sum of check_domain_heuristic, capped by domain_heuristic_score_cap.
HeuristicPoints(signals) ==
  Worth(signals, "IP_DIRECT") + Worth(signals, "TYPO_DOMAIN")
    + Worth(signals, "PUNYCODE_IDN") + Worth(signals, "NEW_DOMAIN")
    + Worth(signals, "SUBDOMAIN_OVERUSE") + Worth(signals, "NO_HTTPS")
    + Worth(signals, "OPEN_REDIRECT_PARAM") + Worth(signals, "HYPHEN_OVERUSE")
    + Worth(signals, "SUSPICIOUS_TLD") + Worth(signals, "DGA_LIKE")
    + Worth(signals, "HOSTING_PLATFORM") + Worth(signals, "URL_USERINFO")
    + Worth(signals, "BRAND_IN_URL") + Worth(signals, "FREE_HOSTING_LURE")
    + Worth(signals, "SENSITIVE_PATH") + Worth(signals, "URL_SHORTENER")

HeuristicScore(signals) == Least(HeuristicPoints(signals), HeuristicCap)
=============================================================================
