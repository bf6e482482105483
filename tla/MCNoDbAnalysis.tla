---------------------------- MODULE MCNoDbAnalysis ----------------------------
(* Instance of NoDbAnalysis for TLC: the default weights, times small enough   *)
(* to enumerate and tight enough for the total budget to cut every stage, and  *)
(* labels and brands on each side of every condition of typosquatting.py.      *)
EXTENDS NoDbAnalysis

MCHeuristicScores == 0..HeuristicCap

MCContentResults ==
  {[score |-> 0, unavailable |-> FALSE], [score |-> 45, unavailable |-> FALSE],
   [score |-> 0, unavailable |-> TRUE]}

MCSignalWeight == [s \in HeuristicSignals |->
  CASE s = "IP_DIRECT" -> 40 [] s = "TYPO_DOMAIN" -> 30 [] s = "PUNYCODE_IDN" -> 35
    [] s \in {"NEW_DOMAIN", "SUSPICIOUS_TLD", "URL_SHORTENER", "FREE_HOSTING_LURE"} -> 25
    [] s \in {"OPEN_REDIRECT_PARAM", "DGA_LIKE"} -> 31
    [] s = "URL_USERINFO" -> 45 [] s = "BRAND_IN_URL" -> 30
    [] OTHER -> 20]

first == <<1, 2, 3, 1, 2>>    \* a brand
second == <<1, 2, 3, 1, 3>>   \* another one, one letter from the first
short == <<1, 2, 3>>          \* too short for fuzzy matches

MCBrands == <<[label |-> first, suffix |-> "com"], [label |-> second, suffix |-> "com"],
              [label |-> short, suffix |-> "net"]>>
MCBrandLabels == {first, short}

Plain(label, suffix) ==
  [address |-> FALSE, label |-> label, suffix |-> suffix, traits |-> {}, redirects |-> {},
   named |-> {}]
With(u, traits, redirects) == [u EXCEPT !.traits = traits, !.redirects = redirects]
Naming(u, named) == [u EXCEPT !.named = named]

MCUrls ==
  {Plain(second, "com"),                                \* near the first brand as well
   Plain(<<1, 2, 3, 1>>, "com"),                        \* near, but short
   Plain(<<3, 1, 2, 3, 1, 2>>, "com"),                  \* a letter inserted
   Plain(<<2, 2, 3, 3, 2>>, "com"),                     \* two letters replaced
   Naming(Plain(<<1, 2, 3, 4, 4, 1, 2>>, "com"), {short}),   \* two letters inserted
   With(Plain(<<1, 2, 3, 1, 2, 4, 5, 6>>, "com"), {"random", "http"}, {"external"}),
   Naming(Plain(first, "xyz"), {first}),                \* a suspicious suffix
   Naming(Plain(first, "org"), {first}),                \* just another one
   Plain(<<2, 3>>, "net"),
   With(Naming(Plain(first, "com"), {first}), {"http", "sensitive"}, {"own", "unreadable"}),
   With(Plain(<<3, 3, 3>>, "io"), {"hosted", "sensitive", "punycode", "deep"}, {}),
   With(Naming(Plain(first, "xyz"), {first}), {"hosted", "platform"}, {"unreadable"}),
   With(Naming(Plain(second, "xyz"), {short}), {"hosted", "userinfo"},
        {"unreadable", "hostless"}),
   With(Plain(<<4, 4, 4>>, "work"), {"shortener", "hyphens"}, {"own"}),
   Plain(<<3, 3, 3>>, ""),
   With(Plain(<<3, 3, 3>>, "com"), {}, {"external"}),
   [Plain(<<9>>, "") EXCEPT !.address = TRUE]}

MCLabels == {u.label : u \in MCUrls} \cup {first, short}

\* The distances by their recurrence.
EditTable(a, b) ==
  LET d[i \in 0..Len(a), j \in 0..Len(b)] ==
        IF i = 0 THEN j
        ELSE IF j = 0 THEN i
        ELSE Least(Least(d[i - 1, j] + 1, d[i, j - 1] + 1),
                   d[i - 1, j - 1] + (IF a[i] = b[j] THEN 0 ELSE 1))
  IN  [i \in 0..Len(a) |-> [j \in 0..Len(b) |-> d[i, j]]]
MCEdits == [a \in MCLabels |-> [b \in MCLabels |-> EditTable(a, b)]]
=============================================================================
