--------------------------- MODULE ContentScoring ---------------------------
(***************************************************************************)
(* The pure part of the content analysis: what extract.py finds in a page, *)
(* how signals.py scores it, how analyze.py merges the static page with    *)
(* the rendered one, and what a failed fetch of fetch.py costs.            *)
(***************************************************************************)
EXTENDS Integers, Sequences, FiniteSets

CONSTANTS
  Weight,             \* score_weight_* of each scored signal
  ContentCap,         \* content_analysis_score_cap
  FetchFailedScore,   \* score_weight_content_fetch_failed
  PhishingWeight, SuspiciousWeight,
  PrecisionMinScore, DangerThreshold,
  MaxNodes,           \* _MAX_NODES_PER_TAG
  LinkTenths          \* content_external_link_ratio_threshold, in tenths

\* The signals that features of static and rendered page can only add to, and
\* those whose features the rendered page may replace.
Evidence ==
  {"CREDENTIAL_FORM_EXTERNAL", "PII_COLLECTION_FORM", "SENSITIVE_ID_FIELD",
   "FINANCIAL_FIELD", "RISKY_DOWNLOAD_LINK", "KOREAN_LURE_TEXT", "PUBLIC_AGENCY_LURE",
   "META_REFRESH", "EXTERNAL_META_REFRESH"}
Impressions ==
  {"BRAND_IMPERSONATION_FORM", "LOGO_ALT_IMPERSONATION", "EXTERNAL_LINK_OVERUSE"}

ASSUME WeightsAssumption ==
  /\ Weight \in [Evidence \cup Impressions -> Nat]
  /\ {ContentCap, FetchFailedScore, PhishingWeight, SuspiciousWeight} \subseteq Nat
  /\ FetchFailedScore <= ContentCap
ASSUME LimitsAssumption ==
  {PrecisionMinScore, DangerThreshold, MaxNodes, LinkTenths} \subseteq Nat
-----------------------------------------------------------------------------
\* A page, as far as extraction looks: the brands its title names (none, the one
\* of its own domain among them, only others), its forms in document order with
\* the target of their action, its inputs outside forms, what its controls ask for,
\* the targets of its refreshing metas, its links in document order, the brands in its alts, a
\* mount point of a framework, and the keywords in its texts.
FieldTypes ==
  {"resident_registration_number", "phone", "card", "cvc", "account", "otp"}
Brands == {"own", "foreign"}

\* _has_password_form_external_action: the first password form with an action
\* decides.
PostsPassword(form) == form.password /\ form.action # "none"
PostsAbroad(page) ==
  LET posting == SelectSeq(page.forms, PostsPassword)
  IN  posting # <<>> /\ posting[1].action = "external"

\* find_all(..., limit): the links that are looked at.
Seen(page) == {i \in DOMAIN page.links : i <= MaxNodes}
Navigating(page) == {i \in Seen(page) : page.links[i].to \in {"own", "external"}}

\* _compute_external_link_ratio against its threshold.
LinkUse(page) ==
  LET total == Cardinality(Navigating(page))
      external == Cardinality({i \in Navigating(page) : page.links[i].to = "external"})
  IN  IF total = 0 THEN "none"
      ELSE IF 10 * external >= LinkTenths * total THEN "high" ELSE "low"

Marks == {"password", "externalAction", "refresh", "externalRefresh", "download", "lure",
          "agency"}

\* Whether the page has each mark.
Has(page, mark) ==
  \/ mark = "password" /\ \/ "password" \in page.inputs
                          \/ \E i \in DOMAIN page.forms : page.forms[i].password
  \/ mark = "externalAction" /\ PostsAbroad(page)
  \/ mark = "refresh" /\ page.refreshes # {}
  \/ mark = "externalRefresh" /\ "external" \in page.refreshes
  \/ mark = "download" /\ \E i \in Navigating(page) : page.links[i].file
  \/ mark \in {"lure", "agency"} /\ mark \in page.words

\* extract_features; a shell is a mount point on a page without form and input.
Extract(page) ==
  [marks |-> {mark \in Marks : Has(page, mark)},
   title |-> page.title, fields |-> page.fields, alts |-> page.alts,
   links |-> LinkUse(page),
   shell |-> page.mount /\ page.forms = <<>> /\ page.inputs = {}]

Features ==
  [marks : SUBSET Marks, title : {"untitled", "plain", "own", "foreign"},
   fields : SUBSET FieldTypes, alts : SUBSET Brands, links : {"none", "low", "high"},
   shell : BOOLEAN]
-----------------------------------------------------------------------------
SensitiveIdTypes == {"resident_registration_number", "otp"}
PiiFieldTypes == {"resident_registration_number", "phone", "otp"}
FinancialFieldTypes == {"card", "cvc", "account"}

\* The signals score_content gives for the features f.
SignalsOf(f) ==
  {s \in Evidence \cup Impressions \cup {"SPA_SHELL"} :
     \/ s = "SPA_SHELL" /\ f.shell
     \/ s = "BRAND_IMPERSONATION_FORM" /\ "password" \in f.marks /\ f.title = "foreign"
     \/ s = "CREDENTIAL_FORM_EXTERNAL" /\ "externalAction" \in f.marks
     \/ s = "KOREAN_LURE_TEXT" /\ "lure" \in f.marks
     \/ s = "PUBLIC_AGENCY_LURE" /\ "agency" \in f.marks
     \/ s = "PII_COLLECTION_FORM" /\ f.fields \cap PiiFieldTypes # {}
     \/ s = "SENSITIVE_ID_FIELD" /\ f.fields \cap SensitiveIdTypes # {}
     \/ s = "FINANCIAL_FIELD" /\ f.fields \cap FinancialFieldTypes # {}
     \/ s = "RISKY_DOWNLOAD_LINK" /\ "download" \in f.marks
     \/ s = "LOGO_ALT_IMPERSONATION" /\ f.alts = {"foreign"}
     \/ s = "META_REFRESH" /\ "refresh" \in f.marks
     \/ s = "EXTERNAL_META_REFRESH" /\ {"refresh", "externalRefresh"} \subseteq f.marks
     \/ s = "EXTERNAL_LINK_OVERUSE" /\ f.links = "high"}

\* Of the signals a page shows, those that count: lures only beside something to
\* fill in or to download.
Counted(signals) ==
  {s \in signals \cap (Evidence \cup Impressions) :
     /\ s = "KOREAN_LURE_TEXT" =>
          signals \cap {"PII_COLLECTION_FORM", "FINANCIAL_FIELD", "RISKY_DOWNLOAD_LINK"} # {}
     /\ s = "PUBLIC_AGENCY_LURE" => "PII_COLLECTION_FORM" \in signals}

Points(counted, s) == IF s \in counted THEN Weight[s] ELSE 0

EvidencePoints(counted) ==
  Points(counted, "CREDENTIAL_FORM_EXTERNAL") + Points(counted, "PII_COLLECTION_FORM")
    + Points(counted, "SENSITIVE_ID_FIELD") + Points(counted, "FINANCIAL_FIELD")
    + Points(counted, "RISKY_DOWNLOAD_LINK") + Points(counted, "KOREAN_LURE_TEXT")
    + Points(counted, "PUBLIC_AGENCY_LURE") + Points(counted, "META_REFRESH")
    + Points(counted, "EXTERNAL_META_REFRESH")

ImpressionPoints(counted) ==
  Points(counted, "BRAND_IMPERSONATION_FORM") + Points(counted, "LOGO_ALT_IMPERSONATION")
    + Points(counted, "EXTERNAL_LINK_OVERUSE")

Cap(score) == IF score < ContentCap THEN score ELSE ContentCap

\* score_content
ScoreOf(signals) ==
  LET counted == Counted(signals)
  IN  Cap(EvidencePoints(counted) + ImpressionPoints(counted))

Scoring(f) == [score |-> ScoreOf(SignalsOf(f)), signals |-> SignalsOf(f)]

\* Mutant of Merge: the fields asked for are those of the rendered page.
MergeReplacesFields(static, rendered) ==
  [marks |-> static.marks \cup rendered.marks,
   title |-> rendered.title, fields |-> rendered.fields,
   alts |-> static.alts \cup rendered.alts, links |-> rendered.links,
   shell |-> rendered.shell]

\* _merge_features
Merge(static, rendered) ==
  [marks |-> static.marks \cup rendered.marks,
   title |-> IF rendered.title = "untitled" THEN static.title ELSE rendered.title,
   fields |-> static.fields \cup rendered.fields,
   alts |-> static.alts \cup rendered.alts,
   links |-> IF rendered.links = "none" THEN static.links ELSE rendered.links,
   shell |-> rendered.shell]

\* _should_run_precision_analysis
NeedsPrecision(f, score) ==
  /\ score < DangerThreshold
  /\ \/ f.shell
     \/ score >= PrecisionMinScore
     \/ f.marks \cap {"download", "lure", "agency"} # {}
     \/ f.fields # {}
-----------------------------------------------------------------------------
\* What comes of the provider: a verdict or no answer (no key, closed, a timeout, a
\* failed request, an answer it cannot read, an exception).
Inferences == {"phishing", "suspicious", "benign", "none"}

HighRisk == {"BRAND_IMPERSONATION_FORM", "CREDENTIAL_FORM_EXTERNAL", "SENSITIVE_ID_FIELD",
             "FINANCIAL_FIELD", "RISKY_DOWNLOAD_LINK", "EXTERNAL_META_REFRESH"}

\* What is known of a URL beside its page: whether its domain is trusted and
\* whether an earlier stage has a high-risk signal.
Contexts == SUBSET {"trusted", "riskyUpstream"}

\* _should_apply_ai_suspicious_score
AppliesSuspicion(signals, context) ==
  \/ "trusted" \notin context
  \/ signals \cap HighRisk # {}
  \/ "riskyUpstream" \in context

\* _ai_score_weight
AiWeight(signals, inference, context) ==
  IF inference = "phishing" THEN PhishingWeight
  ELSE IF inference = "suspicious" /\ AppliesSuspicion(signals, context) THEN SuspiciousWeight
  ELSE 0
-----------------------------------------------------------------------------
\* The errors of fetch_page: before a response, and of a response.
RequestErrors == {"timeout", "connect_error", "http_error", "unexpected"}
ResponseErrors == {"unexpected_redirect", "http_error_status", "not_html", "too_large"}
FetchErrors == {"blocked_host"} \cup RequestErrors \cup ResponseErrors

\* _fetch_failed_score: a page that is not for analysis is no sign of malice.
FetchFailed(error) ==
  IF error \in {"not_html", "too_large", "unexpected_redirect", "blocked_host"} THEN 0
  ELSE FetchFailedScore
=============================================================================
