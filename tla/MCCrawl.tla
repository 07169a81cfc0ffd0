------------------------------ MODULE MCCrawl ------------------------------
(* Two issuers, an IOU and an MPT token, with short lists.                 *)
EXTENDS Crawl

CONSTANTS a, b, t, m

MCIssuerOf == (t :> a) @@ (m :> b)

\* One list warns of an issuer it declares, the other has lost most of it.
MCTrustlists == {
  [issuers |-> <<Entry(a, [trust_level |-> 3])>>, advised |-> <<a>>,
   tokens  |-> <<Entry(t, [icon |-> 1]), Entry(m, [icon |-> 2])>>],
  [issuers |-> <<>>, advised |-> <<>>, tokens |-> <<Entry(t, [trust_level |-> 2])>>]}

\* The issuer is named with each of its tokens.
MCCuratedLists == {
  << [native |-> TRUE, token |-> t, avatar |-> 1, icon |-> 1, shortlist |-> TRUE, short |-> FALSE, curated |-> TRUE],
     [native |-> TRUE, token |-> t, avatar |-> 2, icon |-> NoValue, shortlist |-> TRUE, short |-> TRUE, curated |-> FALSE] >>,
  << [native |-> FALSE, token |-> m, avatar |-> 1, icon |-> 1, shortlist |-> TRUE, short |-> TRUE, curated |-> TRUE] >>}

MCServiceLists == { << [addresses |-> <<a, b>>, props |-> [domain |-> 1, urls |-> NoValue]] >>, <<>> }
MCWellKnownLists == { <<Entry(a, [domain |-> NoValue, urls |-> 1]), Entry(NoValue, [domain |-> 1])>>, <<>> }
MCTomls == { <<Entry(a, [icon |-> 1]), Entry(t, [icon |-> 1, trust_level |-> 3]), Entry(b, [icon |-> 1])>> }
MCProfiles == {<<>>, 1 :> 3}

MCRows == {Row(a, "urls", "wellknown", 1), Row(t, "urls", "trustlist", 2), Row(m, "icon", "trustlist", 1),
           Row(b, "kyc", "kyc", No)}
MCConfigs == {{"trustlists", "domains"}, {"xaman"}, {"bithomp", "x"}, {"xrpscan", "gravatar"}}
=============================================================================
