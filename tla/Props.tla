------------------------------- MODULE Props -------------------------------
(***************************************************************************)
(* The properties that sources give to accounts and tokens, as             *)
(* db/helpers/props.js writes and reads them: what a write makes of the    *)
(* rows, which rows a diff keeps, and what is read for the cache.          *)
(*                                                                         *)
(* The tables AccountProp and TokenProp are one set of rows; the subject   *)
(* tells them apart.  Values are numbers: a url, a handle, a trust level;  *)
(* kyc is Yes or No.                                                       *)
(***************************************************************************)
EXTENDS Integers, FiniteSets, Sequences, FiniteSetsExt, SequencesExt, Functions

CONSTANTS
  Accounts,
  Tokens,
  IssuerOf,     \* the issuer of a token
  MPTs,         \* the tokens that have an MPT issuance id
  NoValue       \* undefined or null

ASSUME SubjectAssumption ==
  /\ IssuerOf \in [Tokens -> Accounts]
  /\ MPTs \subseteq Tokens
  /\ Accounts \cap Tokens = {}
  /\ NoValue \notin Nat

Subjects == Accounts \cup Tokens
No == 0
Yes == 1

Row(subject, key, source, value) ==
  [subject |-> subject, key |-> key, source |-> source, value |-> value]

RowsOf(rows, subject) == {r \in rows : r.subject = subject}
Given(props) == {key \in DOMAIN props : props[key] # NoValue}

\* applyAccountProps, applyTokenProps: a key without a value deletes its row,
\* a key that is not named leaves it.
ApplyProps_Inserts(rows, subject, props, source) ==
  rows \cup {Row(subject, key, source, props[key]) : key \in Given(props)}
ApplyProps(rows, subject, props, source) ==
  {r \in rows : ~(r.subject = subject /\ r.source = source /\ r.key \in DOMAIN props)}
  \cup {Row(subject, key, source, props[key]) : key \in Given(props)}

\* What a write or a sweep has changed.
Changed(before, after) == {r.subject : r \in (before \ after) \cup (after \ before)}
IconChanged(before, after) ==
  {r.subject : r \in {q \in (before \ after) \cup (after \ before) : q.key = "icon"}}

\* One entry of a diff: [subject, props].  What the diff has collected so far
\* is the rows, the keys to keep, and the subjects to mark.
ApplyEntry_KeepsChanged(diff, entry, source) ==
  LET after == ApplyProps(diff.rows, entry.subject, entry.props, source)
  IN  [rows  |-> after,
       kept  |-> diff.kept \cup {<<r.subject, r.key>> : r \in after \ diff.rows},
       dirty |-> diff.dirty \cup Changed(diff.rows, after),
       icons |-> diff.icons \cup IconChanged(diff.rows, after)]
ApplyEntry(diff, entry, source) ==
  LET after == ApplyProps(diff.rows, entry.subject, entry.props, source)
  IN  [rows  |-> after,
       kept  |-> diff.kept \cup ({entry.subject} \X Given(entry.props)),
       dirty |-> diff.dirty \cup Changed(diff.rows, after),
       icons |-> diff.icons \cup IconChanged(diff.rows, after)]

\* The entries of a chunk, one after the other.
Diffed(diff, entries, source) ==
  FoldLeft(LAMBDA d, entry : ApplyEntry(d, entry, source), diff, entries)

\* sweepStaleProps: the rows of a source, in one of the tables, that the diff
\* has not kept.
Stale(rows, table, kept, source) ==
  {r \in rows : r.source = source /\ r.subject \in table /\ <<r.subject, r.key>> \notin kept}

\* dedupeTokens compares a token with copies that have lost their issuance id
\* (it is passed under another name), so no MPT token equals its own copy.
Deduped(subjects) == subjects \ MPTs

---------------------------------------------------------------------------
(* Reading.  A property as it is read: [key, value, source].               *)

Read(key, value, source) == [key |-> key, value |-> value, source |-> source]

TrustSources(props) == {p.source : p \in {q \in props : q.key = "trust_level"}}

\* A trust level of one of the sources is at least 1.
Raised(props, sources) ==
  {IF p.key = "trust_level" /\ p.source \in sources THEN [p EXCEPT !.value = Max({@, 1})] ELSE p :
     p \in props}

\* readAccountProps: who has passed kyc is trusted, and the ledger may name a
\* domain.
ReadAccountProps(rows, domains, account) ==
  LET own == {Read(r.key, r.value, r.source) : r \in RowsOf(rows, account)}
      kyc == {p.source : p \in {q \in own : q.key = "kyc" /\ q.value = Yes}}
  IN  Raised(own, kyc)
      \cup {Read("trust_level", 1, source) : source \in kyc \ TrustSources(own)}
      \cup {Read("domain", 1, "ledger") : a \in {account} \cap domains}

\* readTokenProps: the trust in an issuer raises what the same source says of
\* the token, and is passed on to a token somebody holds.
ReadTokenProps(rows, domains, held, token) ==
  LET own    == {Read(r.key, r.value, r.source) : r \in RowsOf(rows, token)}
      issuer == {p \in ReadAccountProps(rows, domains, IssuerOf[token]) : p.key = "trust_level"}
  IN  Raised(own, TrustSources(issuer))
      \cup {p \in issuer : token \in held /\ p.source \notin TrustSources(own)}

\* The domain that reduceProps picks for the crawler of domains is there if
\* any source gives one.
KnowsDomain(rows, domains, account) ==
  \E p \in ReadAccountProps(rows, domains, account) : p.key = "domain"
=============================================================================
