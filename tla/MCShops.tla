------------------------------- MODULE MCShops -------------------------------
\* Two people, two mobile numbers, two requests of a kind in flight, and three
\* requests and notices of moderation.  Shops and accounts share no column and
\* shops do not meet each other: moderation and the ways of a notice are
\* explored for one shop, with nobody else signing up; and opening hours, which
\* nothing reads but is_open_now, with no request under way.
EXTENDS Shops, FiniteSets, TLC

\* People and numbers are only compared.
MCSymmetry == Permutations(Emails) \cup Permutations(Phones)

\* Something has become of a shop or of a notice since the registrations.
Moderated == \E e \in Emails : shopStatus[e] \notin {"none", "PENDING"}

Noticed == doubtful # {} \/ lastNotice # [e \in Emails |-> "none"]
             \/ \E x \in underWay : x.at # "web"

UsualHours ==
  /\ \A e \in Emails : hours[e] = [opening_time |-> 0, closing_time |-> 0]
  /\ accepting = kyc

FewRequests ==
  /\ Cardinality(signingUp) <= 2 /\ Cardinality(phoneEdits) <= 2
  /\ Cardinality(moderating) <= 2
  /\ Cardinality(moderating) + Cardinality(underWay) <= 3
  /\ Cardinality(kyc) <= 1
  /\ moderating # {} \/ Moderated \/ Noticed =>
       Cardinality(Registered) = 1 /\ signingUp = {} /\ phoneEdits = {}
  /\ \/ UsualHours
     \/ moderating = {} /\ underWay = {} /\ signingUp = {} /\ phoneEdits = {}
==============================================================================
