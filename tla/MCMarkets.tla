-------------------------------- MODULE MCMarkets --------------------------------
\* Items: 1 and 4 commodities, 2 a raid ring, 3 a pet cage; some captures did not learn the
\* scope of one of them.
\* The second digit of a link is the difficulty, or the pet's breed; 30 is a cage whose pet
\* was not read.
EXTENDS Markets

Listing(i, item, link, quantity, buyout) ==
  [index |-> i, item |-> item, creature |-> IF item = 3 /\ link # 30 THEN 7 ELSE 0,
   link |-> link, quantity |-> quantity, buyout |-> buyout]

MCCaptures == 1..8
MCRealmOf == <<1, 2, 1, 1, 3, 2, 3, 3>>
MCTimeOf == <<1, 2, 3, 4, 1, 3, 3, 1>>
MCDeclared == <<7, 4, 4, 3, 3, 2, 2, 5>>
MCRows ==
  <<{Listing(1, 1, 10, 3, 10), Listing(2, 1, 10, 1, 0), Listing(3, 2, 23, 1, 9),
     Listing(4, 2, 25, 1, 7), Listing(5, 3, 31, 1, 5), Listing(6, 3, 32, 1, 6),
     Listing(7, 4, 40, 1, 3)},
    {Listing(1, 1, 10, 2, 7), Listing(2, 2, 23, 1, 8), Listing(3, 2, 20, 1, 0), Listing(4, 4, 40, 1, 3)},
    {Listing(1, 2, 23, 1, 4), Listing(2, 2, 25, 1, 7), Listing(3, 3, 31, 1, 0), Listing(4, 4, 40, 2, 3)},
    {Listing(1, 1, 10, 4, 9), Listing(2, 2, 25, 1, 6), Listing(3, 2, 25, 1, 6)},
    {Listing(1, 2, 23, 1, 4), Listing(2, 3, 32, 1, 5), Listing(3, 4, 40, 1, 1)},
    {Listing(1, 1, 10, 1, 1)},
    {Listing(1, 2, 25, 1, 7), Listing(2, 1, 10, 2, 3)},
    {Listing(1, 2, 23, 1, 2), Listing(2, 3, 32, 2, 9), Listing(3, 3, 30, 1, 2),
     Listing(4, 1, 10, 1, 4), Listing(5, 4, 40, 1, 2)}>>
Unlearnt == {<<1, 7>>, <<1, 8>>, <<2, 3>>, <<2, 7>>, <<2, 8>>, <<4, 2>>}
MCScopeOf ==
  [c \in MCCaptures |-> [item \in 1..4 |->
     IF <<item, c>> \in Unlearnt THEN "unknown" ELSE IF item \in {1, 4} THEN "region" ELSE "realm"]]
Links == {10, 20, 23, 25, 30, 31, 32, 40}
MCContextOf == [l \in Links |-> CASE l = 23 -> 3 [] l = 25 -> 5 [] OTHER -> None]
MCPetOf == [l \in Links |-> CASE l = 31 -> "s" [] l = 32 -> "p" [] OTHER -> None]
MCGroups == {[realms |-> {1, 2}, from |-> 2, to |-> 4]}
MCFilters == {{23}, {20, 25}}
MCCapturesIn == <<(<<1>>), (<<1, 5, 8>>), (<<3, 6>>)>>
================================================================================
