----------------------------- MODULE MCLoginFlow -----------------------------
(* LoginFlow with three data centers, one of them a gateway, two accounts, *)
(* two known and an unknown country, and discovery over two homes.           *)
EXTENDS LoginFlow

CONSTANTS eu, us, cn, US, CN, XX, anna, bob, cam1, cam2

MCOrder == <<eu, us, cn>>
MCRouting == [c \in {US, CN, XX} |-> CASE c = US -> us [] c = CN -> cn [] OTHER -> None]
MCHome == [a \in {anna, bob} |-> IF a = anna THEN eu ELSE cn]

NoList == [l \in Lists |-> {}]
MCLayouts == { NoList,
               [NoList EXCEPT ![<<"rooms1", 1>>] = {cam1}, ![<<"group", 2>>] = {cam2}],
               [NoList EXCEPT ![<<"group", 2>>] = {cam1}, ![<<"rooms2", 2>>] = {cam2}],
               [NoList EXCEPT ![<<"relation", 2>>] = {cam1}],
               [NoList EXCEPT ![<<"devices", 1>>] = {cam1, cam2}] }
=============================================================================
