\* Two requests at a time on one account, with every failure; three tokens in all.
CONSTANTS
    Emails = {e1}
    Words = {"a"}
    Tokens = {t1, t2, t3}
    Workers = {w1, w2}
    Nobody = Nobody
    MaxVersion = 1
SPECIFICATION Spec
INVARIANTS TokensWorkOnce OldCredentialsGone ChosenPasswordOpens
SYMMETRY Symmetry
\* The tokens of the instance run out under requests that are still to draw one.
CHECK_DEADLOCK FALSE
