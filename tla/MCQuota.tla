------------------------------ MODULE MCQuota ------------------------------
EXTENDS Quota, TLC

\* Three days of one month: the daily limit binds within a day and the
\* monthly limit on the third.
OneMonth == <<1, 1, 1>>
=============================================================================
