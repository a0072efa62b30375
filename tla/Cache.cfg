\* Two handlers and the cron job prod the same cache, in any overlap; others
\* change the source silently; some values do not evaluate.
SPECIFICATION FairSpec
CONSTANTS
    Handler = {t1, t2}
    Cron = {c1}
    Silent = {s1}
    SyncInit = FALSE
    MaxChanges = 4
    MaxQueue = 3
    Value <- MCValue
    Unevaluable = {0, 3}
    t1 = t1
    t2 = t2
    c1 = c1
    s1 = s1
PROPERTIES EventuallyFresh TrailsSource
