---------------------------- MODULE AlertWidgetMC ----------------------------
EXTENDS AlertWidget

TwoAlerts   == {1, 2}
InObs       == {[obsPresent |-> TRUE, documentVisible |-> "yes"]}
HidesShows  == [name: {"documentVisible"}, value: {"yes", "no"}]
=============================================================================
