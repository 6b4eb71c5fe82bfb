----------------------------- MODULE MCNotifier -----------------------------
EXTENDS Notifier

=============================================================================
