----------------------------- MODULE MCWebhooks -----------------------------
EXTENDS Webhooks
=============================================================================
